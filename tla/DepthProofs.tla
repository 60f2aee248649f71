---------------------------- MODULE DepthProofs ----------------------------
(***************************************************************************)
(* Proofs about depth frames, on both machines.  The sender: for any number of     *)
(* cameras, workers, frames and sizes, the workers that share the slots keep each    *)
(* camera's frames in their order, and none is lost uncounted (DepthPool).  The        *)
(* receiver: for any number of callers, workers, chunks and helpers, a frame decoded     *)
(* in parallel is whole when the call returns (ParallelDecode).  Both: every frame of    *)
(* every size, whatever its codec, scale and step, comes back from its packet            *)
(* (DepthCodec).                                                                     *)
(***************************************************************************)
EXTENDS DepthParts, Integers, Sequences, FiniteSets, SequencesExt, FiniteSetTheorems,
        SequenceTheorems, WellFoundedInduction, TLAPS

PoolConstants ==
    /\ PoolSlots \in Nat /\ MaxSlots \in Nat /\ PoolSlots <= MaxSlots
    /\ Compressors # {}

Job == [n : Nat, size : Sizes]
Slot == [jobs : Seq(Job), busy : BOOLEAN]

\* A worker that has a slot's frame, before or after it is handed on.
Holds(w, s) == doing[w] \in {"compress", "complete"} /\ work[w][1] = s

\* Frame n of slot s is waiting, or in the hands of worker w.
Waits(s, n) == \E i \in 1..Len(slots[s].jobs) : slots[s].jobs[i].n = n
InHand(w, s, n) == doing[w] = "compress" /\ work[w] = <<s, n>>
Carried(s, n) == (s \in 1..Len(slots) /\ Waits(s, n)) \/ \E w \in Compressors : InHand(w, s, n)
CameOut(s, n) == \E i \in 1..Len(out[s]) : out[s][i] = n

-----------------------------------------------------------------------------
\* The inductive invariant

Typed ==
    /\ slots \in Seq(Slot) /\ Len(slots) <= MaxSlots
    /\ nextSlot \in Nat /\ stopping \in BOOLEAN
    /\ doing \in [Compressors -> {"check", "pop", "compress", "complete", "left"}]
    /\ work \in [Compressors -> {<<>>} \cup ((1..MaxSlots) \X Nat)]
    /\ late \subseteq Compressors
    /\ out \in [1..MaxSlots -> Seq(Nat)]
    /\ gone \in [1..MaxSlots -> SUBSET Nat]
    /\ depthFrames \in Nat

\* A slot is busy exactly while one worker has a frame of it.
OneWorker ==
    /\ \A w \in Compressors : doing[w] \in {"compress", "complete"} =>
          /\ work[w] \in (1..Len(slots)) \X Nat
          /\ slots[work[w][1]].busy
    /\ \A v, w \in Compressors, s \in 1..Len(slots) : Holds(v, s) /\ Holds(w, s) => v = w
    /\ \A s \in 1..Len(slots) : slots[s].busy => \E w \in Compressors : Holds(w, s)
    /\ \A w \in Compressors : doing[w] = "left" => stopping

\* What has come out of a slot precedes what is in hand, and that what waits.
Ordered ==
    \A s \in 1..MaxSlots :
        /\ \A n \in Nat : Carried(s, n) =>
              /\ n \in 1..depthFrames /\ n \notin gone[s]
              /\ \A i \in 1..Len(out[s]) : out[s][i] < n
        /\ \A i \in 1..Len(out[s]) : out[s][i] \in 1..depthFrames /\ out[s][i] \notin gone[s]
        /\ \A i \in 1..(Len(out[s]) - 1) : out[s][i] < out[s][i + 1]
        /\ gone[s] \subseteq 1..depthFrames
        /\ s \in 1..Len(slots) =>
              /\ \A i, j \in 1..Len(slots[s].jobs) : i < j => slots[s].jobs[i].n < slots[s].jobs[j].n
              /\ \A w \in Compressors, n \in Nat, m \in Nat : InHand(w, s, n) /\ Waits(s, m) => n < m

Accounted ==
    \A f \in 1..depthFrames : \E s \in 1..MaxSlots : f \in gone[s] \/ CameOut(s, f) \/ Carried(s, f)

\* The last worker that leaves in time leaves no frame behind.
Finished == (\A w \in Compressors : doing[w] = "left") /\ late = {} => ~Pool!HasJob

PoolInv == Typed /\ OneWorker /\ Ordered /\ Accounted /\ Finished

-----------------------------------------------------------------------------
LEMMA LeastElement ==
    ASSUME NEW T, T \subseteq Nat, T # {}
    PROVE  \E x \in T : \A y \in T : x <= y
<1>1. PICK x \in T : \A y \in T : ~(<<y, x>> \in OpToRel(<, Nat))
  BY NatLessThanWellFounded, WFMin, Zenon
<1>2. ASSUME NEW y \in T
      PROVE  x <= y
  <2>1. x \in Nat /\ y \in Nat
    OBVIOUS
  <2>2. ~(<<y, x>> \in OpToRel(<, Nat))
    BY <1>1
  <2>3. ~(y < x)
    BY <2>1, <2>2 DEF OpToRel
  <2> QED
    BY <2>1, <2>3
<1> QED
  BY <1>2

\* As many frames are pushed out as it takes, and never more than there are.
LEMMA PushedOutType ==
    ASSUME NEW jobs \in Seq(Job), NEW size
    PROVE  Pool!PushedOut(jobs, size) \in 0..Len(jobs)
<1> DEFINE Fits(k) == Len(jobs) - k < FramesPerSlot
                      /\ Pool!Bytes(SubSeq(jobs, k + 1, Len(jobs))) + size <= SlotBytes
           T == {k \in 0..Len(jobs) : k = Len(jobs) \/ Fits(k)}
<1> HIDE DEF Fits
<1>1. Len(jobs) \in Nat
  OBVIOUS
<1>2. T \subseteq Nat /\ T # {}
  BY <1>1
<1>3. PICK k \in T : \A y \in T : k <= y
  BY <1>2, LeastElement
<1>4. k \in 0..Len(jobs) /\ (k = Len(jobs) \/ Fits(k))
  OBVIOUS
<1>5. \A i \in 0..(k - 1) : ~Fits(i)
  <2> SUFFICES ASSUME NEW i \in 0..(k - 1), Fits(i) PROVE FALSE
    OBVIOUS
  <2>1. i \in T /\ i < k
    BY <1>1, <1>4
  <2> QED BY <1>1, <1>3, <1>4, <2>1
<1>6. \E c \in 0..Len(jobs) : (c = Len(jobs) \/ Fits(c)) /\ \A i \in 0..(c - 1) : ~Fits(i)
  BY <1>4, <1>5
<1> QED
  BY <1>6 DEF Pool!PushedOut, Fits

LEMMA InitInv == ASSUME PoolConstants, Pool!Init PROVE PoolInv
<1> USE DEF Pool!Init, PoolConstants
<1>1. /\ slots \in Seq(Slot) /\ Len(slots) = PoolSlots
      /\ \A s \in 1..Len(slots) : slots[s] = Pool!Empty
  <2>1. Pool!Empty \in Slot
    BY DEF Pool!Empty, Slot
  <2> QED BY <2>1
<1>2. Typed
  <2>1. <<>> \in Seq(Nat)
    OBVIOUS
  <2>2. out \in [1..MaxSlots -> Seq(Nat)] /\ gone \in [1..MaxSlots -> SUBSET Nat]
    BY <2>1
  <2>3. /\ doing \in [Compressors -> {"check", "pop", "compress", "complete", "left"}]
        /\ work \in [Compressors -> {<<>>} \cup ((1..MaxSlots) \X Nat)]
    OBVIOUS
  <2> QED BY <1>1, <2>2, <2>3 DEF Typed
<1>3. \A s \in 1..Len(slots) : Len(slots[s].jobs) = 0 /\ ~slots[s].busy
  BY <1>1 DEF Pool!Empty
<1>4. \A s \in 1..MaxSlots : Len(out[s]) = 0 /\ gone[s] = {} /\ \A n : ~Carried(s, n)
  BY SMTT(30), <1>3 DEF Carried, Waits, InHand
<1>5. OneWorker
  BY <1>3 DEF OneWorker, Holds
<1>6. Ordered
  <2>1. \A s \in 1..Len(slots) : \A n : ~Waits(s, n)
    BY <1>3 DEF Waits
  <2>2. 1..0 = {} /\ 1..(0 - 1) = {}
    OBVIOUS
  <2> HIDE DEF Pool!Init
  <2> QED BY <1>3, <1>4, <2>1, <2>2 DEF Ordered
<1>7. Accounted
  BY DEF Accounted
<1>8. Finished
  BY <1>2 DEF Finished, Typed
<1> QED
  BY <1>2, <1>5, <1>6, <1>7, <1>8 DEF PoolInv

\* Steps that touch no slot and no frame.
LEMMA Unmoved ==
    ASSUME PoolConstants, PoolInv, UNCHANGED <<slots, work, out, gone, depthFrames>>,
           Typed', stopping => stopping',
           \A w \in Compressors : doing'[w] \in {"compress", "complete"}
               <=> doing[w] \in {"compress", "complete"},
           \A w \in Compressors : doing'[w] = "compress" <=> doing[w] = "compress",
           \A w \in Compressors : doing'[w] = "left" => stopping',
           Finished'
    PROVE  PoolInv'
<1>1. \A s : \A w \in Compressors : Holds(w, s)' <=> Holds(w, s)
  BY DEF Holds
<1>2. OneWorker'
  BY <1>1 DEF PoolInv, OneWorker
<1>3. \A s, n : Carried(s, n)' <=> Carried(s, n)
  BY DEF Carried, Waits, InHand
<1>4. \A s, n : \A w \in Compressors : InHand(w, s, n)' <=> InHand(w, s, n)
  BY DEF InHand
<1>5. Ordered'
  BY <1>3, <1>4 DEF PoolInv, Ordered, Waits
<1>6. Accounted'
  BY <1>3 DEF PoolInv, Accounted, CameOut
<1> QED
  BY <1>2, <1>5, <1>6 DEF PoolInv

LEMMA StopStep == ASSUME PoolConstants, PoolInv, Pool!Stop PROVE PoolInv'
<1>1. Typed'
  BY DEF Pool!Stop, PoolInv, Typed
<1>2. Finished'
  BY DEF Pool!Stop, PoolInv, Finished, Pool!HasJob
<1> QED
  BY <1>1, <1>2, Unmoved DEF Pool!Stop, PoolInv, OneWorker

LEMMA DeadlineStep ==
    ASSUME PoolConstants, PoolInv, NEW w \in Compressors, Pool!DeadlinePasses(w) PROVE PoolInv'
<1>1. Typed'
  BY DEF Pool!DeadlinePasses, PoolInv, Typed
<1>2. Finished'
  BY DEF Pool!DeadlinePasses, Finished
<1> QED
  BY <1>1, <1>2, Unmoved DEF Pool!DeadlinePasses, PoolInv, OneWorker

LEMMA CheckStep ==
    ASSUME PoolConstants, PoolInv, NEW w \in Compressors, Pool!Check(w) PROVE PoolInv'
<1>1. /\ doing[w] = "check" /\ doing' = [doing EXCEPT ![w] = IF Pool!MayLeave(w) THEN "left" ELSE "pop"]
      /\ UNCHANGED <<slots, nextSlot, stopping, work, late, out, gone, depthFrames>>
  BY DEF Pool!Check
<1>2. Typed'
  BY <1>1 DEF PoolInv, Typed
<1>3. /\ doing'[w] = (IF Pool!MayLeave(w) THEN "left" ELSE "pop")
      /\ \A v \in Compressors : v # w => doing'[v] = doing[v]
  BY <1>1 DEF PoolInv, Typed
<1>4. Finished'
  BY <1>1, <1>3 DEF Finished, Pool!MayLeave, Pool!HasJob
<1>5. \A v \in Compressors : doing'[v] = "left" => stopping'
  BY <1>1, <1>3 DEF Pool!MayLeave, PoolInv, OneWorker
<1> QED
  BY <1>1, <1>2, <1>3, <1>4, <1>5, Unmoved

LEMMA AppendSlotStep == ASSUME PoolConstants, PoolInv, Pool!AppendSlot PROVE PoolInv'
<1>1. /\ ~stopping /\ Len(slots) < MaxSlots /\ slots' = Append(slots, Pool!Empty)
      /\ UNCHANGED <<nextSlot, stopping, doing, work, late, out, gone, depthFrames>>
  BY DEF Pool!AppendSlot
<1>2. slots \in Seq(Slot) /\ Pool!Empty \in Slot /\ Len(slots) \in Nat /\ MaxSlots \in Nat
  BY DEF PoolInv, Typed, Pool!Empty, Slot, PoolConstants
<1>3. /\ slots' \in Seq(Slot) /\ Len(slots') = Len(slots) + 1
      /\ \A s \in 1..Len(slots) : slots'[s] = slots[s]
      /\ slots'[Len(slots) + 1] = Pool!Empty
  BY <1>1, <1>2
<1>4. Typed'
  BY <1>1, <1>2, <1>3 DEF PoolInv, Typed
<1>5. Len(Pool!Empty.jobs) = 0 /\ ~Pool!Empty.busy
  BY DEF Pool!Empty
<1>5a. slots'[Len(slots) + 1].jobs = Pool!Empty.jobs /\ Len(slots'[Len(slots) + 1].jobs) = 0
  BY <1>3, <1>5
<1>6. \A s : \A v \in Compressors : Holds(v, s)' <=> Holds(v, s)
  BY <1>1 DEF Holds
<1>7. OneWorker'
  <2>1. ASSUME NEW v \in Compressors, doing'[v] \in {"compress", "complete"}
        PROVE  work'[v] \in (1..Len(slots')) \X Nat /\ slots'[work'[v][1]].busy
    <3>1. work[v] \in (1..Len(slots)) \X Nat /\ slots[work[v][1]].busy
      BY <1>1, <2>1 DEF PoolInv, OneWorker
    <3>2. work[v][1] \in 1..Len(slots) /\ 1..Len(slots) \subseteq 1..Len(slots')
      BY <1>2, <1>3, <3>1
    <3> QED BY <1>1, <1>3, <3>1, <3>2
  <2>2. ASSUME NEW u \in Compressors, NEW v \in Compressors, NEW s \in 1..Len(slots'), Holds(u, s)',
               Holds(v, s)'
        PROVE  u = v
    <3>0. Holds(u, s) /\ Holds(v, s)
      BY <1>6, <2>2
    <3>1. s \in 1..Len(slots)
      BY <3>0 DEF Holds, PoolInv, OneWorker
    <3> QED BY <3>0, <3>1 DEF PoolInv, OneWorker
  <2>3. ASSUME NEW s \in 1..Len(slots'), slots'[s].busy PROVE \E v \in Compressors : Holds(v, s)'
    <3>1. s \in 1..Len(slots)
      BY <1>2, <1>3, <1>5, <2>3
    <3> QED BY <1>3, <1>6, <2>3, <3>1 DEF PoolInv, OneWorker
  <2>4. \A v \in Compressors : doing'[v] = "left" => stopping'
    BY <1>1 DEF PoolInv, OneWorker
  <2> QED BY <2>1, <2>2, <2>3, <2>4 DEF OneWorker
<1>8. \A s \in 1..Len(slots) : \A n : Waits(s, n)' <=> Waits(s, n)
  BY <1>3 DEF Waits
<1>9. ASSUME NEW s, s = Len(slots) + 1 PROVE Len(slots'[s].jobs) = 0 /\ \A n : ~Waits(s, n)'
  <2>1. Len(slots'[s].jobs) = 0
    BY <1>5a, <1>9
  <2> QED BY <2>1 DEF Waits
<1>10. \A s, n : \A v \in Compressors : InHand(v, s, n)' <=> InHand(v, s, n)
  BY <1>1 DEF InHand
<1>11. \A s, n : Carried(s, n)' <=> Carried(s, n)
  <2> TAKE s, n
  <2>1. s \in 1..Len(slots') <=> s \in 1..Len(slots) \/ s = Len(slots) + 1
    BY <1>2, <1>3
  <2>2. ~(Len(slots) + 1 \in 1..Len(slots))
    BY <1>2
  <2>3. (s \in 1..Len(slots') /\ Waits(s, n)') <=> (s \in 1..Len(slots) /\ Waits(s, n))
    BY <1>8, <1>9, <2>1, <2>2
  <2> QED BY <1>10, <2>3 DEF Carried
<1>12. Ordered'
  <2> SUFFICES ASSUME NEW s \in 1..MaxSlots, s \in 1..Len(slots')
               PROVE  /\ \A i, j \in 1..Len(slots'[s].jobs) : i < j
                             => slots'[s].jobs[i].n < slots'[s].jobs[j].n
                      /\ \A v \in Compressors, n \in Nat, m \in Nat : InHand(v, s, n)'
                             /\ Waits(s, m)' => n < m
    BY <1>1, <1>11 DEF PoolInv, Ordered
  <2>1. CASE s \in 1..Len(slots)
    BY <1>3, <1>8, <1>10, <2>1 DEF PoolInv, Ordered
  <2>2. CASE s = Len(slots) + 1
    <3>1. Len(slots'[s].jobs) = 0
      BY <1>9, <2>2
    <3> QED BY <1>9, <2>2, <3>1
  <2> QED BY <1>2, <1>3, <2>1, <2>2
<1>13. Accounted'
  BY <1>1, <1>11 DEF PoolInv, Accounted, CameOut
<1>14. Finished'
  <2>1. PICK w \in Compressors : TRUE
    BY DEF PoolConstants
  <2>2. doing'[w] # "left"
    BY <1>1 DEF PoolInv, OneWorker
  <2> QED BY <2>2 DEF Finished
<1> QED
  BY <1>4, <1>7, <1>12, <1>13, <1>14 DEF PoolInv

\* A step of one worker, or of the camera of slot s, leaves the other slots alone.
LEMMA SlotsType ==
    ASSUME PoolConstants, PoolInv, NEW s \in 1..Len(slots)
    PROVE  /\ Len(slots) \in Nat /\ DOMAIN slots = 1..Len(slots) /\ s \in 1..MaxSlots
           /\ slots[s] \in Slot /\ slots[s].jobs \in Seq(Job) /\ Len(slots[s].jobs) \in Nat
           /\ slots[s].busy \in BOOLEAN
<1>1. slots \in Seq(Slot) /\ Len(slots) \in Nat /\ Len(slots) <= MaxSlots
  BY DEF PoolInv, Typed
<1>2. slots[s] \in Slot
  BY <1>1, ElementOfSeq
<1>3. slots[s].jobs \in Seq(Job) /\ slots[s].busy \in BOOLEAN
  BY <1>2 DEF Slot
<1>4. DOMAIN slots = 1..Len(slots)
  BY <1>1
<1>5. MaxSlots \in Nat
  BY DEF PoolConstants
<1>6. s \in 1..MaxSlots
  BY <1>1, <1>5
<1>7. Len(slots[s].jobs) \in Nat
  BY <1>3
<1> QED
  BY <1>1, <1>2, <1>3, <1>4, <1>6, <1>7

LEMMA JobsInOrder ==
    ASSUME PoolConstants, PoolInv, NEW s \in 1..Len(slots),
           NEW i \in 1..Len(slots[s].jobs), NEW j \in 1..Len(slots[s].jobs), i < j
    PROVE  slots[s].jobs[i].n < slots[s].jobs[j].n
<1>1. s \in 1..MaxSlots
  BY SlotsType
<1>. QED
  BY <1>1 DEF PoolInv, Ordered

LEMMA RefusedStep ==
    ASSUME PoolConstants, PoolInv, NEW s \in 1..Len(slots),
           ~stopping, depthFrames' = depthFrames + 1, gone' = [gone EXCEPT ![s] = @ \cup {depthFrames'}],
           UNCHANGED <<slots, nextSlot, stopping, doing, work, late, out>>
    PROVE  PoolInv'
<1>1. depthFrames \in Nat /\ s \in 1..MaxSlots /\ gone \in [1..MaxSlots -> SUBSET Nat]
  BY SlotsType DEF PoolInv, Typed
<1>2. /\ gone'[s] = gone[s] \cup {depthFrames + 1}
      /\ \A r \in 1..MaxSlots : r # s => gone'[r] = gone[r]
      /\ \A r \in 1..MaxSlots : gone'[r] \subseteq gone[r] \cup {depthFrames + 1}
             /\ gone[r] \subseteq gone'[r]
  BY <1>1
<1>3. Typed'
  BY <1>1 DEF PoolInv, Typed
<1>4. OneWorker'
  BY DEF PoolInv, OneWorker, Holds
<1>5. \A r, n : Carried(r, n)' <=> Carried(r, n)
  BY DEF Carried, Waits, InHand
<1>6. /\ \A r, n : \A v \in Compressors : InHand(v, r, n)' <=> InHand(v, r, n)
      /\ \A r, n : Waits(r, n)' <=> Waits(r, n)
  BY DEF InHand, Waits
<1>7. Ordered'
  <2>1. 1..depthFrames \subseteq 1..depthFrames' /\ ~(depthFrames + 1 \in 1..depthFrames)
            /\ depthFrames + 1 \in 1..depthFrames'
    BY <1>1
  <2>2. ASSUME NEW r \in 1..MaxSlots
        PROVE  /\ gone'[r] \subseteq 1..depthFrames'
               /\ \A n \in Nat : Carried(r, n)' =>
                     /\ n \in 1..depthFrames' /\ n \notin gone'[r]
                     /\ \A i \in 1..Len(out[r]) : out[r][i] < n
               /\ \A i \in 1..Len(out[r]) : out[r][i] \in 1..depthFrames' /\ out[r][i] \notin gone'[r]
    <3>1. gone[r] \subseteq 1..depthFrames /\ gone'[r] \subseteq gone[r] \cup {depthFrames + 1}
      BY <1>2 DEF PoolInv, Ordered
    <3>2. gone'[r] \subseteq 1..depthFrames'
      BY <2>1, <3>1
    <3>3. \A n \in 1..depthFrames : n \notin gone[r] => n \in 1..depthFrames' /\ n \notin gone'[r]
      BY <2>1, <3>1
    <3>4. ASSUME NEW n \in Nat, Carried(r, n)'
          PROVE  n \in 1..depthFrames /\ n \notin gone[r] /\ \A i \in 1..Len(out[r]) : out[r][i] < n
      <4>1. Carried(r, n)
        BY <1>5, <3>4
      <4>. QED
        BY <4>1 DEF PoolInv, Ordered
    <3>5. \A i \in 1..Len(out[r]) : out[r][i] \in 1..depthFrames /\ out[r][i] \notin gone[r]
      BY DEF PoolInv, Ordered
    <3>. QED
      BY <3>2, <3>3, <3>4, <3>5
  <2>3. ASSUME NEW r \in 1..MaxSlots
        PROVE  /\ \A i \in 1..(Len(out[r]) - 1) : out[r][i] < out[r][i + 1]
               /\ r \in 1..Len(slots) =>
                     \A i, j \in 1..Len(slots[r].jobs) : i < j => slots[r].jobs[i].n < slots[r].jobs[j].n
    BY DEF PoolInv, Ordered
  <2>4. ASSUME NEW r \in 1..MaxSlots, r \in 1..Len(slots)
        PROVE  \A w \in Compressors, n \in Nat, m \in Nat : InHand(w, r, n)' /\ Waits(r, m)' => n < m
    BY <1>6, <2>4 DEF PoolInv, Ordered
  <2>. QED
    BY <2>2, <2>3, <2>4 DEF Ordered
<1>8. Accounted'
  <2> SUFFICES ASSUME NEW f \in 1..depthFrames'
               PROVE  \E r \in 1..MaxSlots : f \in gone'[r] \/ CameOut(r, f)' \/ Carried(r, f)'
    BY DEF Accounted
  <2>1. CASE f = depthFrames + 1
    BY <1>1, <1>2, <2>1
  <2>2. CASE f \in 1..depthFrames
    <3>1. PICK r \in 1..MaxSlots : f \in gone[r] \/ CameOut(r, f) \/ Carried(r, f)
      BY <2>2 DEF PoolInv, Accounted
    <3> QED BY <1>2, <1>5, <3>1 DEF CameOut
  <2> QED BY <1>1, <2>1, <2>2
<1>9. Finished'
  BY DEF PoolInv, Finished, Pool!HasJob, Pool!Free
<1> QED
  BY <1>3, <1>4, <1>7, <1>8, <1>9 DEF PoolInv

LEMMA Apart ==
    ASSUME NEW k \in Nat, NEW l \in Nat, k <= l, NEW a \in 1..k, NEW b \in (k + 1)..l
    PROVE  a < b /\ b \in 1..l /\ a \in 1..l
OBVIOUS

\* The queue of a slot once a frame has been published to it: what is not pushed out
\* moves up, the new frame is last.
LEMMA QueueAfterPublish ==
    ASSUME NEW jobs \in Seq(Job), NEW k \in 0..Len(jobs), NEW j \in Job
    PROVE  LET new == Append(SubSeq(jobs, k + 1, Len(jobs)), j)
           IN /\ new \in Seq(Job) /\ Len(new) = Len(jobs) - k + 1
              /\ \A i \in 1..(Len(jobs) - k) : new[i] = jobs[k + i]
              /\ new[Len(jobs) - k + 1] = j
<1> DEFINE rest == SubSeq(jobs, k + 1, Len(jobs))
<1>1. Len(jobs) \in Nat /\ k \in Nat /\ k <= Len(jobs)
  OBVIOUS
<1>2. \A i \in (k + 1)..Len(jobs) : jobs[i] \in Job
  BY <1>1, ElementOfSeq
<1>3. /\ rest \in Seq(Job) /\ Len(rest) = Len(jobs) - k
      /\ \A i \in 1..(Len(jobs) - k) : rest[i] = jobs[k + i]
  <2>1. /\ rest \in Seq(Job)
        /\ Len(rest) = IF k + 1 <= Len(jobs) THEN Len(jobs) - (k + 1) + 1 ELSE 0
        /\ \A i \in 1..(Len(jobs) - (k + 1) + 1) : rest[i] = jobs[k + 1 + i - 1]
    BY <1>1, <1>2, SubSeqProperties
  <2> HIDE DEF rest
  <2>2. Len(jobs) - (k + 1) + 1 = Len(jobs) - k /\ (~(k + 1 <= Len(jobs)) => Len(jobs) - k = 0)
    BY <1>1
  <2>3. \A i \in 1..(Len(jobs) - k) : k + 1 + i - 1 = k + i
    BY <1>1
  <2> QED BY <2>1, <2>2, <2>3
<1> HIDE DEF rest
<1>4. /\ Append(rest, j) \in Seq(Job) /\ Len(Append(rest, j)) = Len(rest) + 1
      /\ \A i \in 1..Len(rest) : Append(rest, j)[i] = rest[i]
      /\ Append(rest, j)[Len(rest) + 1] = j
  BY <1>3, AppendProperties
<1>5. /\ Append(rest, j) \in Seq(Job) /\ Len(Append(rest, j)) = Len(jobs) - k + 1
      /\ \A i \in 1..(Len(jobs) - k) : Append(rest, j)[i] = jobs[k + i]
      /\ Append(rest, j)[Len(jobs) - k + 1] = j
  BY <1>3, <1>4
<1> QED
  BY <1>5 DEF rest

LEMMA ReplacedInSeq ==
    ASSUME NEW T, NEW q \in Seq(T), NEW s \in 1..Len(q), NEW x \in T,
           NEW p, p = [q EXCEPT ![s] = x]
    PROVE  /\ p \in Seq(T) /\ Len(p) = Len(q) /\ p[s] = x
           /\ \A r \in 1..Len(q) : r # s => p[r] = q[r]
OBVIOUS

LEMMA Shifted ==
    ASSUME NEW L \in Nat, NEW k \in 0..L
    PROVE  /\ \A i \in (k + 1)..L : i - k \in 1..(L - k) /\ k + (i - k) = i /\ i - k \in 1..(L - k + 1)
           /\ \A i, j \in 1..(L - k + 1) : i < j =>
                 /\ i \in 1..(L - k) /\ k + i \in 1..L
                 /\ j = L - k + 1 \/ (j \in 1..(L - k) /\ k + j \in 1..L /\ k + i < k + j)
OBVIOUS

LEMMA AcceptedStep ==
    ASSUME PoolConstants, PoolInv, NEW s \in 1..Len(slots), NEW k \in 0..Len(slots[s].jobs),
           NEW size \in Sizes, ~stopping, depthFrames' = depthFrames + 1,
           slots' = [slots EXCEPT ![s].jobs = Append(SubSeq(slots[s].jobs, k + 1, Len(slots[s].jobs)),
                                                     [n |-> depthFrames', size |-> size])],
           gone' = [gone EXCEPT ![s] = @ \cup {slots[s].jobs[i].n : i \in 1..k}],
           UNCHANGED <<nextSlot, stopping, doing, work, late, out>>
    PROVE  PoolInv'
<1> DEFINE jobs == slots[s].jobs
           evicted == {jobs[i].n : i \in 1..k}
           new == [n |-> depthFrames + 1, size |-> size]
           queue == Append(SubSeq(jobs, k + 1, Len(jobs)), new)
<1>1. /\ depthFrames \in Nat /\ gone \in [1..MaxSlots -> SUBSET Nat] /\ slots \in Seq(Slot)
      /\ s \in 1..MaxSlots /\ slots[s] \in Slot /\ jobs \in Seq(Job) /\ Len(jobs) \in Nat
      /\ slots[s].busy \in BOOLEAN /\ Len(slots) \in Nat /\ k \in Nat /\ k <= Len(jobs)
  BY SlotsType DEF PoolInv, Typed
<1>2. new \in Job
  BY <1>1 DEF Job
<1>3. /\ queue \in Seq(Job) /\ Len(queue) = Len(jobs) - k + 1
      /\ \A i \in 1..(Len(jobs) - k) : queue[i] = jobs[k + i]
      /\ queue[Len(jobs) - k + 1] = new
  BY SMTT(30), <1>1, <1>2, QueueAfterPublish
<1>4. /\ slots' \in Seq(Slot) /\ Len(slots') = Len(slots)
      /\ slots'[s].jobs = queue /\ slots'[s].busy = slots[s].busy
      /\ \A r \in 1..Len(slots) : r # s => slots'[r] = slots[r]
  <2> HIDE DEF jobs, queue, new
  <2>1. slots' = [slots EXCEPT ![s].jobs = queue]
    BY DEF queue, jobs, new
  <2>2. [slots[s] EXCEPT !.jobs = queue] \in Slot
    BY <1>1, <1>3 DEF Slot
  <2>3. slots' = [slots EXCEPT ![s] = [slots[s] EXCEPT !.jobs = queue]]
    BY <2>1
  <2> DEFINE X == [slots[s] EXCEPT !.jobs = queue]
  <2> HIDE DEF X
  <2>4. /\ slots' \in Seq(Slot) /\ Len(slots') = Len(slots)
        /\ slots'[s] = X
        /\ \A r \in 1..Len(slots) : r # s => slots'[r] = slots[r]
    <3>1. X \in Slot /\ slots' = [slots EXCEPT ![s] = X]
      BY <2>2, <2>3 DEF X
    <3>2. slots \in Seq(Slot) /\ Len(slots) \in Nat
      BY <1>1
    <3>3. s \in 1..Len(slots)
      OBVIOUS
    <3>4. ASSUME NEW p, p = [slots EXCEPT ![s] = X]
          PROVE  /\ p \in Seq(Slot) /\ Len(p) = Len(slots) /\ p[s] = X
                 /\ \A r \in 1..Len(slots) : r # s => p[r] = slots[r]
      BY <3>1, <3>2, <3>3, <3>4, ReplacedInSeq
    <3> QED BY <3>1, <3>4
  <2>5. slots'[s] = [slots[s] EXCEPT !.jobs = queue]
    BY <2>4 DEF X
  <2> QED BY <1>1, <2>4, <2>5 DEF Slot
<1>5. \A i \in 1..Len(jobs) : jobs[i].n \in Nat /\ jobs[i] \in Job
  BY <1>1, ElementOfSeq DEF Job
<1>6. /\ gone'[s] = gone[s] \cup evicted /\ \A r \in 1..MaxSlots : r # s => gone'[r] = gone[r]
      /\ gone' \in [1..MaxSlots -> SUBSET Nat]
  <2>1. evicted \subseteq Nat
    BY SMTT(30), <1>1, <1>5
  <2> HIDE DEF evicted
  <2>2. gone' = [gone EXCEPT ![s] = gone[s] \cup evicted]
    BY DEF evicted
  <2> QED BY <1>1, <2>1, <2>2
<1> HIDE DEF queue, new, evicted
<1>7. Typed'
  <2>1. depthFrames' \in Nat
    BY <1>1
  <2>2. Len(slots') <= MaxSlots
    BY <1>4 DEF PoolInv, Typed
  <2> QED BY <1>4, <1>6, <2>1, <2>2 DEF PoolInv, Typed
<1>8. \A r, n : \A v \in Compressors : (Holds(v, r)' <=> Holds(v, r))
          /\ (InHand(v, r, n)' <=> InHand(v, r, n))
  BY DEF Holds, InHand
<1>9. OneWorker'
  BY <1>1, <1>4, <1>8 DEF PoolInv, OneWorker
<1>10. \A r \in 1..Len(slots) : \A n : r # s => (Waits(r, n)' <=> Waits(r, n))
  BY <1>4 DEF Waits
<1>11. ASSUME NEW n
       PROVE  /\ Waits(s, n)' <=> n = depthFrames + 1 \/ \E i \in (k + 1)..Len(jobs) : jobs[i].n = n
              /\ Waits(s, n) <=> n \in evicted \/ \E i \in (k + 1)..Len(jobs) : jobs[i].n = n
  <2>1. ASSUME Waits(s, n)' PROVE n = depthFrames + 1 \/ \E i \in (k + 1)..Len(jobs) : jobs[i].n = n
    <3>1. PICK i \in 1..(Len(jobs) - k + 1) : queue[i].n = n
      BY <1>3, <1>4, <2>1 DEF Waits
    <3>2. CASE i = Len(jobs) - k + 1
      BY <1>3, <3>1, <3>2 DEF new
    <3>3. CASE i \in 1..(Len(jobs) - k)
      <4>1. k + i \in (k + 1)..Len(jobs)
        BY SMTT(30), <1>1, <3>3
      <4>2. jobs[k + i].n = n
        BY <1>3, <3>1, <3>3
      <4> QED BY <4>1, <4>2
    <3> QED BY <1>1, <3>1, <3>2, <3>3
  <2>2. ASSUME n = depthFrames + 1 PROVE Waits(s, n)'
    <3>1. Len(jobs) - k + 1 \in 1..Len(queue) /\ queue[Len(jobs) - k + 1].n = n
      BY <1>1, <1>3, <2>2 DEF new
    <3> QED BY <1>4, <3>1 DEF Waits
  <2>3. ASSUME NEW i \in (k + 1)..Len(jobs), jobs[i].n = n PROVE Waits(s, n)'
    <3>1. i - k \in 1..(Len(jobs) - k) /\ k + (i - k) = i /\ i - k \in 1..Len(queue)
      <4>1. \A x \in (k + 1)..Len(jobs) :
                x - k \in 1..(Len(jobs) - k) /\ k + (x - k) = x /\ x - k \in 1..(Len(jobs) - k + 1)
        BY <1>1, Shifted
      <4> QED BY <1>3, <2>3, <4>1
    <3>2. queue[i - k] = jobs[k + (i - k)]
      BY <1>3, <3>1
    <3>3. queue[i - k].n = n
      BY <2>3, <3>1, <3>2
    <3> QED BY <1>4, <3>1, <3>3 DEF Waits
  <2>4. 1..Len(jobs) = 1..k \cup (k + 1)..Len(jobs)
    BY <1>1
  <2>5. Waits(s, n) <=> n \in evicted \/ \E i \in (k + 1)..Len(jobs) : jobs[i].n = n
    BY <2>4 DEF Waits, evicted
  <2> QED BY <2>1, <2>2, <2>3, <2>5
<1>12. ASSUME NEW r, NEW n
       PROVE  Carried(r, n)' => Carried(r, n) \/ (r = s /\ n = depthFrames + 1)
  <2>1. CASE r = s
    BY <1>4, <1>8, <1>11, <2>1 DEF Carried
  <2>2. CASE r # s
    BY <1>4, <1>8, <1>10, <2>2 DEF Carried
  <2> QED BY <2>1, <2>2
<1>13. ASSUME NEW r, NEW n, Carried(r, n)
       PROVE  Carried(r, n)' \/ (r = s /\ n \in evicted)
  <2>1. CASE r = s
    BY <1>4, <1>8, <1>11, <1>13, <2>1 DEF Carried
  <2>2. CASE r # s
    BY <1>4, <1>8, <1>10, <1>13, <2>2 DEF Carried
  <2> QED BY <2>1, <2>2
\* What was pushed out waited, and precedes what still waits or is in hand of nobody.
<1>14. ASSUME NEW e \in evicted
       PROVE  /\ e \in 1..depthFrames /\ e \notin gone[s] /\ Waits(s, e)
              /\ \A i \in 1..Len(out[s]) : out[s][i] < e
  <2>1. Waits(s, e) /\ e \in Nat
    BY <1>1, <1>5, <1>11 DEF evicted
  <2>2. Carried(s, e)
    BY <2>1 DEF Carried
  <2> QED BY <1>1, <2>1, <2>2 DEF PoolInv, Ordered
<1>15. ASSUME NEW n \in Nat, Carried(s, n)' PROVE n \notin evicted
  <2> SUFFICES ASSUME n \in evicted PROVE FALSE
    OBVIOUS
  <2>1. PICK j \in 1..k : jobs[j].n = n
    BY DEF evicted
  <2>2. n \in 1..depthFrames /\ Waits(s, n)
    BY <1>14
  <2>3. CASE Waits(s, n)'
    <3>0. n # depthFrames + 1
      BY <1>1, <2>2
    <3>1. PICK i \in (k + 1)..Len(jobs) : jobs[i].n = n
      BY <1>11, <2>3, <3>0
    <3>2. j < i /\ i \in 1..Len(jobs) /\ j \in 1..Len(jobs)
      <4>1. \A a \in 1..k, b \in (k + 1)..Len(jobs) :
               a < b /\ b \in 1..Len(jobs) /\ a \in 1..Len(jobs)
        BY <1>1, Apart, Zenon
      <4>. QED
        BY <4>1, Zenon
    <3>3. \A a, b \in 1..Len(jobs) : a < b => jobs[a].n < jobs[b].n
      BY JobsInOrder, Zenon
    <3>4. jobs[j].n < jobs[i].n
      BY <3>2, <3>3, Zenon
    <3>5. n < n /\ n \in 1..depthFrames
      BY <2>1, <2>2, <3>1, <3>4, Zenon
    <3> QED BY <1>1, <3>5
  <2>4. CASE \E v \in Compressors : InHand(v, s, n)
    <3>1. n < n
      BY <1>1, <2>2, <2>4 DEF PoolInv, Ordered
    <3> QED BY <3>1
  <2> QED BY <1>8, <1>15, <2>3, <2>4 DEF Carried
<1>16. Ordered'
  <2> SUFFICES ASSUME NEW r \in 1..MaxSlots
               PROVE  (/\ \A n \in Nat : Carried(r, n) =>
                            /\ n \in 1..depthFrames /\ n \notin gone[r]
                            /\ \A i \in 1..Len(out[r]) : out[r][i] < n
                       /\ \A i \in 1..Len(out[r]) : out[r][i] \in 1..depthFrames /\ out[r][i] \notin gone[r]
                       /\ \A i \in 1..(Len(out[r]) - 1) : out[r][i] < out[r][i + 1]
                       /\ gone[r] \subseteq 1..depthFrames
                       /\ r \in 1..Len(slots) =>
                            /\ \A i, j \in 1..Len(slots[r].jobs) : i < j
                                   => slots[r].jobs[i].n < slots[r].jobs[j].n
                            /\ \A w \in Compressors, n \in Nat, m \in Nat : InHand(w, r, n)
                                   /\ Waits(r, m) => n < m)'
    BY DEF Ordered
  <2>0. 1..depthFrames \subseteq 1..depthFrames' /\ depthFrames + 1 \in 1..depthFrames'
            /\ ~(depthFrames + 1 \in 1..depthFrames)
    BY SMTT(30), <1>1
  <2>1. ASSUME NEW n \in Nat, Carried(r, n)'
        PROVE  n \in 1..depthFrames' /\ n \notin gone'[r] /\ \A i \in 1..Len(out[r]) : out[r][i] < n
    <3>1. CASE Carried(r, n)
      <4>1. n \in 1..depthFrames /\ n \notin gone[r] /\ \A i \in 1..Len(out[r]) : out[r][i] < n
        BY <3>1 DEF PoolInv, Ordered
      <4> QED BY <1>6, <1>15, <2>0, <2>1, <4>1
    <3>2. CASE r = s /\ n = depthFrames + 1
      <4>1. gone[s] \subseteq 1..depthFrames /\ evicted \subseteq 1..depthFrames
        BY <1>1, <1>14 DEF PoolInv, Ordered
      <4>2. \A i \in 1..Len(out[r]) : out[r][i] \in 1..depthFrames
        BY DEF PoolInv, Ordered
      <4>3. \A i \in 1..Len(out[r]) : out[r][i] < n
        BY <1>1, <3>2, <4>2
      <4> QED BY <1>6, <2>0, <3>2, <4>1, <4>3
    <3> QED BY <1>12, <2>1, <3>1, <3>2
  <2>2. \A i \in 1..Len(out[r]) : out[r][i] \in 1..depthFrames' /\ out[r][i] \notin gone'[r]
    <3> SUFFICES ASSUME NEW i \in 1..Len(out[r])
                 PROVE  out[r][i] \in 1..depthFrames' /\ out[r][i] \notin gone'[r]
      OBVIOUS
    <3>1. out[r][i] \in 1..depthFrames /\ out[r][i] \notin gone[r]
      BY DEF PoolInv, Ordered
    <3>2. r = s => out[r][i] \notin evicted
      <4> SUFFICES ASSUME r = s, out[r][i] \in evicted PROVE FALSE
        OBVIOUS
      <4>1. out[r][i] < out[r][i]
        BY <1>14
      <4> QED BY <1>1, <3>1, <4>1
    <3> QED BY <1>6, <2>0, <3>1, <3>2
  <2>3. \A i \in 1..(Len(out[r]) - 1) : out[r][i] < out[r][i + 1]
    BY DEF PoolInv, Ordered
  <2>4. gone'[r] \subseteq 1..depthFrames'
    <3>1. gone[r] \subseteq 1..depthFrames /\ evicted \subseteq 1..depthFrames
      BY <1>14 DEF PoolInv, Ordered
    <3> QED BY <1>6, <2>0, <3>1
  <2>5. ASSUME r \in 1..Len(slots), NEW i \in 1..Len(slots'[r].jobs), NEW j \in 1..Len(slots'[r].jobs), i < j
        PROVE  slots'[r].jobs[i].n < slots'[r].jobs[j].n
    <3>1. CASE r # s
      BY <1>4, <2>5, <3>1 DEF PoolInv, Ordered
    <3>2. CASE r = s
      <4>0. i \in 1..(Len(jobs) - k + 1) /\ j \in 1..(Len(jobs) - k + 1) /\ i < j
        BY <1>3, <1>4, <2>5, <3>2
      <4>1a. /\ i \in 1..(Len(jobs) - k) /\ k + i \in 1..Len(jobs)
             /\ j = Len(jobs) - k + 1 \/ (/\ j \in 1..(Len(jobs) - k) /\ k + j \in 1..Len(jobs)
                                          /\ k + i < k + j)
        BY <1>1, <4>0, Shifted
      <4>1. i \in 1..(Len(jobs) - k) /\ k + i \in 1..Len(jobs) /\ queue[i] = jobs[k + i]
        BY <1>3, <4>1a
      <4>2. CASE j = Len(jobs) - k + 1
        <5>1. Waits(s, jobs[k + i].n) /\ jobs[k + i].n \in Nat
          BY <1>5, <4>1 DEF Waits
        <5>2. jobs[k + i].n \in 1..depthFrames
          BY <1>1, <5>1 DEF PoolInv, Ordered, Carried
        <5>3. queue[j].n = depthFrames + 1
          BY <1>3, <4>2 DEF new
        <5>4. \A a \in 1..depthFrames : a < depthFrames + 1
          BY <1>1
        <5>5. jobs[k + i].n < depthFrames + 1
          BY <5>2, <5>4
        <5>6. jobs[k + i].n < queue[j].n
          BY <5>3, <5>5
        <5> QED BY <1>4, <3>2, <4>1, <5>6
      <4>3. CASE j \in 1..(Len(jobs) - k) /\ k + j \in 1..Len(jobs) /\ k + i < k + j
        <5>1. k + j \in 1..Len(jobs) /\ k + i < k + j /\ queue[j] = jobs[k + j]
          BY <1>3, <4>3
        <5>2. jobs[k + i].n < jobs[k + j].n
          BY <1>1, <4>1, <5>1 DEF PoolInv, Ordered
        <5> QED BY <1>4, <3>2, <4>1, <5>1, <5>2
      <4> QED BY <4>1a, <4>2, <4>3
    <3> QED BY <3>1, <3>2
  <2>6. ASSUME r \in 1..Len(slots), NEW w \in Compressors, NEW n \in Nat, NEW m \in Nat,
               InHand(w, r, n)', Waits(r, m)'
        PROVE  n < m
    <3>1. InHand(w, r, n) /\ Carried(r, n)
      BY <1>8, <2>6 DEF Carried
    <3>2. CASE Waits(r, m)
      BY <2>6, <3>1, <3>2 DEF PoolInv, Ordered
    <3>3. CASE r = s /\ m = depthFrames + 1
      <4>1. n \in 1..depthFrames
        BY <3>1 DEF PoolInv, Ordered
      <4> QED BY <1>1, <3>3, <4>1
    <3> QED BY <1>10, <1>11, <2>6, <3>2, <3>3
  <2> QED BY <1>4, <2>1, <2>2, <2>3, <2>4, <2>5, <2>6
<1>17. Accounted'
  <2> SUFFICES ASSUME NEW f \in 1..depthFrames'
               PROVE  \E r \in 1..MaxSlots : f \in gone'[r] \/ CameOut(r, f)' \/ Carried(r, f)'
    BY DEF Accounted
  <2>1. CASE f = depthFrames + 1
    <3>1. Carried(s, f)'
      BY <1>4, <1>11, <2>1 DEF Carried
    <3> QED BY <1>1, <3>1
  <2>2. CASE f \in 1..depthFrames
    <3>1. PICK r \in 1..MaxSlots : f \in gone[r] \/ CameOut(r, f) \/ Carried(r, f)
      BY <2>2 DEF PoolInv, Accounted
    <3>2. CASE f \in gone[r]
      BY <1>6, <3>2
    <3>3. CASE CameOut(r, f)
      BY <3>3 DEF CameOut
    <3>4. CASE Carried(r, f)
      BY <1>6, <1>13, <3>4
    <3> QED BY <3>1, <3>2, <3>3, <3>4
  <2> QED BY <1>1, <2>1, <2>2
<1>18. Finished'
  <2>1. PICK w \in Compressors : TRUE
    BY DEF PoolConstants
  <2>2. doing'[w] # "left"
    BY DEF PoolInv, OneWorker
  <2> QED BY <2>2 DEF Finished
<1> QED
  BY <1>7, <1>9, <1>16, <1>17, <1>18 DEF PoolInv

LEMMA PublishStep ==
    ASSUME PoolConstants, PoolInv, NEW s \in DOMAIN slots, NEW size \in Sizes, Pool!Publish(s, size)
    PROVE  PoolInv'
<1>1. s \in 1..Len(slots)
  BY DEF PoolInv, Typed
<1>2. /\ ~stopping /\ depthFrames' = depthFrames + 1
      /\ UNCHANGED <<nextSlot, stopping, doing, work, late, out>>
  BY DEF Pool!Publish
<1>3. CASE size = 0 \/ size > SlotBytes
  <2>1. gone' = [gone EXCEPT ![s] = @ \cup {depthFrames'}] /\ UNCHANGED slots
    BY <1>3 DEF Pool!Publish
  <2> QED BY <1>1, <1>2, <2>1, RefusedStep
<1>4. CASE ~(size = 0 \/ size > SlotBytes)
  <2> DEFINE k == Pool!PushedOut(slots[s].jobs, size)
  <2>1. /\ slots' = [slots EXCEPT ![s].jobs = Append(SubSeq(slots[s].jobs, k + 1, Len(slots[s].jobs)),
                                                      [n |-> depthFrames', size |-> size])]
        /\ gone' = [gone EXCEPT ![s] = @ \cup {slots[s].jobs[i].n : i \in 1..k}]
    BY <1>4 DEF Pool!Publish
  <2>2. k \in 0..Len(slots[s].jobs)
    BY <1>1, SlotsType, PushedOutType
  <2> HIDE DEF k
  <2> QED BY <1>1, <1>2, <2>1, <2>2, AcceptedStep
<1> QED
  BY <1>3, <1>4

\* Taking a frame puts the first that waits in the worker's hands.
LEMMA TakeStep ==
    ASSUME PoolConstants, PoolInv, NEW w \in Compressors, NEW s \in 1..Len(slots),
           doing[w] = "pop", slots[s].jobs # <<>>, ~slots[s].busy,
           work' = [work EXCEPT ![w] = <<s, Head(slots[s].jobs).n>>],
           slots' = [slots EXCEPT ![s] = [jobs |-> Tail(slots[s].jobs), busy |-> TRUE]],
           nextSlot' \in Nat, doing' = [doing EXCEPT ![w] = "compress"],
           UNCHANGED <<stopping, late, out, gone, depthFrames>>
    PROVE  PoolInv'
<1> DEFINE jobs == slots[s].jobs
           head == Head(jobs).n
           X == [jobs |-> Tail(jobs), busy |-> TRUE]
<1>1. /\ slots \in Seq(Slot) /\ Len(slots) \in Nat /\ s \in 1..MaxSlots /\ jobs \in Seq(Job)
      /\ Len(jobs) \in Nat /\ MaxSlots \in Nat
  BY SlotsType DEF PoolInv, Typed, PoolConstants
<1>2. /\ Head(jobs) \in Job /\ Tail(jobs) \in Seq(Job) /\ Len(Tail(jobs)) = Len(jobs) - 1
      /\ Len(jobs) >= 1 /\ head = jobs[1].n
      /\ \A i \in 1..(Len(jobs) - 1) : Tail(jobs)[i] = jobs[i + 1]
  <2>1. jobs # <<>>
    OBVIOUS
  <2>2. /\ Head(jobs) \in Job /\ Tail(jobs) \in Seq(Job) /\ Len(Tail(jobs)) = Len(jobs) - 1
        /\ \A i \in 1..Len(Tail(jobs)) : Tail(jobs)[i] = jobs[i + 1]
    BY <1>1, <2>1, HeadTailProperties
  <2>3. Head(jobs) = jobs[1] /\ Len(jobs) >= 1
    BY <1>1, <2>1
  <2> QED BY <2>2, <2>3
<1>3. head \in Nat
  BY <1>2 DEF Job
<1>4. X \in Slot /\ X.jobs = Tail(jobs) /\ X.busy
  BY <1>2 DEF Slot
<1>5. /\ slots' \in Seq(Slot) /\ Len(slots') = Len(slots) /\ slots'[s] = X
      /\ \A r \in 1..Len(slots) : r # s => slots'[r] = slots[r]
  <2>1. ASSUME NEW p, p = [slots EXCEPT ![s] = X]
        PROVE  /\ p \in Seq(Slot) /\ Len(p) = Len(slots) /\ p[s] = X
               /\ \A r \in 1..Len(slots) : r # s => p[r] = slots[r]
    <3> HIDE DEF X, jobs
    <3> QED BY <1>1, <1>4, <2>1, ReplacedInSeq
  <2>2. slots' = [slots EXCEPT ![s] = X]
    OBVIOUS
  <2> HIDE DEF X, jobs
  <2> QED BY <2>1, <2>2
<1> HIDE DEF X
<1>6. /\ slots'[s].jobs = Tail(jobs) /\ slots'[s].busy
  BY <1>4, <1>5
<1>7. /\ work'[w] = <<s, head>> /\ doing'[w] = "compress"
      /\ \A v \in Compressors : v # w => work'[v] = work[v] /\ doing'[v] = doing[v]
      /\ work' \in [Compressors -> {<<>>} \cup ((1..MaxSlots) \X Nat)]
      /\ doing' \in [Compressors -> {"check", "pop", "compress", "complete", "left"}]
  <2>1. <<s, head>> \in {<<>>} \cup ((1..MaxSlots) \X Nat)
    BY <1>1, <1>3
  <2>2. work' = [work EXCEPT ![w] = <<s, head>>]
    OBVIOUS
  <2> HIDE DEF head
  <2> QED BY <2>1, <2>2 DEF PoolInv, Typed
<1> HIDE DEF head
<1>8. Typed'
  BY <1>5, <1>7 DEF PoolInv, Typed
<1>9. \A v \in Compressors : ~Holds(v, s)
  BY DEF PoolInv, OneWorker, Holds
<1>10. /\ \A r : \A v \in Compressors : Holds(v, r)' <=> IF v = w THEN r = s ELSE Holds(v, r)
       /\ \A r, n : \A v \in Compressors : InHand(v, r, n)' <=> IF v = w THEN r = s /\ n = head
              ELSE InHand(v, r, n)
       /\ \A r, n : ~InHand(w, r, n) /\ ~Holds(w, r)
  BY <1>7 DEF Holds, InHand
<1>11. OneWorker'
  <2>1. ASSUME NEW v \in Compressors, doing'[v] \in {"compress", "complete"}
        PROVE  work'[v] \in (1..Len(slots')) \X Nat /\ slots'[work'[v][1]].busy
    <3>1. CASE v = w
      BY <1>3, <1>5, <1>6, <1>7, <3>1
    <3>2. CASE v # w
      <4>1. work[v] \in (1..Len(slots)) \X Nat /\ slots[work[v][1]].busy /\ work'[v] = work[v]
        BY <1>7, <2>1, <3>2 DEF PoolInv, OneWorker
      <4>2. work[v][1] \in 1..Len(slots)
        BY <4>1
      <4>3. slots'[work[v][1]].busy
        BY <1>5, <1>6, <4>1, <4>2
      <4> QED BY <1>5, <4>1, <4>3
    <3> QED BY <3>1, <3>2
  <2>2. ASSUME NEW u \in Compressors, NEW v \in Compressors, NEW r \in 1..Len(slots'), Holds(u, r)',
               Holds(v, r)'
        PROVE  u = v
    BY <1>5, <1>9, <1>10, <2>2 DEF PoolInv, OneWorker
  <2>3. ASSUME NEW r \in 1..Len(slots'), slots'[r].busy PROVE \E v \in Compressors : Holds(v, r)'
    <3>1. CASE r = s
      BY <1>10, <3>1
    <3>2. CASE r # s
      <4>1. PICK v \in Compressors : Holds(v, r)
        BY <1>5, <2>3, <3>2 DEF PoolInv, OneWorker
      <4> QED BY <1>10, <4>1
    <3> QED BY <3>1, <3>2
  <2>4. \A v \in Compressors : doing'[v] = "left" => stopping'
    BY <1>7 DEF PoolInv, OneWorker
  <2> QED BY <2>1, <2>2, <2>3, <2>4 DEF OneWorker
<1>12. \A r \in 1..Len(slots) : \A n : r # s => (Waits(r, n)' <=> Waits(r, n))
  BY <1>5 DEF Waits
<1>13. Waits(s, head)
  BY <1>1, <1>2 DEF Waits
<1>14. ASSUME NEW n PROVE (Waits(s, n) <=> n = head \/ Waits(s, n)') /\ (Waits(s, n)' => head < n)
  <2>1. ASSUME NEW i \in 1..(Len(jobs) - 1)
        PROVE  i + 1 \in 1..Len(jobs) /\ Tail(jobs)[i] = jobs[i + 1] /\ head < jobs[i + 1].n
    <3>1. i + 1 \in 1..Len(jobs) /\ 1 \in 1..Len(jobs) /\ 1 < i + 1
      BY <1>1
    <3>2. jobs[1].n < jobs[i + 1].n
      BY <1>1, <3>1 DEF PoolInv, Ordered
    <3> QED BY <1>2, <3>1, <3>2
  <2>2. ASSUME Waits(s, n)' PROVE Waits(s, n) /\ head < n
    <3>1. PICK i \in 1..(Len(jobs) - 1) : Tail(jobs)[i].n = n
      BY <1>2, <1>6, <2>2 DEF Waits
    <3> QED BY <2>1, <3>1 DEF Waits
  <2>3. ASSUME Waits(s, n), n # head PROVE Waits(s, n)'
    <3>1. PICK i \in 1..Len(jobs) : jobs[i].n = n
      BY <2>3 DEF Waits
    <3>2. i # 1
      BY <1>2, <2>3, <3>1
    <3>3. i - 1 \in 1..(Len(jobs) - 1) /\ (i - 1) + 1 = i
      BY <1>1, <3>2
    <3>4. Tail(jobs)[i - 1].n = n
      <4>1. Tail(jobs)[i - 1] = jobs[(i - 1) + 1]
        BY <1>2, <3>3
      <4> QED BY <3>1, <3>3, <4>1
    <3> QED BY <1>2, <1>6, <3>3, <3>4 DEF Waits
  <2> QED BY <1>13, <2>2, <2>3
<1>15. ASSUME NEW r, NEW n PROVE Carried(r, n)' <=> Carried(r, n)
  <2>1. CASE r = s
    BY <1>5, <1>10, <1>14, <2>1 DEF Carried
  <2>2. CASE r # s
    BY <1>5, <1>10, <1>12, <2>2 DEF Carried
  <2> QED BY <2>1, <2>2
<1>16. Ordered'
  <2> SUFFICES ASSUME NEW r \in 1..MaxSlots, r \in 1..Len(slots')
               PROVE  /\ \A i, j \in 1..Len(slots'[r].jobs) : i < j
                             => slots'[r].jobs[i].n < slots'[r].jobs[j].n
                      /\ \A v \in Compressors, n \in Nat, m \in Nat : InHand(v, r, n)'
                             /\ Waits(r, m)' => n < m
    BY <1>15 DEF PoolInv, Ordered
  <2>1. ASSUME NEW i \in 1..Len(slots'[r].jobs), NEW j \in 1..Len(slots'[r].jobs), i < j
        PROVE  slots'[r].jobs[i].n < slots'[r].jobs[j].n
    <3>1. CASE r # s
      BY <1>5, <2>1, <3>1 DEF PoolInv, Ordered
    <3>2. CASE r = s
      <4>1. i \in 1..(Len(jobs) - 1) /\ j \in 1..(Len(jobs) - 1)
        BY <1>2, <1>6, <3>2
      <4>2. i + 1 \in 1..Len(jobs) /\ j + 1 \in 1..Len(jobs) /\ i + 1 < j + 1
        BY <1>1, <2>1, <4>1
      <4>3. jobs[i + 1].n < jobs[j + 1].n
        BY <1>1, <4>2 DEF PoolInv, Ordered
      <4> QED BY <1>2, <1>6, <3>2, <4>1, <4>3
    <3> QED BY <3>1, <3>2
  <2>2. ASSUME NEW v \in Compressors, NEW n \in Nat, NEW m \in Nat, InHand(v, r, n)', Waits(r, m)'
        PROVE  n < m
    <3>1. CASE v = w
      BY <1>10, <1>14, <2>2, <3>1
    <3>2. CASE v # w
      <4>1. InHand(v, r, n) /\ r # s
        BY <1>9, <1>10, <2>2, <3>2 DEF InHand, Holds
      <4> QED BY <1>5, <1>12, <2>2, <4>1 DEF PoolInv, Ordered
    <3> QED BY <3>1, <3>2
  <2> QED BY <2>1, <2>2
<1>17. Accounted'
  BY <1>15 DEF PoolInv, Accounted, CameOut
<1>18. Finished'
  BY <1>7 DEF Finished
<1> QED
  BY <1>8, <1>11, <1>16, <1>17, <1>18 DEF PoolInv

LEMMA PopStep ==
    ASSUME PoolConstants, PoolInv, NEW w \in Compressors, Pool!Pop(w) PROVE PoolInv'
<1>1. doing[w] = "pop" /\ UNCHANGED <<stopping, late, out, gone, depthFrames>>
  BY DEF Pool!Pop
<1>2. CASE ~Pool!HasJob
  <2>1. doing' = [doing EXCEPT ![w] = "check"] /\ UNCHANGED <<slots, nextSlot, work>>
    BY <1>2 DEF Pool!Pop
  <2>2. Typed'
    BY <1>1, <2>1 DEF PoolInv, Typed
  <2>3. doing'[w] = "check" /\ \A v \in Compressors : v # w => doing'[v] = doing[v]
    BY <2>1 DEF PoolInv, Typed
  <2>4. Finished'
    BY <2>3 DEF Finished
  <2>5. \A v \in Compressors : doing'[v] = "left" => stopping'
    BY <1>1, <2>3 DEF PoolInv, OneWorker
  <2>6. \A v \in Compressors : /\ doing'[v] \in {"compress", "complete"} <=> doing[v] \in {"compress", "complete"}
                           /\ doing'[v] = "compress" <=> doing[v] = "compress"
    BY <1>1, <2>3
  <2> QED BY <1>1, <2>1, <2>2, <2>4, <2>5, <2>6, Unmoved
<1>3. CASE Pool!HasJob
  <2> DEFINE T == {Pool!Order(s) : s \in {r \in DOMAIN slots : Pool!Free(slots[r])}}
             First(s) == s \in DOMAIN slots /\ Pool!Free(slots[s])
                         /\ \A r \in DOMAIN slots : Pool!Free(slots[r]) => Pool!Order(s) <= Pool!Order(r)
             s == CHOOSE s \in DOMAIN slots :
                      Pool!Free(slots[s]) /\ \A r \in DOMAIN slots : Pool!Free(slots[r])
                          => Pool!Order(s) <= Pool!Order(r)
  <2>1. DOMAIN slots = 1..Len(slots) /\ Len(slots) \in Nat
    BY DEF PoolInv, Typed
  <2>2. T \subseteq Nat /\ T # {}
    BY <1>3, <2>1 DEF Pool!Order, Pool!HasJob
  <2>3. PICK x \in T : \A y \in T : x <= y
    BY <2>2, LeastElement
  <2>4. s \in DOMAIN slots /\ Pool!Free(slots[s])
    <3>1. PICK r \in DOMAIN slots : Pool!Free(slots[r]) /\ x = Pool!Order(r)
      OBVIOUS
    <3>2. \A q \in DOMAIN slots : Pool!Free(slots[q]) => Pool!Order(r) <= Pool!Order(q)
      BY <2>3, <3>1
    <3> QED BY <3>1, <3>2
  <2>5. /\ work' = [work EXCEPT ![w] = <<s, Head(slots[s].jobs).n>>]
        /\ slots' = [slots EXCEPT ![s] = [jobs |-> Tail(@.jobs), busy |-> TRUE]]
        /\ nextSlot' = (s % Len(slots)) + 1
        /\ doing' = [doing EXCEPT ![w] = "compress"]
    BY <1>3 DEF Pool!Pop
  <2> HIDE DEF s, T
  <2>6. /\ s \in 1..Len(slots) /\ slots[s].jobs # <<>> /\ ~slots[s].busy
    BY <2>1, <2>4 DEF Pool!Free
  <2>7. slots' = [slots EXCEPT ![s] = [jobs |-> Tail(slots[s].jobs), busy |-> TRUE]]
    BY <2>4, <2>5
  <2>8. nextSlot' \in Nat
    BY <2>1, <2>5, <2>6
  <2> QED BY <1>1, <2>5, <2>6, <2>7, <2>8, TakeStep
<1> QED
  BY <1>2, <1>3

\* The frame in hand is handed on or dropped: the next of its slot is still to come.
LEMMA HandedOnStep ==
    ASSUME PoolConstants, PoolInv, NEW w \in Compressors, NEW s \in 1..Len(slots), NEW f \in Nat,
           work[w] = <<s, f>>, Pool!Compress(w)
    PROVE  PoolInv'
<1>1. /\ doing[w] = "compress" /\ doing' = [doing EXCEPT ![w] = "complete"]
      /\ \/ out' = [out EXCEPT ![s] = Append(@, f)] /\ UNCHANGED gone
         \/ gone' = [gone EXCEPT ![s] = @ \cup {f}] /\ UNCHANGED out
      /\ UNCHANGED <<slots, nextSlot, stopping, work, late, depthFrames>>
  BY DEF Pool!Compress
<1>2. /\ s \in 1..Len(slots) /\ s \in 1..MaxSlots /\ f \in Nat /\ work[w] = <<s, f>>
  BY SlotsType
<1>3. Carried(s, f) /\ InHand(w, s, f)
  BY <1>1, <1>2 DEF Carried, InHand
<1>4. /\ f \in 1..depthFrames /\ f \notin gone[s] /\ \A i \in 1..Len(out[s]) : out[s][i] < f
  BY <1>2, <1>3 DEF PoolInv, Ordered
<1>5. doing'[w] = "complete" /\ \A v \in Compressors : v # w => doing'[v] = doing[v]
  BY <1>1 DEF PoolInv, Typed
<1>6. /\ out[s] \in Seq(Nat) /\ Len(out[s]) \in Nat /\ gone[s] \subseteq Nat
  BY <1>2 DEF PoolInv, Typed
<1>7. /\ Append(out[s], f) \in Seq(Nat) /\ Len(Append(out[s], f)) = Len(out[s]) + 1
      /\ \A i \in 1..Len(out[s]) : Append(out[s], f)[i] = out[s][i]
      /\ Append(out[s], f)[Len(out[s]) + 1] = f
  BY <1>2, <1>6
<1>8. /\ out' \in [1..MaxSlots -> Seq(Nat)] /\ gone' \in [1..MaxSlots -> SUBSET Nat]
      /\ \A r \in 1..MaxSlots : r # s => out'[r] = out[r] /\ gone'[r] = gone[r]
      /\ \/ out'[s] = Append(out[s], f) /\ gone'[s] = gone[s]
         \/ gone'[s] = gone[s] \cup {f} /\ out'[s] = out[s]
  <2> DEFINE longer == Append(out[s], f)
             more == gone[s] \cup {f}
  <2>1. longer \in Seq(Nat) /\ more \subseteq Nat
    BY <1>2, <1>6, <1>7
  <2>2. \/ out' = [out EXCEPT ![s] = longer] /\ gone' = gone
        \/ gone' = [gone EXCEPT ![s] = more] /\ out' = out
    BY <1>1
  <2> HIDE DEF longer, more
  <2>3. /\ out' \in [1..MaxSlots -> Seq(Nat)] /\ gone' \in [1..MaxSlots -> SUBSET Nat]
        /\ \A r \in 1..MaxSlots : r # s => out'[r] = out[r] /\ gone'[r] = gone[r]
        /\ \/ out'[s] = longer /\ gone'[s] = gone[s]
           \/ gone'[s] = more /\ out'[s] = out[s]
    BY <1>2, <2>1, <2>2 DEF PoolInv, Typed
  <2> QED BY <2>3 DEF longer, more
<1>9. Typed'
  BY <1>1, <1>8 DEF PoolInv, Typed
<1>10. \A r : \A v \in Compressors : Holds(v, r)' <=> Holds(v, r)
  BY <1>1, <1>5 DEF Holds
<1>11. OneWorker'
  <2>1. \A v \in Compressors : doing'[v] \in {"compress", "complete"}
            <=> doing[v] \in {"compress", "complete"}
    BY <1>1, <1>5
  <2>2. \A v \in Compressors : doing'[v] = "left" => stopping'
    BY <1>1, <1>5 DEF PoolInv, OneWorker
  <2> QED BY <1>1, <1>10, <2>1, <2>2 DEF PoolInv, OneWorker
<1>12. \A r, n : Waits(r, n)' <=> Waits(r, n)
  BY <1>1 DEF Waits
<1>13. \A r, n : \A v \in Compressors : InHand(v, r, n)' <=> v # w /\ InHand(v, r, n)
  BY <1>1, <1>5 DEF InHand
<1>14. \A r, n : InHand(w, r, n) => r = s /\ n = f
  BY <1>2 DEF InHand
<1>15. ASSUME NEW r, NEW n PROVE /\ Carried(r, n)' => Carried(r, n)
                                 /\ Carried(r, n) => Carried(r, n)' \/ (r = s /\ n = f)
  BY <1>1, <1>12, <1>13, <1>14 DEF Carried
\* What still waits in the slot is newer.
<1>16. ASSUME NEW n \in Nat, Carried(s, n)' PROVE f < n
  <2>1. \A v \in Compressors : ~InHand(v, s, n)'
    <3> SUFFICES ASSUME NEW v \in Compressors, InHand(v, s, n)' PROVE FALSE
      OBVIOUS
    <3>0. v # w /\ InHand(v, s, n)
      BY <1>13
    <3>1. v # w /\ Holds(v, s) /\ Holds(w, s)
      BY <1>3, <3>0 DEF InHand, Holds
    <3> QED BY <1>2, <3>1 DEF PoolInv, OneWorker
  <2>2. Waits(s, n)
    <3>1. Waits(s, n)'
      BY <1>16, <2>1 DEF Carried
    <3> QED BY <1>12, <3>1
  <2> QED BY <1>2, <1>3, <2>2 DEF PoolInv, Ordered
<1>17. Ordered'
  <2> SUFFICES ASSUME NEW r \in 1..MaxSlots
               PROVE  (/\ \A n \in Nat : Carried(r, n) =>
                            /\ n \in 1..depthFrames /\ n \notin gone[r]
                            /\ \A i \in 1..Len(out[r]) : out[r][i] < n
                       /\ \A i \in 1..Len(out[r]) : out[r][i] \in 1..depthFrames /\ out[r][i] \notin gone[r]
                       /\ \A i \in 1..(Len(out[r]) - 1) : out[r][i] < out[r][i + 1]
                       /\ gone[r] \subseteq 1..depthFrames
                       /\ r \in 1..Len(slots) =>
                            /\ \A i, j \in 1..Len(slots[r].jobs) : i < j
                                   => slots[r].jobs[i].n < slots[r].jobs[j].n
                            /\ \A v \in Compressors, n \in Nat, m \in Nat : InHand(v, r, n)
                                   /\ Waits(r, m) => n < m)'
    BY DEF Ordered
  <2>1. r \in 1..Len(slots') =>
           /\ \A i, j \in 1..Len(slots'[r].jobs) : i < j => slots'[r].jobs[i].n < slots'[r].jobs[j].n
           /\ \A v \in Compressors, n \in Nat, m \in Nat : InHand(v, r, n)' /\ Waits(r, m)' => n < m
    BY <1>1, <1>12, <1>13 DEF PoolInv, Ordered
  <2>2. CASE r # s
    BY <1>1, <1>8, <1>15, <2>1, <2>2 DEF PoolInv, Ordered
  <2>3. CASE r = s /\ out'[s] = Append(out[s], f) /\ gone'[s] = gone[s]
    <3>1. \A i \in 1..Len(out[s]) : out'[s][i] = out[s][i] /\ out[s][i] < f
      BY <1>4, <1>7, <2>3
    <3>2. Len(out'[s]) = Len(out[s]) + 1 /\ out'[s][Len(out[s]) + 1] = f
      BY <1>7, <2>3
    <3>3. \A i \in 1..Len(out'[s]) : i \in 1..Len(out[s]) \/ i = Len(out[s]) + 1
      BY <1>6, <3>2
    <3>4. \A i \in 1..Len(out[s]) : out[s][i] \in 1..depthFrames /\ out[s][i] \notin gone[s]
      BY <1>2 DEF PoolInv, Ordered
    <3>5. ASSUME NEW n \in Nat, Carried(s, n)'
          PROVE  n \in 1..depthFrames /\ n \notin gone[s] /\ \A i \in 1..Len(out'[s]) : out'[s][i] < n
      <4>1. n \in 1..depthFrames /\ n \notin gone[s] /\ \A i \in 1..Len(out[s]) : out[s][i] < n
        <5>1. Carried(s, n)
          BY <1>15, <3>5
        <5> QED BY <1>2, <5>1 DEF PoolInv, Ordered
      <4>2. f < n
        BY <1>16, <3>5
      <4> QED BY <3>1, <3>2, <3>3, <4>1, <4>2
    <3>6. \A i \in 1..Len(out'[s]) : out'[s][i] \in 1..depthFrames /\ out'[s][i] \notin gone[s]
      BY <1>4, <3>1, <3>2, <3>3, <3>4
    <3>7. ASSUME NEW i \in 1..(Len(out'[s]) - 1) PROVE out'[s][i] < out'[s][i + 1]
      <4>1. i \in 1..Len(out[s]) /\ (i = Len(out[s])
                \/ (i \in 1..(Len(out[s]) - 1) /\ i + 1 \in 1..Len(out[s])))
        BY <1>6, <3>2
      <4>2. CASE i = Len(out[s])
        BY <3>1, <3>2, <4>1, <4>2
      <4>3. CASE i \in 1..(Len(out[s]) - 1) /\ i + 1 \in 1..Len(out[s])
        <5>1. out[s][i] < out[s][i + 1]
          BY <1>2, <4>3 DEF PoolInv, Ordered
        <5> QED BY <3>1, <4>1, <4>3, <5>1
      <4> QED BY <4>1, <4>2, <4>3
    <3>8. gone[s] \subseteq 1..depthFrames
      BY <1>2 DEF PoolInv, Ordered
    <3> QED BY <1>1, <2>1, <2>3, <3>5, <3>6, <3>7, <3>8
  <2>4. CASE r = s /\ gone'[s] = gone[s] \cup {f} /\ out'[s] = out[s]
    <3>1. /\ \A i \in 1..Len(out[s]) : out[s][i] \in 1..depthFrames /\ out[s][i] \notin gone[s]
          /\ \A i \in 1..(Len(out[s]) - 1) : out[s][i] < out[s][i + 1]
          /\ gone[s] \subseteq 1..depthFrames
      BY <1>2 DEF PoolInv, Ordered
    <3>2. \A i \in 1..Len(out[s]) : out[s][i] # f
      BY <1>4, <3>1
    <3>3. ASSUME NEW n \in Nat, Carried(s, n)'
          PROVE  n \in 1..depthFrames /\ n \notin gone'[s] /\ \A i \in 1..Len(out[s]) : out[s][i] < n
      <4>1. n \in 1..depthFrames /\ n \notin gone[s] /\ \A i \in 1..Len(out[s]) : out[s][i] < n
        <5>1. Carried(s, n)
          BY <1>15, <3>3
        <5> QED BY <1>2, <5>1 DEF PoolInv, Ordered
      <4>2. n # f
        BY <1>2, <1>16, <3>3
      <4> QED BY <2>4, <4>1, <4>2
    <3> QED BY <1>1, <1>4, <2>1, <2>4, <3>1, <3>2, <3>3
  <2> QED BY <1>8, <2>2, <2>3, <2>4
<1>18. Accounted'
  <2> SUFFICES ASSUME NEW g \in 1..depthFrames
               PROVE  \E r \in 1..MaxSlots : g \in gone'[r] \/ CameOut(r, g)' \/ Carried(r, g)'
    BY <1>1 DEF Accounted
  <2>0. PICK r \in 1..MaxSlots : g \in gone[r] \/ CameOut(r, g) \/ Carried(r, g)
    BY DEF PoolInv, Accounted
  <2>1. CASE g \in gone[r]
    BY <1>8, <2>1
  <2>2. CASE CameOut(r, g)
    <3>1. CASE r # s
      BY <1>8, <2>2, <3>1 DEF CameOut
    <3>2. CASE r = s
      <4>1. PICK i \in 1..Len(out[s]) : out[s][i] = g
        BY <2>2, <3>2 DEF CameOut
      <4>2. i \in 1..(Len(out[s]) + 1)
        BY <1>6
      <4> QED BY <1>7, <1>8, <3>2, <4>1, <4>2 DEF CameOut
    <3> QED BY <3>1, <3>2
  <2>3. CASE r = s /\ g = f
    <3>1. Len(out[s]) + 1 \in 1..(Len(out[s]) + 1)
      BY <1>6
    <3> QED BY <1>7, <1>8, <2>3, <3>1 DEF CameOut
  <2> QED BY <1>15, <2>0, <2>1, <2>2, <2>3
<1>19. Finished'
  BY <1>5 DEF Finished
<1> QED
  BY <1>9, <1>11, <1>17, <1>18, <1>19 DEF PoolInv

LEMMA CompressStep ==
    ASSUME PoolConstants, PoolInv, NEW w \in Compressors, Pool!Compress(w) PROVE PoolInv'
<1>1. work[w] \in (1..Len(slots)) \X Nat
  BY DEF Pool!Compress, PoolInv, OneWorker
<1>2. PICK s \in 1..Len(slots), f \in Nat : work[w] = <<s, f>>
  BY <1>1
<1> QED
  BY <1>2, HandedOnStep

LEMMA CompleteStep ==
    ASSUME PoolConstants, PoolInv, NEW w \in Compressors, Pool!Complete(w) PROVE PoolInv'
<1> DEFINE s == work[w][1]
           X == [slots[s] EXCEPT !.busy = FALSE]
<1>1. /\ doing[w] = "complete" /\ doing' = [doing EXCEPT ![w] = "check"] /\ work' = [work EXCEPT ![w] = <<>>]
      /\ slots' = [slots EXCEPT ![s].busy = FALSE]
      /\ UNCHANGED <<nextSlot, stopping, late, out, gone, depthFrames>>
  BY DEF Pool!Complete
<1>2. s \in 1..Len(slots) /\ slots \in Seq(Slot) /\ Len(slots) \in Nat /\ slots[s] \in Slot
  <2>1. work[w] \in (1..Len(slots)) \X Nat
    BY <1>1 DEF PoolInv, OneWorker
  <2> QED BY <2>1, SlotsType DEF PoolInv, Typed
<1> HIDE DEF s
<1>3. X \in Slot /\ X.jobs = slots[s].jobs /\ ~X.busy
  BY <1>2 DEF Slot
<1>4. /\ slots' \in Seq(Slot) /\ Len(slots') = Len(slots) /\ slots'[s] = X
      /\ \A r \in 1..Len(slots) : r # s => slots'[r] = slots[r]
  <2>1. ASSUME NEW p, p = [slots EXCEPT ![s] = X]
        PROVE  /\ p \in Seq(Slot) /\ Len(p) = Len(slots) /\ p[s] = X
               /\ \A r \in 1..Len(slots) : r # s => p[r] = slots[r]
    <3> HIDE DEF X
    <3> QED BY <1>2, <1>3, <2>1, ReplacedInSeq
  <2>2. slots' = [slots EXCEPT ![s] = X]
    BY <1>1
  <2> HIDE DEF X
  <2> QED BY <2>1, <2>2
<1> HIDE DEF X
<1>5. /\ \A r \in 1..Len(slots) : slots'[r].jobs = slots[r].jobs
      /\ \A r \in 1..Len(slots) : slots'[r].busy => r # s /\ slots[r].busy
      /\ \A r \in 1..Len(slots) : r # s /\ slots[r].busy => slots'[r].busy
  BY <1>2, <1>3, <1>4
<1>6. /\ doing'[w] = "check" /\ work'[w] = <<>>
      /\ \A v \in Compressors : v # w => work'[v] = work[v] /\ doing'[v] = doing[v]
      /\ work' \in [Compressors -> {<<>>} \cup ((1..MaxSlots) \X Nat)]
      /\ doing' \in [Compressors -> {"check", "pop", "compress", "complete", "left"}]
  BY <1>1 DEF PoolInv, Typed
<1>7. Typed'
  BY <1>1, <1>4, <1>6 DEF PoolInv, Typed
<1>8. Holds(w, s) /\ \A r : \A v \in Compressors : Holds(v, r)' <=> v # w /\ Holds(v, r)
  BY <1>1, <1>6 DEF Holds, s
<1>9. \A r : \A v \in Compressors : Holds(v, r) /\ v # w => r # s
  BY <1>2, <1>8 DEF PoolInv, OneWorker
<1>10. OneWorker'
  <2>1. ASSUME NEW v \in Compressors, doing'[v] \in {"compress", "complete"}
        PROVE  work'[v] \in (1..Len(slots')) \X Nat /\ slots'[work'[v][1]].busy
    <3>1. v # w /\ work'[v] = work[v] /\ doing[v] \in {"compress", "complete"}
      BY <1>6, <2>1
    <3>2. work[v] \in (1..Len(slots)) \X Nat /\ slots[work[v][1]].busy
      BY <3>1 DEF PoolInv, OneWorker
    <3>3. work[v][1] \in 1..Len(slots) /\ work[v][1] # s
      BY <1>9, <3>1, <3>2 DEF Holds
    <3> QED BY <1>4, <1>5, <3>1, <3>2, <3>3
  <2>2. ASSUME NEW u \in Compressors, NEW v \in Compressors, NEW r \in 1..Len(slots'), Holds(u, r)',
               Holds(v, r)'
        PROVE  u = v
    BY <1>4, <1>8, <2>2 DEF PoolInv, OneWorker
  <2>3. ASSUME NEW r \in 1..Len(slots'), slots'[r].busy PROVE \E v \in Compressors : Holds(v, r)'
    <3>1. r \in 1..Len(slots) /\ r # s /\ slots[r].busy
      BY <1>4, <1>5, <2>3
    <3>2. PICK v \in Compressors : Holds(v, r)
      BY <3>1 DEF PoolInv, OneWorker
    <3>3. v # w
      BY <1>8, <3>1, <3>2 DEF Holds
    <3> QED BY <1>8, <3>2, <3>3
  <2>4. \A v \in Compressors : doing'[v] = "left" => stopping'
    BY <1>1, <1>6 DEF PoolInv, OneWorker
  <2> QED BY <2>1, <2>2, <2>3, <2>4 DEF OneWorker
<1>11. \A r \in 1..Len(slots) : \A n : Waits(r, n)' <=> Waits(r, n)
  BY <1>5 DEF Waits
<1>12. \A r, n : \A v \in Compressors : InHand(v, r, n)' <=> InHand(v, r, n)
  BY <1>1, <1>6 DEF InHand
<1>13. \A r, n : Carried(r, n)' <=> Carried(r, n)
  BY <1>4, <1>11, <1>12 DEF Carried
<1>14. Ordered'
  <2> SUFFICES ASSUME NEW r \in 1..MaxSlots, r \in 1..Len(slots')
               PROVE  /\ \A i, j \in 1..Len(slots'[r].jobs) : i < j
                             => slots'[r].jobs[i].n < slots'[r].jobs[j].n
                      /\ \A v \in Compressors, n \in Nat, m \in Nat : InHand(v, r, n)'
                             /\ Waits(r, m)' => n < m
    BY <1>1, <1>13 DEF PoolInv, Ordered
  <2> QED BY <1>4, <1>5, <1>11, <1>12 DEF PoolInv, Ordered
<1>15. Accounted'
  BY <1>1, <1>13 DEF PoolInv, Accounted, CameOut
<1>16. Finished'
  BY <1>6 DEF Finished
<1> QED
  BY <1>7, <1>10, <1>14, <1>15, <1>16 DEF PoolInv

LEMMA StepInv == ASSUME PoolConstants, PoolInv, [Pool!Next]_(Pool!vars) PROVE PoolInv'
<1>1. CASE UNCHANGED Pool!vars
  <2>1. Typed' /\ Finished'
    BY <1>1 DEF Pool!vars, PoolInv, Typed, Finished, Pool!HasJob, Pool!Free
  <2> QED BY <1>1, <2>1, Unmoved DEF Pool!vars, PoolInv, OneWorker
<1>2. ASSUME NEW w \in Compressors, Pool!Worker(w) PROVE PoolInv'
  BY <1>2, CheckStep, PopStep, CompressStep, CompleteStep DEF Pool!Worker
<1> QED
  BY <1>1, <1>2, AppendSlotStep, StopStep, DeadlineStep, PublishStep DEF Pool!Next

LEMMA InvOrder == ASSUME PoolConstants, PoolInv PROVE Pool!DepthInOrder
<1>1. DOMAIN out = 1..MaxSlots
  BY DEF PoolInv, Typed
<1>2. ASSUME NEW s \in 1..MaxSlots
      PROVE  /\ \A i \in 1..(Len(out[s]) - 1) : out[s][i] < out[s][i + 1]
             /\ Range(out[s]) \cap gone[s] = {}
             /\ Range(out[s]) \cup gone[s] \subseteq 1..depthFrames
             /\ \A n : CameOut(s, n) <=> n \in Range(out[s])
  <2>1. out[s] \in Seq(Nat) /\ DOMAIN out[s] = 1..Len(out[s])
    BY DEF PoolInv, Typed
  <2>2. \A n : n \in Range(out[s]) <=> CameOut(s, n)
    BY <2>1 DEF Range, CameOut
  <2> QED BY <2>2 DEF PoolInv, Ordered, CameOut
<1>3. ASSUME \A w \in Compressors : doing[w] = "left", late = {}
      PROVE  UNION {Range(out[s]) \cup gone[s] : s \in DOMAIN out} = 1..depthFrames
  <2>1. ~Pool!HasJob /\ \A s, n : \A w \in Compressors : ~Holds(w, s) /\ ~InHand(w, s, n)
    BY <1>3 DEF PoolInv, Finished, Holds, InHand
  <2>2. ASSUME NEW s \in 1..Len(slots) PROVE \A n : ~Waits(s, n)
    <3>1. ~slots[s].busy
      BY <2>1 DEF PoolInv, OneWorker
    <3>2. slots[s].jobs = <<>>
      BY <2>1, <3>1, SlotsType DEF Pool!HasJob, Pool!Free
    <3>3. Len(slots[s].jobs) = 0
      BY <3>2
    <3> QED BY <3>3 DEF Waits
  <2>3. \A s, n : ~Carried(s, n)
    BY <2>1, <2>2 DEF Carried
  <2>4. ASSUME NEW f \in 1..depthFrames
        PROVE  \E s \in 1..MaxSlots : f \in Range(out[s]) \cup gone[s]
    BY <1>2, <2>3 DEF PoolInv, Accounted
  <2> QED BY <1>1, <1>2, <2>4
<1>4. \A f : Pool!Range(f) = Range(f)
  BY DEF Pool!Range, Range
<1> QED
  BY <1>1, <1>2, <1>3, <1>4 DEF Pool!DepthInOrder

-----------------------------------------------------------------------------
\* However many workers share the slots (LatestDepthCompressionQueue and
\* depth_compression_loop), the frames of a camera come out in the order they went in,
\* each at most once, and when the workers have left in time, every frame has come out or
\* was dropped by a step that counts it.
THEOREM DepthOrder == ASSUME PoolConstants PROVE Pool!Spec => []DepthInOrder
<1>1. Pool!Init => PoolInv
  BY InitInv
<1>2. PoolInv /\ [Pool!Next]_(Pool!vars) => PoolInv'
  BY StepInv
<1>3. PoolInv => Pool!DepthInOrder
  BY InvOrder
<1> QED
  BY <1>1, <1>2, <1>3, PTL DEF Pool!Spec, DepthInOrder

-----------------------------------------------------------------------------
(***************************************************************************)
(* The parallel decoding of the receiver (ParallelDecode).                    *)
(***************************************************************************)

ParallelConstants ==
    /\ IsFiniteSet(Decoders) /\ Callers \cap Decoders = {} /\ Decode!Nobody \notin Callers
    /\ Chunks \in Nat /\ Helpers \in Nat

Threads == Callers \cup Decoders
Call == [next : 1..(Chunks + 1), failed : BOOLEAN, pending : Nat, asked : Nat,
         lock : BOOLEAN, asleep : BOOLEAN, bad : SUBSET (1..Chunks), decoded : [1..Chunks -> {0, 1}]]
CallerStages == {"submit", "work", "decode", "done", "sleep", "return", "back"}
WorkerStages == {"idle", "work", "decode", "done", "notify"}
Hand == [for : Callers \cup {Decode!Nobody}, chunk : 0..Chunks, at : CallerStages \cup WorkerStages]

\* The tasks of a queue s that are c's, and the workers that, in h, have yet to count themselves out.
Where(s, c) == {i \in 1..Len(s) : s[i] = c}
HelpersOf(h, c) == {w \in Decoders : h[w].for = c /\ h[w].at \in {"work", "decode", "done"}}
HasChunk(t, c, k) == hands[t].at = "decode" /\ hands[t].for = c /\ hands[t].chunk = k

-----------------------------------------------------------------------------
\* The inductive invariant

CallsTyped ==
    /\ tasks \in Seq(Callers) /\ call \in [Callers -> Call] /\ hands \in [Threads -> Hand]
    /\ \A c \in Callers : hands[c].for = c /\ hands[c].at \in CallerStages
    /\ \A w \in Decoders :
          /\ hands[w].at \in WorkerStages
          /\ hands[w].at = "idle" <=> hands[w].for = Decode!Nobody

\* A helper is pending from the moment its task is queued until it counts itself out.
Counted ==
    \A c \in Callers :
        call[c].pending = Cardinality(Where(tasks, c)) + Cardinality(HelpersOf(hands, c))
Returned == \A c \in Callers : hands[c].at \in {"return", "back"} => call[c].pending = 0

\* A chunk in hand was handed out, to one thread, and is not decoded yet.
Chunked ==
    /\ \A t \in Threads : hands[t].at = "decode" =>
          /\ hands[t].chunk \in 1..Chunks /\ hands[t].chunk < call[hands[t].for].next
          /\ call[hands[t].for].decoded[hands[t].chunk] = 0
    /\ \A c \in Callers, k \in 1..Chunks, t, u \in Threads : HasChunk(t, c, k) /\ HasChunk(u, c, k) => t = u

\* A chunk that was handed out is decoded or in hand, unless the call failed.
Shared ==
    \A c \in Callers :
        /\ call[c].failed = TRUE => call[c].bad # {}
        /\ \A k \in 1..Chunks :
              /\ k >= call[c].next => call[c].decoded[k] = 0
              /\ k < call[c].next =>
                    call[c].decoded[k] = 1 \/ call[c].failed = TRUE \/ \E t \in Threads : HasChunk(t, c, k)
              /\ call[c].decoded[k] = 1 => k \notin call[c].bad

\* A thread stops asking for chunks only when there is none to have.
Decided ==
    \A t \in Threads : hands[t].at \in {"done", "sleep", "return", "back"} =>
        call[hands[t].for].failed = TRUE \/ call[hands[t].for].next > Chunks

ParallelInv == CallsTyped /\ Counted /\ Returned /\ Chunked /\ Shared /\ Decided

-----------------------------------------------------------------------------
\* Counting the tasks of a caller

LEMMA WhereFinite ==
    ASSUME NEW S, NEW s \in Seq(S), NEW c
    PROVE  IsFiniteSet(Where(s, c)) /\ Cardinality(Where(s, c)) \in Nat
<1>1. Len(s) \in Nat /\ IsFiniteSet(1..Len(s))
  BY LenProperties, FS_Interval
<1>2. IsFiniteSet(Where(s, c))
  BY <1>1, FS_Subset DEF Where
<1>. QED
  BY <1>2, FS_CardinalityType

LEMMA WhereAppend ==
    ASSUME NEW S, NEW s \in Seq(S), NEW x \in S, NEW c
    PROVE  Cardinality(Where(Append(s, x), c)) = Cardinality(Where(s, c)) + (IF x = c THEN 1 ELSE 0)
<1>1. /\ Len(s) \in Nat /\ Len(Append(s, x)) = Len(s) + 1
      /\ \A i \in 1..Len(s) : Append(s, x)[i] = s[i]
      /\ Append(s, x)[Len(s) + 1] = x
  BY AppendProperties, LenProperties
<1>2. IsFiniteSet(Where(s, c)) /\ Cardinality(Where(s, c)) \in Nat
  BY WhereFinite
<1>3. CASE x = c
  <2>1. Where(Append(s, x), c) = Where(s, c) \cup {Len(s) + 1} /\ Len(s) + 1 \notin Where(s, c)
    BY <1>1, <1>3 DEF Where
  <2>. QED
    BY <2>1, <1>2, <1>3, FS_AddElement
<1>4. CASE x # c
  <2>1. Where(Append(s, x), c) = Where(s, c)
    BY <1>1, <1>4 DEF Where
  <2>. QED
    BY <2>1, <1>2, <1>4
<1>. QED
  BY <1>3, <1>4

LEMMA WhereTail ==
    ASSUME NEW S, NEW s \in Seq(S), s # <<>>, NEW c
    PROVE  Cardinality(Where(Tail(s), c)) = Cardinality(Where(s, c)) - (IF Head(s) = c THEN 1 ELSE 0)
<1>1. /\ Len(s) \in Nat /\ Len(s) >= 1 /\ Len(Tail(s)) = Len(s) - 1 /\ Head(s) = s[1]
      /\ \A i \in 1..(Len(s) - 1) : Tail(s)[i] = s[i + 1]
  BY HeadTailProperties, LenProperties, EmptySeq
<1>2. IsFiniteSet(Where(s, c)) /\ Cardinality(Where(s, c)) \in Nat
  BY WhereFinite
<1>. DEFINE T == Where(s, c) \ {1}
            f == [i \in T |-> i - 1]
<1>3. IsFiniteSet(T) /\ Cardinality(T) = IF 1 \in Where(s, c) THEN Cardinality(Where(s, c)) - 1
                                         ELSE Cardinality(Where(s, c))
  BY <1>2, FS_RemoveElement
<1>4. 1 \in Where(s, c) <=> Head(s) = c
  BY <1>1 DEF Where
<1>5. f \in Bijection(T, Where(Tail(s), c))
  <2>1. f \in [T -> Where(Tail(s), c)]
    <3>1. ASSUME NEW i \in T
          PROVE  i - 1 \in Where(Tail(s), c)
      <4>1. i \in 2..Len(s) /\ s[i] = c /\ i - 1 \in 1..(Len(s) - 1)
        BY <1>1 DEF Where
      <4>2. Tail(s)[i - 1] = s[(i - 1) + 1] /\ (i - 1) + 1 = i
        BY <1>1, <4>1
      <4>. QED
        BY <1>1, <4>1, <4>2 DEF Where
    <3>. QED
      BY <3>1
  <2>2. \A i, j \in T : f[i] = f[j] => i = j
    BY <1>1 DEF Where
  <2>3. \A j \in Where(Tail(s), c) : \E i \in T : f[i] = j
    <3>1. ASSUME NEW j \in Where(Tail(s), c)
          PROVE  j + 1 \in T /\ f[j + 1] = j
      <4>1. j \in 1..(Len(s) - 1) /\ Tail(s)[j] = c
        BY <1>1 DEF Where
      <4>2. s[j + 1] = c /\ j + 1 \in 2..Len(s)
        BY <1>1, <4>1
      <4>3. j + 1 \in T
        BY <4>2 DEF Where
      <4>. QED
        BY <4>1, <4>3
    <3>. QED
      BY <3>1
  <2>4. f \in Injection(T, Where(Tail(s), c))
    BY <2>1, <2>2 DEF Injection, IsInjective
  <2>5. f \in Surjection(T, Where(Tail(s), c))
    BY <2>1, <2>3 DEF Surjection
  <2>. QED
    BY <2>4, <2>5 DEF Bijection
<1>6. Cardinality(Where(Tail(s), c)) = Cardinality(T)
  BY <1>3, <1>5, FS_Bijection DEF ExistsBijection
<1>. QED
  BY <1>2, <1>3, <1>4, <1>6

\* Counting the workers of a call: only worker w has moved.
LEMMA HelpersFinite ==
    ASSUME ParallelConstants, NEW h, NEW c
    PROVE  IsFiniteSet(HelpersOf(h, c)) /\ Cardinality(HelpersOf(h, c)) \in Nat
<1>1. IsFiniteSet(HelpersOf(h, c))
  BY FS_Subset DEF HelpersOf, ParallelConstants
<1>. QED
  BY <1>1, FS_CardinalityType

LEMMA HelpersSame ==
    ASSUME NEW h, NEW g, NEW c,
           \A w \in Decoders : w \in HelpersOf(h, c) <=> w \in HelpersOf(g, c)
    PROVE  HelpersOf(h, c) = HelpersOf(g, c)
BY DEF HelpersOf

LEMMA HelpersJoin ==
    ASSUME ParallelConstants, NEW h, NEW g, NEW c, NEW w \in Decoders,
           w \notin HelpersOf(h, c), w \in HelpersOf(g, c),
           \A v \in Decoders \ {w} : v \in HelpersOf(h, c) <=> v \in HelpersOf(g, c)
    PROVE  Cardinality(HelpersOf(g, c)) = Cardinality(HelpersOf(h, c)) + 1
<1>1. HelpersOf(g, c) = HelpersOf(h, c) \cup {w}
  BY DEF HelpersOf
<1>. QED
  BY <1>1, HelpersFinite, FS_AddElement

-----------------------------------------------------------------------------
\* Types of a state

LEMMA Types ==
    ASSUME ParallelConstants, CallsTyped
    PROVE  /\ \A t \in Threads : hands[t] \in Hand /\ (hands[t].at # "idle" => hands[t].for \in Callers)
           /\ \A c \in Callers : /\ call[c] \in Call /\ call[c].next \in 1..(Chunks + 1)
                                 /\ call[c].pending \in Nat /\ call[c].asked \in Nat
                                 /\ call[c].bad \subseteq 1..Chunks
                                 /\ call[c].decoded \in [1..Chunks -> {0, 1}]
                                 /\ call[c].failed \in BOOLEAN
<1>1. \A c \in Callers : call[c] \in Call
  BY DEF CallsTyped
<1>2. \A t \in Threads : hands[t] \in Hand
  BY DEF CallsTyped
<1>3. \A t \in Threads : hands[t].at # "idle" => hands[t].for \in Callers
  <2>1. \A t \in Callers : hands[t].for \in Callers
    BY DEF CallsTyped
  <2>2. ASSUME NEW t \in Decoders, hands[t].at # "idle"
        PROVE  hands[t].for \in Callers
    <3>1. hands[t].for # Decode!Nobody
      BY <2>2 DEF CallsTyped
    <3>2. hands[t].for \in Callers \cup {Decode!Nobody}
      BY <1>2 DEF Hand, Threads
    <3>. QED
      BY <3>1, <3>2
  <2>. QED
    BY <2>1, <2>2 DEF Threads
<1>. QED
  BY <1>1, <1>2, <1>3 DEF Call

\* A step that hands out and decodes nothing leaves the chunks as they are.
LEMMA ChunksKept ==
    ASSUME ParallelConstants, ParallelInv, CallsTyped',
           \A c \in Callers : /\ call'[c].next = call[c].next /\ call'[c].failed = call[c].failed
                              /\ call'[c].bad = call[c].bad /\ call'[c].decoded = call[c].decoded,
           \A t \in Threads : /\ hands'[t].at = "decode" <=> hands[t].at = "decode"
                              /\ hands[t].at = "decode" => hands'[t] = hands[t]
    PROVE  Chunked' /\ Shared'
<1>1. \A t \in Threads : \A c, k : HasChunk(t, c, k)' <=> HasChunk(t, c, k)
  BY DEF HasChunk
<1>2. \A t \in Threads : hands[t].at = "decode" => hands[t].for \in Callers
  BY Types DEF ParallelInv
<1>3. Chunked'
  BY <1>1, <1>2 DEF ParallelInv, Chunked
<1>4. Shared'
  BY <1>1 DEF ParallelInv, Shared
<1>. QED
  BY <1>3, <1>4

\* Only worker w moves from or to a call, and only between the stages of its help.
LEMMA HelpKept ==
    ASSUME ParallelConstants, ParallelInv, UNCHANGED tasks,
           \A c \in Callers : call'[c].pending = call[c].pending,
           \A w \in Decoders : /\ hands'[w].for = hands[w].for
                               /\ hands'[w].at \in {"work", "decode", "done"}
                                    <=> hands[w].at \in {"work", "decode", "done"}
    PROVE  Counted'
<1>1. ASSUME NEW c \in Callers
      PROVE  HelpersOf(hands', c) = HelpersOf(hands, c)
  BY DEF HelpersOf
<1>. QED
  BY <1>1 DEF ParallelInv, Counted

-----------------------------------------------------------------------------
\* The steps

LEMMA InitCalls == ASSUME ParallelConstants, Decode!Init PROVE ParallelInv
<1>. USE DEF ParallelConstants
<1>1. \A c \in Callers :
         /\ call[c].next = 1 /\ call[c].failed = FALSE /\ call[c].pending = 0 /\ call[c] \in Call
         /\ call[c].decoded = [k \in 1..Chunks |-> 0]
  <2>1. call \in [Callers -> [next : {1}, failed : {FALSE}, pending : {0}, asked : {0},
                     lock : {FALSE}, asleep : {FALSE}, bad : SUBSET (1..Chunks),
                     decoded : {[k \in 1..Chunks |-> 0]}]]
    BY DEF Decode!Init
  <2>2. [k \in 1..Chunks |-> 0] \in [1..Chunks -> {0, 1}]
    OBVIOUS
  <2>3. ASSUME NEW c \in Callers
        PROVE  /\ call[c].next = 1 /\ call[c].failed = FALSE /\ call[c].pending = 0
               /\ call[c].decoded = [k \in 1..Chunks |-> 0]
               /\ call[c] \in Call
    <3>1. call[c] \in [next : {1}, failed : {FALSE}, pending : {0}, asked : {0},
                     lock : {FALSE}, asleep : {FALSE}, bad : SUBSET (1..Chunks),
                     decoded : {[k \in 1..Chunks |-> 0]}]
      BY <2>1
    <3>2. /\ call[c].next = 1 /\ call[c].failed = FALSE /\ call[c].pending = 0
          /\ call[c].decoded = [k \in 1..Chunks |-> 0]
      BY <3>1
    <3>3. 1 \in 1..(Chunks + 1)
      OBVIOUS
    <3>4. call[c].decoded \in [1..Chunks -> {0, 1}]
      BY <3>2, <2>2
    <3>5. {1} \subseteq 1..(Chunks + 1) /\ 0 \in Nat
      BY <3>3
    <3>6. call[c] \in [next : 1..(Chunks + 1), failed : BOOLEAN, pending : Nat, asked : Nat,
                       lock : BOOLEAN, asleep : BOOLEAN, bad : SUBSET (1..Chunks),
                       decoded : {call[c].decoded}]
      BY <3>1, <3>5
    <3>7. call[c] \in Call
      BY <3>6, <3>4 DEF Call
    <3>. QED
      BY <3>2, <3>7
  <2>. QED
    BY <2>3
<1>2. call \in [Callers -> Call]
  BY <1>1 DEF Decode!Init
<1>3. /\ \A t \in Callers : hands[t] = [for |-> t, chunk |-> 0, at |-> "submit"]
      /\ \A t \in Decoders : hands[t] = [for |-> Decode!Nobody, chunk |-> 0, at |-> "idle"]
  BY DEF Decode!Init
<1>4. hands \in [Threads -> Hand]
  BY <1>3 DEF Decode!Init, Threads, Hand, CallerStages, WorkerStages
<1>5. \A w \in Decoders : hands[w].at = "idle" /\ hands[w].for = Decode!Nobody
  BY <1>3
<1>6. ASSUME NEW c \in Callers
      PROVE  hands[c].at = "submit" /\ hands[c].for = c
  <2>1. hands[c] = [for |-> c, chunk |-> 0, at |-> "submit"]
    BY <1>3
  <2>. QED
    BY <2>1
<1>7. tasks \in Seq(Callers) /\ Len(tasks) = 0
  BY EmptySeq DEF Decode!Init
<1>8. CallsTyped
  BY <1>2, <1>4, <1>5, <1>6, <1>7 DEF CallsTyped, CallerStages, WorkerStages
<1>9. Counted
  <2>1. ASSUME NEW c \in Callers
        PROVE  Where(tasks, c) = {} /\ HelpersOf(hands, c) = {}
    BY <1>5, <1>7 DEF Where, HelpersOf
  <2>2. Cardinality({}) = 0
    BY FS_EmptySet
  <2>3. ASSUME NEW c \in Callers
        PROVE  call[c].pending = Cardinality(Where(tasks, c)) + Cardinality(HelpersOf(hands, c))
    <3>1. call[c].pending = 0
      BY <1>1
    <3>. QED
      BY <2>1, <2>2, <3>1
  <2>. QED
    BY <2>3 DEF Counted
<1>10. Returned /\ Decided
  BY <1>5, <1>6 DEF Returned, Decided, Threads
<1>11. Chunked
  BY <1>5, <1>6 DEF Chunked, HasChunk, Threads
<1>12. Shared
  BY <1>1 DEF Shared
<1>. QED
  BY <1>8, <1>9, <1>10, <1>11, <1>12 DEF ParallelInv

LEMMA SubmitStep ==
    ASSUME ParallelConstants, ParallelInv, NEW c \in Callers, Decode!Submit(c)
    PROVE  ParallelInv'
<1>1. CASE call[c].asked < Helpers /\ Len(tasks) < TasksMax
  <2>1. /\ tasks' = Append(tasks, c) /\ hands' = hands
        /\ call' = [call EXCEPT ![c].asked = @ + 1, ![c].pending = @ + 1]
    BY <1>1 DEF Decode!Submit
  <2>2. tasks \in Seq(Callers) /\ tasks' \in Seq(Callers)
    BY <2>1, AppendProperties DEF ParallelInv, CallsTyped
  <2>3. \A d \in Callers :
           /\ call'[d].next = call[d].next /\ call'[d].failed = call[d].failed
           /\ call'[d].bad = call[d].bad /\ call'[d].decoded = call[d].decoded
           /\ call'[d].pending = call[d].pending + (IF c = d THEN 1 ELSE 0)
    BY <2>1, Types DEF ParallelInv, CallsTyped, Call
  <2>4. call' \in [Callers -> Call]
    <3>1. call[c] \in Call /\ call[c].asked + 1 \in Nat /\ call[c].pending + 1 \in Nat
      BY Types DEF ParallelInv
    <3>2. [call[c] EXCEPT !.asked = @ + 1, !.pending = @ + 1] \in Call
      BY <3>1 DEF Call
    <3>3. call' = [call EXCEPT ![c] = [call[c] EXCEPT !.asked = @ + 1, !.pending = @ + 1]]
      BY <2>1 DEF ParallelInv, CallsTyped
    <3>. QED
      BY <3>2, <3>3 DEF ParallelInv, CallsTyped
  <2>5. CallsTyped'
    BY <2>1, <2>2, <2>4 DEF ParallelInv, CallsTyped
  <2>6. Chunked' /\ Shared'
    BY <2>1, <2>3, <2>5, ChunksKept
  <2>7. Counted'
    <3>1. ASSUME NEW d \in Callers
          PROVE  call'[d].pending = Cardinality(Where(tasks', d)) + Cardinality(HelpersOf(hands', d))
      <4>1. Cardinality(Where(tasks', d)) = Cardinality(Where(tasks, d)) + (IF c = d THEN 1 ELSE 0)
        BY <2>1, <2>2, WhereAppend
      <4>2. call[d].pending = Cardinality(Where(tasks, d)) + Cardinality(HelpersOf(hands, d))
        BY DEF ParallelInv, Counted
      <4>3. Cardinality(Where(tasks, d)) \in Nat /\ Cardinality(HelpersOf(hands, d)) \in Nat
        BY <2>2, WhereFinite, HelpersFinite
      <4>4. HelpersOf(hands', d) = HelpersOf(hands, d)
        BY <2>1
      <4>. QED
        BY <4>1, <4>2, <4>3, <4>4, <2>3
    <3>. QED
      BY <3>1 DEF Counted
  <2>8. Returned'
    <3>1. ASSUME NEW d \in Callers, hands[d].at \in {"return", "back"}
          PROVE  call'[d].pending = 0
      <4>1. d # c
        BY <3>1 DEF Decode!Submit
      <4>2. call[d].pending = 0
        BY <3>1 DEF ParallelInv, Returned
      <4>. QED
        BY <4>1, <4>2, <2>3
    <3>. QED
      BY <2>1, <3>1 DEF Returned
  <2>9. Decided'
    <3>1. ASSUME NEW t \in Threads, hands[t].at \in {"done", "sleep", "return", "back"}
          PROVE  call'[hands[t].for].failed = TRUE \/ call'[hands[t].for].next > Chunks
      <4>1. hands[t].for \in Callers
        BY <3>1, Types DEF ParallelInv
      <4>. QED
        BY <4>1, <3>1, <2>3 DEF ParallelInv, Decided
    <3>. QED
      BY <2>1, <3>1 DEF Decided
  <2>. QED
    BY <2>5, <2>6, <2>7, <2>8, <2>9 DEF ParallelInv
<1>2. CASE ~(call[c].asked < Helpers /\ Len(tasks) < TasksMax)
  <2>1. hands[c].at = "submit" /\ hands' = [hands EXCEPT ![c].at = "work"] /\ UNCHANGED <<tasks, call>>
    BY <1>2 DEF Decode!Submit
  <2>2. c \in Threads /\ c \notin Decoders
    BY DEF Threads, ParallelConstants
  <2>3. /\ \A t \in Threads \ {c} : hands'[t] = hands[t]
        /\ hands'[c].at = "work" /\ hands'[c].for = hands[c].for
    BY <2>1, <2>2, Types DEF ParallelInv, CallsTyped, Hand
  <2>4. hands' \in [Threads -> Hand]
    BY <2>1, <2>2, Types DEF ParallelInv, CallsTyped, Hand, CallerStages
  <2>5. CallsTyped'
    BY <2>1, <2>2, <2>3, <2>4 DEF ParallelInv, CallsTyped, Threads, CallerStages
  <2>6. Chunked' /\ Shared'
    BY <2>1, <2>3, <2>5, ChunksKept
  <2>7. Counted'
    BY <2>1, <2>2, <2>3, HelpKept DEF Threads
  <2>8. Returned'
    BY <2>1, <2>3 DEF ParallelInv, Returned, Threads
  <2>9. Decided'
    BY <2>1, <2>3 DEF ParallelInv, Decided
  <2>. QED
    BY <2>5, <2>6, <2>7, <2>8, <2>9 DEF ParallelInv
<1>. QED
  BY <1>1, <1>2

\* A thread t that goes on to stage a, and nothing more.
LEMMA Moves ==
    ASSUME ParallelConstants, ParallelInv, NEW t \in Threads, NEW a \in CallerStages \cup WorkerStages,
           hands' = [hands EXCEPT ![t].at = a],
           call' \in [Callers -> Call], tasks' \in Seq(Callers),
           t \in Callers => a \in CallerStages,
           t \in Decoders => a \in WorkerStages \ {"idle"} /\ hands[t].at # "idle"
    PROVE  /\ hands'[t].at = a /\ hands'[t].for = hands[t].for /\ hands'[t].chunk = hands[t].chunk
           /\ \A u \in Threads \ {t} : hands'[u] = hands[u]
           /\ CallsTyped'
<1>1. hands \in [Threads -> Hand] /\ hands[t] \in Hand
  BY Types DEF ParallelInv, CallsTyped
<1>2. [hands[t] EXCEPT !.at = a] \in Hand
  BY <1>1 DEF Hand
<1>3. hands' = [hands EXCEPT ![t] = [hands[t] EXCEPT !.at = a]]
  BY <1>1
<1>4. hands' \in [Threads -> Hand]
  BY <1>1, <1>2, <1>3
<1>5. /\ hands'[t].at = a /\ hands'[t].for = hands[t].for /\ hands'[t].chunk = hands[t].chunk
      /\ \A u \in Threads \ {t} : hands'[u] = hands[u]
  BY <1>1, <1>3 DEF Hand
<1>6. \A c \in Callers : hands'[c].for = c /\ hands'[c].at \in CallerStages
  BY <1>5 DEF ParallelInv, CallsTyped, Threads
<1>7. \A w \in Decoders : /\ hands'[w].at \in WorkerStages
                          /\ hands'[w].at = "idle" <=> hands'[w].for = Decode!Nobody
  BY <1>5 DEF ParallelInv, CallsTyped, Threads
<1>. QED
  BY <1>4, <1>5, <1>6, <1>7 DEF CallsTyped

\* What was decided stands: calls neither recover nor get chunks back.
LEMMA DecidedKept ==
    ASSUME ParallelConstants, ParallelInv,
           \A c \in Callers : /\ call[c].failed = TRUE => call'[c].failed = TRUE
                              /\ call[c].next > Chunks => call'[c].next > Chunks,
           \A u \in Threads : hands'[u].at \in {"done", "sleep", "return", "back"} =>
               /\ hands'[u].for \in Callers
               /\ \/ /\ hands[u].at \in {"done", "sleep", "return", "back"}
                     /\ hands'[u].for = hands[u].for
                  \/ call'[hands'[u].for].failed = TRUE \/ call'[hands'[u].for].next > Chunks
    PROVE  Decided'
<1>1. ASSUME NEW u \in Threads, hands'[u].at \in {"done", "sleep", "return", "back"}
      PROVE  call'[hands'[u].for].failed = TRUE \/ call'[hands'[u].for].next > Chunks
  <2>1. CASE hands[u].at \in {"done", "sleep", "return", "back"} /\ hands'[u].for = hands[u].for
    <3>1. call[hands[u].for].failed = TRUE \/ call[hands[u].for].next > Chunks
      BY <2>1 DEF ParallelInv, Decided
    <3>2. hands[u].for \in Callers
      BY <1>1, <2>1
    <3>. QED
      BY <2>1, <3>1, <3>2
  <2>. QED
    BY <1>1, <2>1
<1>. QED
  BY <1>1 DEF Decided

LEMMA TakeTaskStep ==
    ASSUME ParallelConstants, ParallelInv, NEW w \in Decoders, Decode!TakeTask(w)
    PROVE  ParallelInv'
<1>. DEFINE c == Head(tasks)
            h == [for |-> c, chunk |-> 0, at |-> "work"]
<1>1. /\ hands[w].at = "idle" /\ tasks # <<>> /\ tasks' = Tail(tasks) /\ call' = call
      /\ hands' = [hands EXCEPT ![w] = h]
  BY DEF Decode!TakeTask
<1>2. tasks \in Seq(Callers) /\ c \in Callers /\ tasks' \in Seq(Callers)
  BY <1>1, HeadTailProperties DEF ParallelInv, CallsTyped
<1>3. w \in Threads /\ w \notin Callers
  BY DEF Threads, ParallelConstants
<1>4. h \in Hand
  BY <1>2 DEF Hand, CallerStages, ParallelConstants
<1>5. hands'[w] = h /\ \A t \in Threads \ {w} : hands'[t] = hands[t]
  BY <1>1, <1>3 DEF ParallelInv, CallsTyped
<1>5a. hands'[w].for = c /\ hands'[w].at = "work"
  BY <1>5
<1>. HIDE DEF h, c
<1>6. CallsTyped'
  <2>1. hands' \in [Threads -> Hand]
    BY <1>1, <1>3, <1>4 DEF ParallelInv, CallsTyped
  <2>2. \A d \in Callers : hands'[d].for = d /\ hands'[d].at \in CallerStages
    BY <1>3, <1>5 DEF ParallelInv, CallsTyped, Threads
  <2>3. c # Decode!Nobody
    BY <1>2 DEF ParallelConstants
  <2>4. ASSUME NEW v \in Decoders
        PROVE  /\ hands'[v].at \in WorkerStages
               /\ hands'[v].at = "idle" <=> hands'[v].for = Decode!Nobody
    <3>1. CASE v = w
      BY <1>5a, <2>3, <3>1 DEF WorkerStages
    <3>2. CASE v # w
      BY <1>5, <3>2 DEF ParallelInv, CallsTyped, Threads
    <3>. QED
      BY <3>1, <3>2
  <2>. QED
    BY <1>1, <1>2, <2>1, <2>2, <2>4 DEF ParallelInv, CallsTyped
<1>7. Chunked' /\ Shared'
  <2>1. \A t \in Threads : /\ hands'[t].at = "decode" <=> hands[t].at = "decode"
                           /\ hands[t].at = "decode" => hands'[t] = hands[t]
    BY <1>1, <1>5, <1>5a
  <2>. QED
    BY <1>1, <1>6, <2>1, ChunksKept
<1>8. Counted'
  <2>1. ASSUME NEW d \in Callers
        PROVE  call'[d].pending = Cardinality(Where(tasks', d)) + Cardinality(HelpersOf(hands', d))
    <3>1. Cardinality(Where(tasks', d)) = Cardinality(Where(tasks, d)) - (IF c = d THEN 1 ELSE 0)
      BY <1>1, <1>2, WhereTail DEF c
    <3>2. call[d].pending = Cardinality(Where(tasks, d)) + Cardinality(HelpersOf(hands, d))
      BY DEF ParallelInv, Counted
    <3>3. Cardinality(Where(tasks, d)) \in Nat /\ Cardinality(HelpersOf(hands, d)) \in Nat
      BY <1>2, WhereFinite, HelpersFinite
    <3>4. \A v \in Decoders \ {w} : v \in HelpersOf(hands, d) <=> v \in HelpersOf(hands', d)
      BY <1>5 DEF HelpersOf, Threads
    <3>5. w \notin HelpersOf(hands, d) /\ (w \in HelpersOf(hands', d) <=> c = d)
      BY <1>1, <1>5a DEF HelpersOf
    <3>6. Cardinality(HelpersOf(hands', d)) = Cardinality(HelpersOf(hands, d)) + (IF c = d THEN 1 ELSE 0)
      <4>1. CASE c = d
        BY <3>4, <3>5, <4>1, HelpersJoin
      <4>2. CASE c # d
        <5>1. HelpersOf(hands', d) = HelpersOf(hands, d)
          BY <3>4, <3>5, <4>2, HelpersSame
        <5>. QED
          BY <5>1, <4>2, <3>3
      <4>. QED
        BY <4>1, <4>2
    <3>. QED
      BY <1>1, <3>1, <3>2, <3>3, <3>6
  <2>. QED
    BY <2>1 DEF Counted
<1>9. Returned'
  BY <1>1, <1>3, <1>5 DEF ParallelInv, Returned, Threads
<1>10. Decided'
  <2>1. \A t \in Threads : hands[t].at # "idle" => hands[t].for \in Callers
    BY Types DEF ParallelInv
  <2>2. \A t \in Threads : hands'[t].at \in {"done", "sleep", "return", "back"} =>
           /\ hands[t].at \in {"done", "sleep", "return", "back"}
           /\ hands'[t].for = hands[t].for /\ hands'[t].for \in Callers
    BY <1>5, <1>5a, <2>1
  <2>. QED
    BY <1>1, <2>2, DecidedKept
<1>. QED
  BY <1>6, <1>7, <1>8, <1>9, <1>10 DEF ParallelInv

\* A thread that finds no chunk.
LEMMA NoChunkStep ==
    ASSUME ParallelConstants, ParallelInv, NEW t \in Threads, hands[t].at = "work",
           call[hands[t].for].failed = TRUE \/ call[hands[t].for].next > Chunks,
           hands' = [hands EXCEPT ![t].at = "done"], call' = call, tasks' = tasks
    PROVE  ParallelInv'
<1>1. call' \in [Callers -> Call] /\ tasks' \in Seq(Callers) /\ hands[t].for \in Callers
  BY Types DEF ParallelInv, CallsTyped
<1>2. "done" \in CallerStages /\ "done" \in WorkerStages \ {"idle"}
  BY DEF CallerStages, WorkerStages
<1>3. /\ hands'[t].at = "done" /\ hands'[t].for = hands[t].for
      /\ \A u \in Threads \ {t} : hands'[u] = hands[u]
      /\ CallsTyped'
  BY <1>1, <1>2, Moves
<1>4. Chunked' /\ Shared'
  BY <1>3, ChunksKept
<1>5. Counted'
  BY <1>3, HelpKept DEF Threads
<1>6. Returned'
  BY <1>3 DEF ParallelInv, Returned, Threads
<1>7. Decided'
  <2>1. \A u \in Threads : hands[u].at # "idle" => hands[u].for \in Callers
    BY Types DEF ParallelInv
  <2>2. ASSUME NEW u \in Threads, hands'[u].at \in {"done", "sleep", "return", "back"}
        PROVE  /\ hands'[u].for \in Callers
               /\ \/ /\ hands[u].at \in {"done", "sleep", "return", "back"}
                     /\ hands'[u].for = hands[u].for
                  \/ call'[hands'[u].for].failed = TRUE \/ call'[hands'[u].for].next > Chunks
    <3>1. CASE u = t
      BY <1>1, <1>3, <3>1
    <3>2. CASE u # t
      BY <1>3, <2>1, <2>2, <3>2
    <3>. QED
      BY <3>1, <3>2
  <2>. QED
    BY <2>2, DecidedKept
<1>. QED
  BY <1>3, <1>4, <1>5, <1>6, <1>7 DEF ParallelInv

\* A thread that gets chunk k of call c.
LEMMA TakeChunkStep ==
    ASSUME ParallelConstants, ParallelInv, NEW t \in Threads, NEW c \in Callers, NEW k,
           hands[t].at = "work", hands[t].for = c, k = call[c].next, k <= Chunks,
           call' = [call EXCEPT ![c].next = k + 1], tasks' = tasks,
           hands' = [hands EXCEPT ![t] = [@ EXCEPT !.chunk = k, !.at = "decode"]]
    PROVE  ParallelInv'
<1>1. k \in 1..Chunks /\ k + 1 \in 1..(Chunks + 1) /\ k \in Nat /\ Chunks \in Nat
  BY Types DEF ParallelInv, ParallelConstants
<1>2. hands[t] \in Hand /\ call[c] \in Call
  BY Types DEF ParallelInv
<1>3. \A d \in Callers :
         /\ call'[d].failed = call[d].failed /\ call'[d].bad = call[d].bad
         /\ call'[d].decoded = call[d].decoded /\ call'[d].pending = call[d].pending
         /\ call'[d].next = IF d = c THEN k + 1 ELSE call[d].next
  BY Types DEF ParallelInv, CallsTyped, Call
<1>4. call' \in [Callers -> Call]
  <2>1. [call[c] EXCEPT !.next = k + 1] \in Call
    BY <1>1, <1>2 DEF Call
  <2>. QED
    BY <2>1 DEF ParallelInv, CallsTyped
<1>5. /\ hands'[t].at = "decode" /\ hands'[t].for = c /\ hands'[t].chunk = k
      /\ \A u \in Threads \ {t} : hands'[u] = hands[u]
      /\ hands' \in [Threads -> Hand]
  <2>0. k \in 0..Chunks /\ "decode" \in CallerStages \cup WorkerStages
    BY <1>1 DEF CallerStages
  <2>1. [hands[t] EXCEPT !.chunk = k, !.at = "decode"] \in Hand
    BY <1>2, <2>0 DEF Hand
  <2>. QED
    BY <1>2, <2>1 DEF ParallelInv, CallsTyped, Hand
<1>6. CallsTyped'
  <2>1. \A d \in Callers : hands'[d].for = d /\ hands'[d].at \in CallerStages
    BY <1>5 DEF ParallelInv, CallsTyped, Threads, CallerStages
  <2>2. \A w \in Decoders : /\ hands'[w].at \in WorkerStages
                            /\ hands'[w].at = "idle" <=> hands'[w].for = Decode!Nobody
    BY <1>5 DEF ParallelInv, CallsTyped, Threads, WorkerStages, ParallelConstants
  <2>. QED
    BY <1>4, <1>5, <2>1, <2>2 DEF ParallelInv, CallsTyped
<1>7. \A u \in Threads : \A d, n : HasChunk(u, d, n)' <=> IF u = t THEN d = c /\ n = k ELSE HasChunk(u, d, n)
  BY <1>5 DEF HasChunk
<1>8. \A d \in Callers, n \in 1..Chunks : n >= call[d].next => call[d].decoded[n] = 0
  BY DEF ParallelInv, Shared
<1>9. Chunked'
  <2>1. ASSUME NEW u \in Threads, hands'[u].at = "decode"
        PROVE  /\ hands'[u].chunk \in 1..Chunks /\ hands'[u].chunk < call'[hands'[u].for].next
               /\ call'[hands'[u].for].decoded[hands'[u].chunk] = 0
    <3>1. CASE u = t
      <4>1. call[c].decoded[k] = 0 /\ k < k + 1
        BY <1>1, <1>8
      <4>. QED
        BY <1>1, <1>3, <1>5, <3>1, <4>1
    <3>2. CASE u # t
      <4>1. hands'[u] = hands[u]
        BY <1>5, <3>2
      <4>2. /\ hands[u].chunk \in 1..Chunks /\ hands[u].chunk < call[hands[u].for].next
            /\ call[hands[u].for].decoded[hands[u].chunk] = 0
        BY <2>1, <4>1 DEF ParallelInv, Chunked
      <4>3. hands[u].for \in Callers
        BY <2>1, <4>1, Types DEF ParallelInv
      <4>4. hands[u].chunk < call'[hands[u].for].next
        BY <1>1, <1>3, <4>2, <4>3
      <4>. QED
        BY <1>3, <4>1, <4>2, <4>3, <4>4
    <3>. QED
      BY <3>1, <3>2
  <2>2. ASSUME NEW u \in Threads, HasChunk(u, c, k)
        PROVE  FALSE
    <3>1. k < call[c].next
      BY <2>2 DEF ParallelInv, Chunked, HasChunk
    <3>. QED
      BY <1>1, <3>1
  <2>3. ASSUME NEW d \in Callers, NEW n \in 1..Chunks, NEW u \in Threads, NEW v \in Threads,
               HasChunk(u, d, n)', HasChunk(v, d, n)'
        PROVE  u = v
    <3>1. CASE u # t /\ v # t
      <4>1. HasChunk(u, d, n) /\ HasChunk(v, d, n)
        BY <1>7, <2>3, <3>1
      <4>. QED
        BY <4>1 DEF ParallelInv, Chunked
    <3>2. CASE u = t /\ v # t
      BY <1>7, <2>2, <2>3, <3>2
    <3>3. CASE u # t /\ v = t
      BY <1>7, <2>2, <2>3, <3>3
    <3>. QED
      BY <3>1, <3>2, <3>3
  <2>. QED
    BY <2>1, <2>3 DEF Chunked
<1>10. Shared'
  <2>1. ASSUME NEW d \in Callers
        PROVE  /\ call'[d].failed = TRUE => call'[d].bad # {}
               /\ \A n \in 1..Chunks : call'[d].decoded[n] = 1 => n \notin call'[d].bad
    BY <1>3 DEF ParallelInv, Shared
  <2>2. ASSUME NEW d \in Callers, NEW n \in 1..Chunks
        PROVE  /\ n >= call'[d].next => call'[d].decoded[n] = 0
               /\ n < call'[d].next => \/ call'[d].decoded[n] = 1 \/ call'[d].failed = TRUE
                                       \/ \E u \in Threads : HasChunk(u, d, n)'
    <3>1. ASSUME n >= call'[d].next
          PROVE  call'[d].decoded[n] = 0
      <4>1. n >= call[d].next
        BY <1>1, <1>3, <3>1
      <4>. QED
        BY <1>3, <1>8, <4>1
    <3>2. CASE d = c /\ n = k
      BY <1>7, <3>1, <3>2
    <3>3. CASE ~(d = c /\ n = k)
      <4>1. ASSUME n < call'[d].next
            PROVE  n < call[d].next
        BY <1>1, <1>3, <3>3, <4>1
      <4>2. \A u \in Threads : HasChunk(u, d, n) => HasChunk(u, d, n)'
        BY <1>7 DEF HasChunk
      <4>3. n < call[d].next => \/ call[d].decoded[n] = 1 \/ call[d].failed = TRUE
                                \/ \E u \in Threads : HasChunk(u, d, n)
        BY DEF ParallelInv, Shared
      <4>. QED
        BY <1>3, <3>1, <4>1, <4>2, <4>3
    <3>. QED
      BY <3>2, <3>3
  <2>. QED
    BY <2>1, <2>2 DEF Shared
<1>11. Counted'
  BY <1>3, <1>5, HelpKept DEF Threads
<1>12. Returned'
  BY <1>3, <1>5 DEF ParallelInv, Returned, Threads
<1>13. Decided'
  <2>1. \A u \in Threads : hands[u].at # "idle" => hands[u].for \in Callers
    BY Types DEF ParallelInv
  <2>2. \A u \in Threads : hands'[u].at \in {"done", "sleep", "return", "back"} =>
           /\ hands[u].at \in {"done", "sleep", "return", "back"}
           /\ hands'[u].for = hands[u].for /\ hands'[u].for \in Callers
    BY <1>5, <2>1
  <2>3. \A d \in Callers : call[d].next > Chunks => call'[d].next > Chunks
    BY <1>1, <1>3
  <2>. QED
    BY <1>3, <2>2, <2>3, DecidedKept
<1>. QED
  BY <1>6, <1>9, <1>10, <1>11, <1>12, <1>13 DEF ParallelInv

LEMMA FetchChunkStep ==
    ASSUME ParallelConstants, ParallelInv, NEW t \in Threads, Decode!FetchChunk(t)
    PROVE  ParallelInv'
<1>. DEFINE c == hands[t].for
<1>1. hands[t].at = "work" /\ c \in Callers /\ tasks' = tasks
  BY Types DEF ParallelInv, Decode!FetchChunk
<1>2. call[c].next \in 1..(Chunks + 1) /\ Chunks \in Nat /\ call[c] \in Call /\ call \in [Callers -> Call]
  BY <1>1, Types DEF ParallelInv, ParallelConstants, CallsTyped
<1>3. CASE call[c].failed
  <2>1. hands' = [hands EXCEPT ![t].at = "done"] /\ call' = call
    BY <1>3 DEF Decode!FetchChunk
  <2>. QED
    BY <1>1, <1>3, <2>1, NoChunkStep
<1>4. CASE ~call[c].failed /\ call[c].next > Chunks
  <2>1. hands' = [hands EXCEPT ![t] = [@ EXCEPT !.at = "done"]]
    BY <1>4 DEF Decode!FetchChunk
  <2>2. call' = [call EXCEPT ![c].next = @]
    BY <1>4 DEF Decode!FetchChunk
  <2>3. call' = call
    BY <1>1, <1>2, <2>2 DEF Call
  <2>. QED
    BY <1>1, <1>4, <2>1, <2>3, NoChunkStep
<1>5. CASE ~call[c].failed /\ ~(call[c].next > Chunks)
  <2>1. hands' = [hands EXCEPT ![t] = [@ EXCEPT !.chunk = call[c].next, !.at = "decode"]]
    BY <1>5 DEF Decode!FetchChunk
  <2>2. call' = [call EXCEPT ![c].next = call[c].next + 1]
    BY <1>5 DEF Decode!FetchChunk
  <2>3. call[c].next <= Chunks
    BY <1>2, <1>5
  <2>. QED
    BY <1>1, <2>1, <2>2, <2>3, TakeChunkStep
<1>. QED
  BY <1>3, <1>4, <1>5

\* A thread holds one chunk at a time.
LEMMA OneChunk ==
    ASSUME NEW t, NEW c, NEW d, NEW k, NEW n, HasChunk(t, c, k), HasChunk(t, d, n)
    PROVE  c = d /\ k = n
BY DEF HasChunk

\* A thread that decodes its chunk, or finds it bad.
LEMMA DecodeChunkStep ==
    ASSUME ParallelConstants, ParallelInv, NEW t \in Threads, Decode!DecodeChunk(t)
    PROVE  ParallelInv'
<1>0. PICK c, k : c = hands[t].for /\ k = hands[t].chunk
  OBVIOUS
<1>. DEFINE isBad == k \in call[c].bad
            whole == [call[c].decoded EXCEPT ![k] = 1]
<1>1. hands[t].at = "decode" /\ c \in Callers /\ tasks' = tasks /\ hands[t] \in Hand
  BY <1>0, Types DEF ParallelInv, Decode!DecodeChunk
<1>2. /\ k \in 1..Chunks /\ k < call[c].next /\ call[c].decoded[k] = 0
      /\ call[c] \in Call /\ call[c].decoded \in [1..Chunks -> {0, 1}]
  BY <1>0, <1>1, Types DEF ParallelInv, Chunked
<1>3. call' = [call EXCEPT ![c] = IF isBad THEN [call[c] EXCEPT !.failed = TRUE]
                                  ELSE [call[c] EXCEPT !.decoded = whole]]
  <2>1. call' = IF isBad THEN [call EXCEPT ![c].failed = TRUE]
                ELSE [call EXCEPT ![c].decoded[k] = @ + 1]
    BY <1>0 DEF Decode!DecodeChunk
  <2>2. CASE isBad
    BY <2>1, <2>2
  <2>3. CASE ~isBad
    <3>1. whole = [call[c].decoded EXCEPT ![k] = call[c].decoded[k] + 1]
      BY <1>2
    <3>. QED
      BY <2>1, <2>3, <3>1
  <2>. QED
    BY <2>2, <2>3
<1>4. hands' = [hands EXCEPT ![t] = [hands[t] EXCEPT !.chunk = 0, !.at = IF isBad THEN "done" ELSE "work"]]
  BY <1>0, <1>1 DEF Decode!DecodeChunk, Hand, ParallelInv, CallsTyped
<1>5. /\ hands'[t].at = (IF isBad THEN "done" ELSE "work") /\ hands'[t].for = c
      /\ \A u \in Threads \ {t} : hands'[u] = hands[u]
      /\ hands' \in [Threads -> Hand]
  <2>1. 0 \in 0..Chunks /\ {"done", "work"} \subseteq CallerStages \cup WorkerStages
    BY <1>2 DEF CallerStages, ParallelConstants
  <2>2. [hands[t] EXCEPT !.chunk = 0, !.at = IF isBad THEN "done" ELSE "work"] \in Hand
    BY <1>1, <2>1 DEF Hand
  <2>. QED
    BY <1>0, <1>1, <1>4, <2>2 DEF ParallelInv, CallsTyped, Hand
<1>6. /\ \A d \in Callers : /\ call'[d].next = call[d].next /\ call'[d].bad = call[d].bad
                            /\ call'[d].pending = call[d].pending
      /\ \A d \in Callers : d # c => call'[d].failed = call[d].failed /\ call'[d].decoded = call[d].decoded
      /\ isBad => call'[c].failed = TRUE /\ call'[c].decoded = call[c].decoded
      /\ ~isBad => /\ call'[c].failed = call[c].failed
                   /\ call'[c].decoded = whole
  BY <1>1, <1>2, <1>3 DEF ParallelInv, CallsTyped, Call
<1>7. ~isBad => /\ call'[c].decoded[k] = 1
                /\ \A n \in 1..Chunks : n # k => call'[c].decoded[n] = call[c].decoded[n]
  BY <1>2, <1>6
<1>8. call' \in [Callers -> Call]
  <2>1. CASE isBad
    <3>1. [call[c] EXCEPT !.failed = TRUE] \in Call
      BY <1>2 DEF Call
    <3>. QED
      BY <1>3, <2>1, <3>1 DEF ParallelInv, CallsTyped
  <2>2. CASE ~isBad
    <3>1. whole \in [1..Chunks -> {0, 1}]
      BY <1>2
    <3>2. [call[c] EXCEPT !.decoded = whole] \in Call
      BY <1>2, <3>1 DEF Call
    <3>. QED
      BY <1>3, <2>2, <3>2 DEF ParallelInv, CallsTyped
  <2>. QED
    BY <2>1, <2>2
<1>9. CallsTyped'
  <2>1. \A d \in Callers : hands'[d].for = d /\ hands'[d].at \in CallerStages
    BY <1>0, <1>5 DEF ParallelInv, CallsTyped, Threads, CallerStages
  <2>2. \A w \in Decoders : /\ hands'[w].at \in WorkerStages
                            /\ hands'[w].at = "idle" <=> hands'[w].for = Decode!Nobody
    BY <1>0, <1>1, <1>5 DEF ParallelInv, CallsTyped, Threads, WorkerStages, ParallelConstants
  <2>. QED
    BY <1>1, <1>5, <1>8, <2>1, <2>2 DEF ParallelInv, CallsTyped
<1>10. HasChunk(t, c, k)
  BY <1>0, <1>1 DEF HasChunk
<1>. HIDE DEF isBad, whole
<1>11. \A u \in Threads : \A d, n : HasChunk(u, d, n)' <=> u # t /\ HasChunk(u, d, n)
  BY <1>5 DEF HasChunk
<1>12. \A u \in Threads : HasChunk(u, c, k) => u = t
  BY <1>1, <1>2, <1>10 DEF ParallelInv, Chunked
<1>13. Chunked'
  <2>1. ASSUME NEW u \in Threads, hands'[u].at = "decode"
        PROVE  /\ hands'[u].chunk \in 1..Chunks /\ hands'[u].chunk < call'[hands'[u].for].next
               /\ call'[hands'[u].for].decoded[hands'[u].chunk] = 0
    <3>1. u # t /\ hands'[u] = hands[u]
      BY <1>5, <2>1
    <3>2. /\ hands[u].chunk \in 1..Chunks /\ hands[u].chunk < call[hands[u].for].next
          /\ call[hands[u].for].decoded[hands[u].chunk] = 0
      BY <2>1, <3>1 DEF ParallelInv, Chunked
    <3>3. hands[u].for \in Callers
      BY <2>1, <3>1, Types DEF ParallelInv
    <3>4. ~(hands[u].for = c /\ hands[u].chunk = k)
      BY <1>12, <2>1, <3>1 DEF HasChunk
    <3>5. call'[hands[u].for].decoded[hands[u].chunk] = call[hands[u].for].decoded[hands[u].chunk]
      <4>1. CASE hands[u].for = c
        BY <1>6, <1>7, <3>2, <3>4, <4>1
      <4>2. CASE hands[u].for # c
        BY <1>6, <3>3, <4>2
      <4>. QED
        BY <4>1, <4>2
    <3>. QED
      BY <1>6, <3>1, <3>2, <3>3, <3>5
  <2>2. ASSUME NEW d \in Callers, NEW n \in 1..Chunks, NEW u \in Threads, NEW v \in Threads,
               HasChunk(u, d, n)', HasChunk(v, d, n)'
        PROVE  u = v
    BY <1>11, <2>2 DEF ParallelInv, Chunked
  <2>. QED
    BY <2>1, <2>2 DEF Chunked
<1>14. Shared'
  <2>1. ASSUME NEW d \in Callers, d # c
        PROVE  /\ call'[d].failed = TRUE => call'[d].bad # {}
               /\ \A n \in 1..Chunks :
                     /\ n >= call'[d].next => call'[d].decoded[n] = 0
                     /\ n < call'[d].next => \/ call'[d].decoded[n] = 1 \/ call'[d].failed = TRUE
                                             \/ \E u \in Threads : HasChunk(u, d, n)'
                     /\ call'[d].decoded[n] = 1 => n \notin call'[d].bad
    <3>1. \A u \in Threads, n \in 1..Chunks : HasChunk(u, d, n) => HasChunk(u, d, n)'
      BY <1>10, <1>11, <2>1, OneChunk
    <3>2. /\ call'[d].failed = call[d].failed /\ call'[d].decoded = call[d].decoded
          /\ call'[d].next = call[d].next /\ call'[d].bad = call[d].bad
      BY <1>6, <2>1
    <3>. QED
      BY <3>1, <3>2 DEF ParallelInv, Shared
  <2>2. /\ call[c].failed = TRUE => call[c].bad # {}
        /\ \A n \in 1..Chunks :
              /\ n >= call[c].next => call[c].decoded[n] = 0
              /\ n < call[c].next => \/ call[c].decoded[n] = 1 \/ call[c].failed = TRUE
                                     \/ \E u \in Threads : HasChunk(u, c, n)
              /\ call[c].decoded[n] = 1 => n \notin call[c].bad
    BY <1>1 DEF ParallelInv, Shared
  <2>3. /\ call'[c].failed = TRUE => call'[c].bad # {}
        /\ \A n \in 1..Chunks :
              /\ n >= call'[c].next => call'[c].decoded[n] = 0
              /\ n < call'[c].next => \/ call'[c].decoded[n] = 1 \/ call'[c].failed = TRUE
                                      \/ \E u \in Threads : HasChunk(u, c, n)'
              /\ call'[c].decoded[n] = 1 => n \notin call'[c].bad
    <3>1. CASE isBad
      <4>1. call[c].bad # {}
        BY <3>1 DEF isBad
      <4>. QED
        BY <1>1, <1>6, <2>2, <3>1, <4>1
    <3>2. CASE ~isBad
      <4>1. call'[c].failed = TRUE => call'[c].bad # {}
        BY <1>1, <1>6, <2>2, <3>2
      <4>2. ASSUME NEW n \in 1..Chunks, n # k
            PROVE  /\ n >= call'[c].next => call'[c].decoded[n] = 0
                   /\ n < call'[c].next => \/ call'[c].decoded[n] = 1 \/ call'[c].failed = TRUE
                                           \/ \E u \in Threads : HasChunk(u, c, n)'
                   /\ call'[c].decoded[n] = 1 => n \notin call'[c].bad
        <5>1. \A u \in Threads : HasChunk(u, c, n) => HasChunk(u, c, n)'
          <6>1. ASSUME NEW u \in Threads, HasChunk(u, c, n)
                PROVE  HasChunk(u, c, n)'
            <7>1. u # t
              BY <1>10, <4>2, <6>1, OneChunk
            <7>. QED
              BY <1>11, <6>1, <7>1
          <6>. QED
            BY <6>1
        <5>2. /\ call'[c].decoded[n] = call[c].decoded[n] /\ call'[c].failed = call[c].failed
              /\ call'[c].next = call[c].next /\ call'[c].bad = call[c].bad
          BY <1>1, <1>6, <1>7, <3>2, <4>2
        <5>. QED
          BY <2>2, <5>1, <5>2
      <4>3. ~(k >= call'[c].next) /\ call'[c].decoded[k] = 1 /\ k \notin call'[c].bad
        <5>1. call[c].next \in Nat /\ k \in Nat
          BY <1>1, <1>2, Types DEF ParallelInv
        <5>. QED
          BY <1>1, <1>2, <1>6, <1>7, <3>2, <5>1 DEF isBad
      <4>. QED
        BY <4>1, <4>2, <4>3
    <3>. QED
      BY <3>1, <3>2
  <2>4. ASSUME NEW d \in Callers
        PROVE  /\ call'[d].failed = TRUE => call'[d].bad # {}
               /\ \A n \in 1..Chunks :
                     /\ n >= call'[d].next => call'[d].decoded[n] = 0
                     /\ n < call'[d].next => \/ call'[d].decoded[n] = 1 \/ call'[d].failed = TRUE
                                             \/ \E u \in Threads : HasChunk(u, d, n)'
                     /\ call'[d].decoded[n] = 1 => n \notin call'[d].bad
    <3>1. CASE d = c
      BY <2>3, <3>1
    <3>2. CASE d # c
      BY <2>1, <3>2
    <3>. QED
      BY <3>1, <3>2
  <2>. QED
    BY <2>4 DEF Shared
<1>15. Counted'
  <2>1. \A w \in Decoders : /\ hands'[w].for = hands[w].for
                            /\ hands'[w].at \in {"work", "decode", "done"}
                                 <=> hands[w].at \in {"work", "decode", "done"}
    BY <1>0, <1>1, <1>5 DEF Threads
  <2>. QED
    BY <1>1, <1>6, <2>1, HelpKept
<1>16. Returned'
  BY <1>5, <1>6 DEF ParallelInv, Returned, Threads
<1>17. Decided'
  <2>1. \A u \in Threads : hands[u].at # "idle" => hands[u].for \in Callers
    BY Types DEF ParallelInv
  <2>2. ASSUME NEW u \in Threads, hands'[u].at \in {"done", "sleep", "return", "back"}
        PROVE  /\ hands'[u].for \in Callers
               /\ \/ /\ hands[u].at \in {"done", "sleep", "return", "back"}
                     /\ hands'[u].for = hands[u].for
                  \/ call'[hands'[u].for].failed = TRUE \/ call'[hands'[u].for].next > Chunks
    <3>1. CASE u = t
      BY <1>1, <1>5, <1>6, <2>2, <3>1
    <3>2. CASE u # t
      BY <1>5, <2>1, <2>2, <3>2
    <3>. QED
      BY <3>1, <3>2
  <2>3. \A d \in Callers : call[d].failed = TRUE => call'[d].failed = TRUE
    BY <1>6
  <2>. QED
    BY <1>6, <2>2, <2>3, DecidedKept
<1>. QED
  BY <1>9, <1>13, <1>14, <1>15, <1>16, <1>17 DEF ParallelInv

LEMMA CountOutStep ==
    ASSUME ParallelConstants, ParallelInv, NEW w \in Decoders, Decode!CountOut(w)
    PROVE  ParallelInv'
<1>0. PICK c : c = hands[w].for
  OBVIOUS
<1>1. /\ w \in Threads /\ w \notin Callers /\ c \in Callers /\ hands[w].at = "done" /\ tasks' = tasks
      /\ call' = [call EXCEPT ![c].pending = @ - 1] /\ hands' = [hands EXCEPT ![w].at = "notify"]
  BY <1>0, Types DEF ParallelInv, Decode!CountOut, Threads, ParallelConstants
<1>2. w \in HelpersOf(hands, c)
  BY <1>0, <1>1 DEF HelpersOf
<1>3. ASSUME NEW d \in Callers
      PROVE  /\ call[d].pending = Cardinality(Where(tasks, d)) + Cardinality(HelpersOf(hands, d))
             /\ Cardinality(Where(tasks, d)) \in Nat /\ Cardinality(HelpersOf(hands, d)) \in Nat
  BY WhereFinite, HelpersFinite DEF ParallelInv, Counted, CallsTyped
<1>4. call[c].pending - 1 \in Nat
  <2>1. Cardinality(HelpersOf(hands, c)) # 0
    <3>1. IsFiniteSet(HelpersOf(hands, c)) /\ HelpersOf(hands, c) # {}
      BY <1>2, HelpersFinite
    <3>. QED
      BY <3>1, FS_EmptySet
  <2>2. /\ call[c].pending = Cardinality(Where(tasks, c)) + Cardinality(HelpersOf(hands, c))
        /\ Cardinality(Where(tasks, c)) \in Nat /\ Cardinality(HelpersOf(hands, c)) \in Nat
    BY <1>1, <1>3
  <2>. QED
    BY <2>1, <2>2
<1>5. /\ call' \in [Callers -> Call]
      /\ \A d \in Callers :
            /\ call'[d].next = call[d].next /\ call'[d].failed = call[d].failed
            /\ call'[d].bad = call[d].bad /\ call'[d].decoded = call[d].decoded
            /\ call'[d].pending = call[d].pending - (IF c = d THEN 1 ELSE 0)
  <2>1. call[c] \in Call /\ \A d \in Callers : call[d].pending \in Nat
    BY <1>1, Types DEF ParallelInv
  <2>2. PICK n \in Nat : n = call[c].pending - 1
    BY <1>4
  <2>3. [call[c] EXCEPT !.pending = n] \in Call
    BY <2>1, <2>2 DEF Call
  <2>4. call' = [call EXCEPT ![c] = [call[c] EXCEPT !.pending = n]]
    BY <1>1, <2>2
  <2>5. call' \in [Callers -> Call]
    BY <1>1, <2>3, <2>4 DEF ParallelInv, CallsTyped
  <2>6. ASSUME NEW d \in Callers
        PROVE  /\ call'[d].next = call[d].next /\ call'[d].failed = call[d].failed
               /\ call'[d].bad = call[d].bad /\ call'[d].decoded = call[d].decoded
               /\ call'[d].pending = call[d].pending - (IF c = d THEN 1 ELSE 0)
    <3>1. CASE c = d
      BY <1>1, <2>1, <2>2, <2>4, <3>1 DEF ParallelInv, CallsTyped, Call
    <3>2. CASE c # d
      BY <1>1, <2>1, <2>4, <3>2 DEF ParallelInv, CallsTyped
    <3>. QED
      BY <3>1, <3>2
  <2>. QED
    BY <2>5, <2>6
<1>6. /\ hands'[w].at = "notify" /\ hands'[w].for = c
      /\ \A u \in Threads \ {w} : hands'[u] = hands[u]
      /\ CallsTyped'
  <2>1. "notify" \in WorkerStages \ {"idle"} /\ tasks' \in Seq(Callers)
    BY <1>1 DEF WorkerStages, ParallelInv, CallsTyped
  <2>. QED
    BY <1>0, <1>1, <1>5, <2>1, Moves
<1>7. Chunked' /\ Shared'
  BY <1>1, <1>5, <1>6, ChunksKept
<1>8. Counted'
  <2>1. ASSUME NEW d \in Callers
        PROVE  call'[d].pending = Cardinality(Where(tasks', d)) + Cardinality(HelpersOf(hands', d))
    <3>1. \A v \in Decoders \ {w} : v \in HelpersOf(hands, d) <=> v \in HelpersOf(hands', d)
      BY <1>6 DEF HelpersOf, Threads
    <3>2. w \notin HelpersOf(hands', d) /\ (w \in HelpersOf(hands, d) <=> c = d)
      BY <1>0, <1>1, <1>6 DEF HelpersOf
    <3>3. Cardinality(HelpersOf(hands', d)) \in Nat
      BY HelpersFinite
    <3>4. Cardinality(HelpersOf(hands, d)) = Cardinality(HelpersOf(hands', d)) + (IF c = d THEN 1 ELSE 0)
      <4>1. CASE c = d
        BY <3>1, <3>2, <4>1, HelpersJoin
      <4>2. CASE c # d
        <5>1. HelpersOf(hands', d) = HelpersOf(hands, d)
          BY <3>1, <3>2, <4>2, HelpersSame
        <5>. QED
          BY <3>3, <4>2, <5>1
      <4>. QED
        BY <4>1, <4>2
    <3>. QED
      BY <1>1, <1>3, <1>5, <3>3, <3>4
  <2>. QED
    BY <2>1 DEF Counted
<1>9. Returned'
  <2>1. ASSUME NEW d \in Callers, hands'[d].at \in {"return", "back"}
        PROVE  call'[d].pending = 0
    <3>1. call[d].pending = 0
      BY <1>1, <1>6, <2>1 DEF ParallelInv, Returned, Threads
    <3>2. c # d
      BY <1>1, <1>4, <3>1
    <3>. QED
      BY <1>5, <3>1, <3>2
  <2>. QED
    BY <2>1 DEF Returned
<1>10. Decided'
  <2>1. \A u \in Threads : hands[u].at # "idle" => hands[u].for \in Callers
    BY Types DEF ParallelInv
  <2>2. \A u \in Threads : hands'[u].at \in {"done", "sleep", "return", "back"} =>
           /\ hands[u].at \in {"done", "sleep", "return", "back"}
           /\ hands'[u].for = hands[u].for /\ hands'[u].for \in Callers
    BY <1>6, <2>1
  <2>. QED
    BY <1>5, <2>2, DecidedKept
<1>. QED
  BY <1>6, <1>7, <1>8, <1>9, <1>10 DEF ParallelInv

LEMMA NotifyStep ==
    ASSUME ParallelConstants, ParallelInv, NEW w \in Decoders, Decode!Notify(w)
    PROVE  ParallelInv'
<1>. DEFINE h == [for |-> Decode!Nobody, chunk |-> 0, at |-> "idle"]
<1>0. PICK c : c = hands[w].for
  OBVIOUS
<1>1. /\ w \in Threads /\ w \notin Callers /\ c \in Callers /\ hands[w].at = "notify" /\ tasks' = tasks
      /\ call' = [call EXCEPT ![c].asleep = FALSE] /\ hands' = [hands EXCEPT ![w] = h]
  BY <1>0, Types DEF ParallelInv, Decode!Notify, Threads, ParallelConstants
<1>2. /\ call' \in [Callers -> Call]
      /\ \A d \in Callers :
            /\ call'[d].next = call[d].next /\ call'[d].failed = call[d].failed
            /\ call'[d].bad = call[d].bad /\ call'[d].decoded = call[d].decoded
            /\ call'[d].pending = call[d].pending
  <2>1. call[c] \in Call
    BY <1>1, Types DEF ParallelInv
  <2>2. [call[c] EXCEPT !.asleep = FALSE] \in Call
    BY <2>1 DEF Call
  <2>. QED
    BY <1>1, <2>1, <2>2 DEF ParallelInv, CallsTyped, Call
<1>3. /\ hands'[w].for = Decode!Nobody /\ hands'[w].at = "idle"
      /\ \A u \in Threads \ {w} : hands'[u] = hands[u]
      /\ hands' \in [Threads -> Hand]
  <2>1. h \in Hand
    BY DEF Hand, WorkerStages, ParallelConstants
  <2>. QED
    BY <1>1, <2>1 DEF ParallelInv, CallsTyped
<1>. HIDE DEF h
<1>4. CallsTyped'
  <2>1. \A d \in Callers : hands'[d].for = d /\ hands'[d].at \in CallerStages
    BY <1>1, <1>3 DEF ParallelInv, CallsTyped, Threads
  <2>2. \A v \in Decoders : /\ hands'[v].at \in WorkerStages
                            /\ hands'[v].at = "idle" <=> hands'[v].for = Decode!Nobody
    BY <1>3 DEF ParallelInv, CallsTyped, Threads, WorkerStages
  <2>. QED
    BY <1>1, <1>2, <1>3, <2>1, <2>2 DEF ParallelInv, CallsTyped
<1>5. Chunked' /\ Shared'
  BY <1>1, <1>2, <1>3, <1>4, ChunksKept
<1>6. Counted'
  <2>1. ASSUME NEW d \in Callers
        PROVE  HelpersOf(hands', d) = HelpersOf(hands, d)
    <3>1. \A v \in Decoders : v \in HelpersOf(hands', d) <=> v \in HelpersOf(hands, d)
      BY <1>1, <1>3 DEF HelpersOf, Threads
    <3>. QED
      BY <3>1, HelpersSame
  <2>. QED
    BY <1>1, <1>2, <2>1 DEF ParallelInv, Counted
<1>7. Returned'
  BY <1>1, <1>2, <1>3 DEF ParallelInv, Returned, Threads
<1>8. Decided'
  <2>1. \A u \in Threads : hands[u].at # "idle" => hands[u].for \in Callers
    BY Types DEF ParallelInv
  <2>2. \A u \in Threads : hands'[u].at \in {"done", "sleep", "return", "back"} =>
           /\ hands[u].at \in {"done", "sleep", "return", "back"}
           /\ hands'[u].for = hands[u].for /\ hands'[u].for \in Callers
    BY <1>3, <2>1
  <2>. QED
    BY <1>2, <2>2, DecidedKept
<1>. QED
  BY <1>4, <1>5, <1>6, <1>7, <1>8 DEF ParallelInv

\* The caller that waits: it locks, sleeps or returns; its call changes but in its lock.
LEMMA WaitStep ==
    ASSUME ParallelConstants, ParallelInv, NEW c \in Callers, NEW a, NEW locked \in BOOLEAN,
           NEW sleeps \in BOOLEAN, hands[c].at \in {"done", "sleep", "return"},
           a \in {"done", "sleep", "return", "back"},
           a \in {"return", "back"} => call[c].pending = 0,
           call' = [call EXCEPT ![c] = [call[c] EXCEPT !.lock = locked, !.asleep = sleeps]],
           hands' = [hands EXCEPT ![c].at = a], tasks' = tasks
    PROVE  ParallelInv'
<1>1. c \in Threads /\ c \notin Decoders
  BY DEF Threads, ParallelConstants
<1>2. /\ call' \in [Callers -> Call]
      /\ \A d \in Callers :
            /\ call'[d].next = call[d].next /\ call'[d].failed = call[d].failed
            /\ call'[d].bad = call[d].bad /\ call'[d].decoded = call[d].decoded
            /\ call'[d].pending = call[d].pending
  <2>1. call[c] \in Call
    BY Types DEF ParallelInv
  <2>2. [call[c] EXCEPT !.lock = locked, !.asleep = sleeps] \in Call
    BY <2>1 DEF Call
  <2>. QED
    BY <2>1, <2>2 DEF ParallelInv, CallsTyped, Call
<1>3. /\ hands'[c].at = a /\ hands'[c].for = hands[c].for
      /\ \A u \in Threads \ {c} : hands'[u] = hands[u]
      /\ CallsTyped'
  <2>1. a \in CallerStages /\ tasks' \in Seq(Callers)
    BY DEF CallerStages, ParallelInv, CallsTyped
  <2>. QED
    BY <1>1, <1>2, <2>1, Moves
<1>4. Chunked' /\ Shared'
  BY <1>2, <1>3, ChunksKept
<1>5. Counted'
  BY <1>1, <1>2, <1>3, HelpKept DEF Threads
<1>6. Returned'
  BY <1>2, <1>3 DEF ParallelInv, Returned, Threads
<1>7. Decided'
  <2>1. \A u \in Threads : hands[u].at # "idle" => hands[u].for \in Callers
    BY Types DEF ParallelInv
  <2>2. \A u \in Threads : hands'[u].at \in {"done", "sleep", "return", "back"} =>
           /\ hands[u].at \in {"done", "sleep", "return", "back"}
           /\ hands'[u].for = hands[u].for /\ hands'[u].for \in Callers
    BY <1>3, <2>1
  <2>. QED
    BY <1>2, <2>2, DecidedKept
<1>. QED
  BY <1>3, <1>4, <1>5, <1>6, <1>7 DEF ParallelInv

LEMMA CallerWaits ==
    ASSUME ParallelConstants, ParallelInv, NEW c \in Callers,
           Decode!LockToWait(c) \/ Decode!Sleep(c) \/ Decode!Return(c)
    PROVE  ParallelInv'
<1>1. /\ call[c] \in Call /\ call[c].asleep \in BOOLEAN /\ call[c].lock \in BOOLEAN
      /\ call \in [Callers -> Call]
  BY Types DEF ParallelInv, Call, CallsTyped
<1>2. CASE Decode!LockToWait(c)
  <2>1. PICK a : a = IF Decode!HelpersLeft(c) THEN "sleep" ELSE "return"
    OBVIOUS
  <2>2. /\ hands[c].at = "done" /\ hands' = [hands EXCEPT ![c].at = a] /\ tasks' = tasks
        /\ call' = [call EXCEPT ![c].lock = TRUE]
    BY <1>2, <2>1 DEF Decode!LockToWait
  <2>3. call' = [call EXCEPT ![c] = [call[c] EXCEPT !.lock = TRUE, !.asleep = call[c].asleep]]
    BY <1>1, <2>2 DEF Call
  <2>4. a \in {"return", "back"} => call[c].pending = 0
    BY <2>1 DEF Decode!HelpersLeft
  <2>. QED
    BY <1>1, <2>1, <2>2, <2>3, <2>4, WaitStep
<1>3. CASE Decode!Sleep(c)
  <2>1. /\ hands[c].at = "sleep" /\ hands' = [hands EXCEPT ![c].at = "done"] /\ tasks' = tasks
        /\ call' = [call EXCEPT ![c] = [call[c] EXCEPT !.lock = FALSE, !.asleep = TRUE]]
    BY <1>1, <1>3 DEF Decode!Sleep
  <2>. QED
    BY <2>1, WaitStep
<1>4. CASE Decode!Return(c)
  <2>1. /\ hands[c].at = "return" /\ hands' = [hands EXCEPT ![c].at = "back"] /\ tasks' = tasks
        /\ call' = [call EXCEPT ![c].lock = FALSE]
    BY <1>4 DEF Decode!Return
  <2>2. call' = [call EXCEPT ![c] = [call[c] EXCEPT !.lock = FALSE, !.asleep = call[c].asleep]]
    BY <1>1, <2>1 DEF Call
  <2>3. call[c].pending = 0
    BY <2>1 DEF ParallelInv, Returned
  <2>. QED
    BY <1>1, <2>1, <2>2, <2>3, WaitStep
<1>. QED
  BY <1>2, <1>3, <1>4

-----------------------------------------------------------------------------
\* The theorem

LEMMA CallsStep == ASSUME ParallelConstants, ParallelInv, [Decode!Next]_Decode!vars PROVE ParallelInv'
<1>1. ASSUME NEW c \in Callers, Decode!Caller(c)
      PROVE  ParallelInv'
  <2>1. c \in Threads
    BY DEF Threads
  <2>. QED
    BY <1>1, <2>1, SubmitStep, FetchChunkStep, DecodeChunkStep, CallerWaits DEF Decode!Caller,
         Decode!Thread
<1>2. ASSUME NEW w \in Decoders, Decode!Worker(w)
      PROVE  ParallelInv'
  <2>1. w \in Threads
    BY DEF Threads
  <2>. QED
    BY <1>2, <2>1, TakeTaskStep, FetchChunkStep, DecodeChunkStep, CountOutStep, NotifyStep
    DEF Decode!Worker, Decode!Thread
<1>3. CASE UNCHANGED Decode!vars
  <2>1. CallsTyped' /\ Counted' /\ Returned' /\ Decided'
    BY <1>3 DEF Decode!vars, ParallelInv, CallsTyped, Counted, Returned, Decided
  <2>2. Chunked' /\ Shared'
    BY <1>3 DEF Decode!vars, ParallelInv, Chunked, Shared, HasChunk
  <2>. QED
    BY <2>1, <2>2 DEF ParallelInv
<1>. QED
  BY <1>1, <1>2, <1>3 DEF Decode!Next

LEMMA InvFramesWhole == ASSUME ParallelConstants, ParallelInv PROVE Decode!FramesWhole
<1>1. ASSUME NEW c \in Callers, hands[c].at = "back"
      PROVE  /\ \A w \in Decoders : hands[w].for = c => hands[w].at = "notify"
             /\ c \notin Decode!ToSet(tasks)
             /\ call[c].failed = (call[c].bad # {})
             /\ call[c].failed \/ \A k \in 1..Chunks : call[c].decoded[k] = 1
  <2>1. /\ IsFiniteSet(Where(tasks, c)) /\ Cardinality(Where(tasks, c)) \in Nat
        /\ IsFiniteSet(HelpersOf(hands, c)) /\ Cardinality(HelpersOf(hands, c)) \in Nat
    BY WhereFinite, HelpersFinite DEF ParallelInv, CallsTyped
  <2>2. Cardinality(Where(tasks, c)) + Cardinality(HelpersOf(hands, c)) = 0
    BY <1>1 DEF ParallelInv, Returned, Counted
  <2>3. Cardinality(Where(tasks, c)) = 0 /\ Cardinality(HelpersOf(hands, c)) = 0
    BY <2>1, <2>2
  <2>4. Where(tasks, c) = {} /\ HelpersOf(hands, c) = {}
    BY <2>1, <2>3, FS_EmptySet
  <2>5. c # Decode!Nobody
    BY DEF ParallelConstants
  <2>6. ASSUME NEW w \in Decoders, hands[w].for = c
        PROVE  hands[w].at = "notify"
    <3>1. hands[w].at \in WorkerStages /\ hands[w].at # "idle"
      BY <2>5, <2>6 DEF ParallelInv, CallsTyped
    <3>2. hands[w].at \notin {"work", "decode", "done"}
      BY <2>4, <2>6 DEF HelpersOf
    <3>. QED
      BY <3>1, <3>2 DEF WorkerStages
  <2>7. c \notin Decode!ToSet(tasks)
    BY <2>4 DEF Decode!ToSet, Where, ParallelInv, CallsTyped
  <2>8. \A t \in Threads, k \in 1..Chunks : ~HasChunk(t, c, k)
    <3>1. \A w \in Decoders : hands[w].for = c => hands[w].at # "decode"
      BY <2>6
    <3>2. \A d \in Callers : hands[d].for = d
      BY DEF ParallelInv, CallsTyped
    <3>. QED
      BY <1>1, <3>1, <3>2 DEF HasChunk, Threads
  <2>9. call[c].failed = TRUE \/ call[c].next > Chunks
    BY <1>1 DEF ParallelInv, CallsTyped, Decided, Threads
  <2>10. /\ call[c].next \in 1..(Chunks + 1) /\ call[c].bad \subseteq 1..Chunks
         /\ call[c].failed \in BOOLEAN /\ Chunks \in Nat
    BY Types DEF ParallelInv, ParallelConstants
  <2>11. ASSUME call[c].failed # TRUE, NEW k \in 1..Chunks
         PROVE  call[c].decoded[k] = 1 /\ k \notin call[c].bad
    <3>1. k < call[c].next
      <4>1. call[c].next > Chunks
        BY <2>9, <2>11, Zenon
      <4>. QED
        BY <2>10, <4>1
    <3>2. call[c].decoded[k] = 1
      BY <2>8, <2>11, <3>1 DEF ParallelInv, Shared
    <3>. QED
      BY <3>2 DEF ParallelInv, Shared
  <2>12. call[c].failed = TRUE => call[c].bad # {}
    BY DEF ParallelInv, Shared
  <2>13. CASE call[c].failed = TRUE
    BY <2>6, <2>7, <2>12, <2>13
  <2>14. CASE call[c].failed # TRUE
    <3>1. call[c].failed = FALSE
      BY <2>10, <2>14
    <3>2. call[c].bad = {}
      BY <2>10, <2>11, <2>14
    <3>. QED
      BY <2>6, <2>7, <2>11, <2>14, <3>1, <3>2
  <2>. QED
    BY <2>13, <2>14
<1>. QED
  BY <1>1 DEF Decode!FramesWhole

\* For any callers, workers, chunks and helpers: a call of bounded_parallel_for that has
\* returned left no task and no thread at its chunks, and unless a chunk was bad each was
\* decoded exactly once, though other calls share the executor and its queue may be full.
THEOREM DecodedWhole == ASSUME ParallelConstants PROVE Decode!Spec => []FramesWhole
<1>1. Decode!Init => ParallelInv
  BY InitCalls
<1>2. ParallelInv /\ [Decode!Next]_Decode!vars => ParallelInv'
  BY CallsStep
<1>3. ParallelInv => Decode!FramesWhole
  BY InvFramesWhole
<1>. QED
  BY <1>1, <1>2, <1>3, PTL DEF Decode!Spec, FramesWhole

-----------------------------------------------------------------------------
\* The way of a frame through the codec.  The loops of the coders are recursive functions: a
\* lemma gives each one's rounds (..Loop), and the rest is by induction on the rounds.

LEMMA SetInduction ==
    ASSUME NEW S, 0 \in S, \A n \in Nat : n \in S => n + 1 \in S
    PROVE  \A n \in Nat : n \in S
<1> DEFINE T == {n \in Nat : n \notin S}
<1> SUFFICES ASSUME T # {} PROVE FALSE
  OBVIOUS
<1>1. PICK x \in T : \A y \in T : x <= y
  BY LeastElement
<1>2. x \in Nat /\ x # 0 /\ x - 1 \in Nat
  OBVIOUS
<1>3. x - 1 \in S
  BY <1>1, <1>2
<1> QED
  BY <1>2, <1>3

LEMMA SetStrongInduction ==
    ASSUME NEW S, \A n \in Nat : (\A m \in 0..(n - 1) : m \in S) => n \in S
    PROVE  \A n \in Nat : n \in S
<1> DEFINE T == {n \in Nat : n \notin S}
<1> SUFFICES ASSUME T # {} PROVE FALSE
  OBVIOUS
<1>1. PICK x \in T : \A y \in T : x <= y
  BY LeastElement
<1>2. \A m \in 0..(x - 1) : m \in S
  BY <1>1
<1> QED
  BY <1>2

LEMMA UpTo ==
    ASSUME NEW n \in Nat, NEW S, 0 \in S, \A k \in 0..(n - 1) : k \in S => k + 1 \in S
    PROVE  \A k \in 0..n : k \in S
<1> DEFINE T == {k \in Nat : k <= n => k \in S}
<1>1. 0 \in T
  OBVIOUS
<1>2. \A k \in Nat : k \in T => k + 1 \in T
  OBVIOUS
<1>3. \A k \in Nat : k \in T
  <2> HIDE DEF T
  <2> QED BY <1>1, <1>2, SetInduction
<1> QED
  BY <1>3

LEMMA DownTo ==
    ASSUME NEW n \in Nat, NEW S, n \in S, \A k \in 0..(n - 1) : k + 1 \in S => k \in S
    PROVE  \A k \in 0..n : k \in S
<1> DEFINE T == {k \in 0..n : n - k \in S}
<1>1. 0 \in T
  OBVIOUS
<1>2. ASSUME NEW k \in 0..(n - 1), k \in T PROVE k + 1 \in T
  <2>1. n - (k + 1) \in 0..(n - 1) /\ n - (k + 1) + 1 = n - k
    OBVIOUS
  <2>2. n - k \in S
    BY <1>2
  <2>3. n - (k + 1) \in S
    BY <2>1, <2>2
  <2> QED BY <2>3
<1>3. \A k \in 0..n : k \in T
  <2> HIDE DEF T
  <2> QED BY <1>1, <1>2, UpTo
<1>4. ASSUME NEW k \in 0..n PROVE k \in S
  <2>1. n - k \in 0..n /\ n - (n - k) = k
    OBVIOUS
  <2>2. n - k \in T
    BY <2>1, <1>3
  <2> QED BY <2>1, <2>2
<1> QED
  BY <1>4

-----------------------------------------------------------------------------
\* Numbers of several digits

LEMMA DivMod ==
    ASSUME NEW a \in Nat, NEW b \in Nat, b > 0
    PROVE  /\ a \div b \in Nat /\ a % b \in Nat /\ a % b < b
           /\ a = b * (a \div b) + (a % b)
  OBVIOUS

LEMMA DivModUnique ==
    ASSUME NEW b \in Nat, NEW q \in Nat, NEW r \in Nat, r < b
    PROVE  (q * b + r) \div b = q /\ (q * b + r) % b = r
<1> DEFINE a == q * b + r
<1>1. a \in Nat /\ b > 0
  OBVIOUS
<1> DEFINE d == a \div b
           m == a % b
<1>2. d \in Nat /\ m \in Nat /\ m < b /\ a = (b * d) + m
  BY <1>1, DivMod
<1> HIDE DEF d, m
<1>3. b * (q - d) = m - r
  BY <1>2
<1>4. CASE q - d >= 1
  <2>1. b * (q - d) >= b
    BY <1>2, <1>4
  <2> QED BY <1>2, <1>3, <2>1
<1>5. CASE q - d <= -1
  <2>1. b * (q - d) <= -b
    BY <1>2, <1>5
  <2> QED BY <1>2, <1>3, <2>1
<1>6. CASE q = d
  BY <1>2, <1>6 DEF d, m
<1> QED
  BY <1>2, <1>4, <1>5, <1>6

LEMMA DivSmaller ==
    ASSUME NEW a \in Nat, NEW b \in Nat, b >= 2, a >= b
    PROVE  a \div b \in 0..(a - 1)
<1> DEFINE d == a \div b
           m == a % b
<1>1. d \in Nat /\ m \in Nat /\ a = (b * d) + m
  BY DivMod
<1> HIDE DEF d, m
<1>2. b * d >= 2 * d
  BY <1>1
<1>3. d < a
  BY <1>1, <1>2
<1> QED
  BY <1>1, <1>3 DEF d

\* The sequence d lies in p from place i on.
LiesAt(p, i, d) ==
    /\ i \in Nat /\ i >= 1 /\ i + Len(d) - 1 <= Len(p)
    /\ \A k \in 1..Len(d) : p[i + k - 1] = d[k]

LEMMA LiesAtParts ==
    ASSUME NEW T, NEW p, NEW i, NEW d \in Seq(T), NEW e \in Seq(T), LiesAt(p, i, d \o e), Len(p) \in Nat
    PROVE  LiesAt(p, i, d) /\ LiesAt(p, i + Len(d), e)
<1>1. Len(d \o e) = Len(d) + Len(e) /\ Len(d) \in Nat /\ Len(e) \in Nat
  OBVIOUS
<1>2. \A k \in 1..Len(d) : (d \o e)[k] = d[k]
  OBVIOUS
<1>3. \A k \in 1..Len(e) : (d \o e)[Len(d) + k] = e[k]
  OBVIOUS
<1>4. LiesAt(p, i, d)
  BY <1>1, <1>2 DEF LiesAt
<1>5. ASSUME NEW k \in 1..Len(e) PROVE p[i + Len(d) + k - 1] = e[k]
  <2>1. p[i + (Len(d) + k) - 1] = (d \o e)[Len(d) + k]
    <3>1. Len(d) + k \in 1..Len(d \o e)
      BY <1>1
    <3> QED BY <3>1 DEF LiesAt
  <2>2. i + (Len(d) + k) - 1 = i + Len(d) + k - 1
    BY <1>1 DEF LiesAt
  <2> QED BY <2>1, <2>2, <1>3
<1> QED
  BY <1>1, <1>4, <1>5 DEF LiesAt

LEMMA LiesAtOne ==
    ASSUME NEW p, NEW i, NEW x, LiesAt(p, i, <<x>>), Len(p) \in Nat
    PROVE  i \in 1..Len(p) /\ p[i] = x
<1>1. Len(<<x>>) = 1 /\ <<x>>[1] = x
  OBVIOUS
<1>2. i \in Nat /\ i >= 1 /\ i + 1 - 1 <= Len(p) /\ p[i + 1 - 1] = x
  BY <1>1 DEF LiesAt
<1>3. i + 1 - 1 = i
  BY <1>2
<1> QED
  BY <1>2, <1>3

LEMMA LiesAtHead ==
    ASSUME NEW T, NEW p, NEW i, NEW x \in T, NEW d \in Seq(T), LiesAt(p, i, <<x>> \o d), Len(p) \in Nat
    PROVE  i \in 1..Len(p) /\ p[i] = x /\ LiesAt(p, i + 1, d)
<1>1. <<x>> \in Seq(T) /\ Len(<<x>>) = 1
  OBVIOUS
<1>2. LiesAt(p, i, <<x>>) /\ LiesAt(p, i + Len(<<x>>), d)
  BY <1>1, LiesAtParts
<1> QED
  BY <1>1, <1>2, LiesAtOne

LEMMA VarUintLoop ==
    ASSUME NEW value \in Nat, NEW base \in Nat, base >= 2
    PROVE  \E f : /\ \A v \in 0..value : v < base => f[v] = <<v>>
                  /\ \A v \in 0..value :
                        v >= base => f[v] = <<(v % base) + base>> \o f[v \div base]
                  /\ Codec!VarUint(value, base) = f[value]
<1> DEFINE Quot(v) == v \div base
           Op(v, t) == <<(v % base) + base>> \o t
           Is(f, m) == f = [v \in 0..m |-> IF v < base THEN <<v>> ELSE Op(v, f[Quot(v)])]
           P(m) == \E f : Is(f, m)
           S == {m \in Nat : P(m)}
<1> HIDE DEF Op, P, Quot
<1>1. P(0)
  <2>1. Is([v \in 0..0 |-> <<v>>], 0)
    OBVIOUS
  <2> QED BY <2>1 DEF P
<1>2. ASSUME NEW m \in Nat, P(m) PROVE P(m + 1)
  <2>1. PICK f : Is(f, m)
    BY <1>2 DEF P
  <2> DEFINE g == [v \in 0..(m + 1) |-> IF v <= m THEN f[v]
                                        ELSE IF v < base THEN <<v>> ELSE Op(v, f[Quot(v)])]
  <2>2. ASSUME NEW v \in 0..(m + 1)
        PROVE  g[v] = IF v < base THEN <<v>> ELSE Op(v, g[Quot(v)])
    <3>1. CASE v < base
      BY <2>1, <3>1
    <3>2. CASE v >= base
      <4>1. Quot(v) \in 0..(v - 1)
        <5>1. v \in Nat
          OBVIOUS
        <5> QED BY <5>1, <3>2, DivSmaller DEF Quot
      <4>2. f[Quot(v)] = g[Quot(v)]
        BY <4>1
      <4>3. g[v] = Op(v, f[Quot(v)])
        <5>1. CASE v <= m
          <6>1. f[v] = IF v < base THEN <<v>> ELSE Op(v, f[Quot(v)])
            BY <2>1, <5>1
          <6>2. g[v] = f[v]
            BY <5>1
          <6> QED BY <6>1, <6>2, <3>2
        <5>2. CASE ~(v <= m)
          BY <5>2, <3>2
        <5> QED BY <5>1, <5>2
      <4> QED BY <3>2, <4>2, <4>3
    <3> QED BY <3>1, <3>2
  <2>3. \A v \in 0..(m + 1) : g[v] = IF v < base THEN <<v>> ELSE Op(v, g[Quot(v)])
    BY <2>2
  <2>4. Is(g, m + 1)
    BY <2>3
  <2> QED BY <2>4 DEF P
<1>3. 0 \in S /\ \A m \in Nat : m \in S => m + 1 \in S
  BY <1>1, <1>2
<1>4. value \in S
  <2> HIDE DEF S
  <2> QED BY <1>3, SetInduction
<1>5. Is(CHOOSE f : Is(f, value), value)
  BY <1>4, Zenon DEF P
<1> DEFINE R == CHOOSE f : Is(f, value)
<1>6. /\ \A v \in 0..value : v < base => R[v] = <<v>>
      /\ \A v \in 0..value : v >= base => R[v] = Op(v, R[Quot(v)])
  <2>1. R = [v \in 0..value |-> IF v < base THEN <<v>> ELSE Op(v, R[Quot(v)])]
    BY <1>5
  <2> HIDE DEF R
  <2>2. ASSUME NEW v \in 0..value
        PROVE  R[v] = IF v < base THEN <<v>> ELSE Op(v, R[Quot(v)])
    BY <2>1
  <2>3. \A v \in 0..value : v >= base => ~(v < base)
    OBVIOUS
  <2> QED BY <2>2, <2>3
<1>7. Codec!VarUint(value, base) = R[value]
  BY DEF Codec!VarUint, Op, Quot
<1> HIDE DEF R
<1> QED
  BY <1>6, <1>7 DEF Op, Quot

LEMMA ReadVarLoop ==
    ASSUME NEW p \in Seq(Nat), NEW base \in Nat
    PROVE  \E f : /\ \A j \in 1..Len(p) :
                        p[j] < base => f[j] = [ok |-> TRUE, value |-> p[j], next |-> j + 1]
                  /\ \A j \in 1..Len(p) :
                        p[j] >= base => f[j] = [ok |-> f[j + 1].ok,
                                               value |-> (p[j] % base) + base * f[j + 1].value,
                                               next |-> f[j + 1].next]
                  /\ \A i \in 1..(Len(p) + 1) : Codec!ReadVar(p, i, base) = f[i]
<1> DEFINE n == Len(p) + 1
           Ends(j) == [ok |-> TRUE, value |-> p[j], next |-> j + 1]
           More(j, t) == [ok |-> t.ok, value |-> (p[j] % base) + base * t.value, next |-> t.next]
           Op(j, t) == IF p[j] < base THEN Ends(j) ELSE More(j, t)
           Body(f, j) == IF j > Len(p) THEN Codec!Unread ELSE Op(j, f[j + 1])
           Is(f, m) == f = [j \in m..n |-> Body(f, j)]
           P(m) == \E f : Is(f, m)
           S == {m \in Nat : m <= Len(p) => P(n - m)}
<1>n. n \in Nat /\ n = Len(p) + 1 /\ Len(p) \in Nat
  OBVIOUS
<1> HIDE DEF Op, P, n, Ends, More
<1>1. P(n)
  <2>1. Is([j \in n..n |-> Codec!Unread], n)
    BY <1>n
  <2> QED BY <2>1 DEF P
<1>2. ASSUME NEW m \in 1..Len(p), P(m + 1) PROVE P(m)
  <2>1. PICK f : Is(f, m + 1)
    BY <1>2 DEF P
  <2> DEFINE g == [j \in m..n |-> IF j > m THEN f[j] ELSE Op(m, f[m + 1])]
  <2>3. ASSUME NEW j \in m..n PROVE g[j] = Body(g, j)
    <3>1. CASE j = n
      BY <2>1, <3>1, <1>n
    <3>2. CASE j > m /\ j < n
      <4>1. g[j] = f[j] /\ g[j + 1] = f[j + 1]
        BY <3>2, <1>n
      <4>2. f[j] = Body(f, j)
        <5>1. j \in (m + 1)..n
          BY <3>2, <1>n
        <5> HIDE DEF Body
        <5> QED BY <5>1, <2>1
      <4> QED BY <4>1, <4>2
    <3>3. CASE j = m
      <4>1. g[j] = Op(m, f[m + 1]) /\ g[j + 1] = f[m + 1]
        BY <3>3, <1>n
      <4> QED BY <4>1, <3>3, <1>n
    <3> QED BY <3>1, <3>2, <3>3, <1>n
  <2>4. \A j \in m..n : g[j] = Body(g, j)
    BY <2>3
  <2>5. Is(g, m)
    <3> HIDE DEF Body
    <3> QED BY <2>4
  <2> QED BY <2>5 DEF P
<1>3. 0 \in S
  BY <1>1, <1>n
<1>4. ASSUME NEW m \in Nat, m \in S PROVE m + 1 \in S
  <2> SUFFICES ASSUME m + 1 <= Len(p) PROVE P(n - (m + 1))
    OBVIOUS
  <2>1. P(n - m) /\ n - (m + 1) \in 1..Len(p) /\ n - (m + 1) + 1 = n - m
    BY <1>4, <1>n
  <2> QED BY <2>1, <1>2
<1>5. Len(p) \in S
  <2> HIDE DEF S
  <2> QED BY <1>3, <1>4, <1>n, SetInduction
<1>6. P(1)
  <2>1. n - Len(p) = 1
    BY <1>n
  <2> QED BY <1>5, <2>1, <1>n
<1>7. Is(CHOOSE f : Is(f, 1), 1)
  BY <1>6, Zenon DEF P
<1> DEFINE R == CHOOSE f : Is(f, 1)
<1>8. \A i \in 1..n : Codec!ReadVar(p, i, base) = R[i]
  BY DEF Codec!ReadVar, Op, n, Ends, More
<1>9. \A j \in 1..Len(p) : R[j] = Op(j, R[j + 1])
  <2> SUFFICES ASSUME NEW j \in 1..Len(p) PROVE R[j] = Op(j, R[j + 1])
    OBVIOUS
  <2>1. j \in 1..n
    BY <1>n
  <2>2. R[j] = Body(R, j)
    <3> HIDE DEF R, Body
    <3> QED BY <2>1, <1>7 DEF R
  <2> QED BY <2>2
<1>10. \A j \in 1..Len(p) : p[j] < base => R[j] = Ends(j)
  BY <1>9 DEF Op
<1>11. \A j \in 1..Len(p) : p[j] >= base => R[j] = More(j, R[j + 1])
  <2> SUFFICES ASSUME NEW j \in 1..Len(p), p[j] >= base PROVE R[j] = More(j, R[j + 1])
    OBVIOUS
  <2>1. p[j] \in Nat /\ ~(p[j] < base)
    OBVIOUS
  <2> QED BY <1>9, <2>1 DEF Op
<1> HIDE DEF R
<1> QED
  BY <1>8, <1>10, <1>11 DEF n, Ends, More

\* The digits of a number
LEMMA MarkedDigit ==
    ASSUME NEW v \in Nat, NEW base \in Nat, base >= 2
    PROVE  /\ (v % base) + base \in Nat /\ (v % base) + base >= base
           /\ (((v % base) + base) % base) + base * (v \div base) = v
<1> DEFINE r == v % base
           q == v \div base
<1>1. r \in Nat /\ r < base /\ v = base * q + r /\ q \in Nat
  BY DivMod
<1> HIDE DEF r, q
<1>2. (1 * base + r) % base = r
  BY <1>1, DivModUnique
<1>3. 1 * base + r = r + base
  BY <1>1
<1> QED
  BY <1>1, <1>2, <1>3 DEF r, q

\* What was written is read: the number, and where the next begins.
LEMMA VarUintRead ==
    ASSUME NEW p \in Seq(Nat), NEW base \in Nat, base >= 2, NEW value \in Nat
    PROVE  /\ Codec!VarUint(value, base) \in Seq(Nat) /\ Len(Codec!VarUint(value, base)) >= 1
           /\ \A i \in Nat : LiesAt(p, i, Codec!VarUint(value, base)) =>
                 Codec!ReadVar(p, i, base) =
                     [ok |-> TRUE, value |-> value, next |-> i + Len(Codec!VarUint(value, base))]
<1>1. PICK d : /\ \A v \in 0..value : v < base => d[v] = <<v>>
               /\ \A v \in 0..value : v >= base => d[v] = <<(v % base) + base>> \o d[v \div base]
               /\ Codec!VarUint(value, base) = d[value]
  BY VarUintLoop
<1>2. PICK f : /\ \A j \in 1..Len(p) :
                     p[j] < base => f[j] = [ok |-> TRUE, value |-> p[j], next |-> j + 1]
               /\ \A j \in 1..Len(p) :
                     p[j] >= base => f[j] = [ok |-> f[j + 1].ok,
                                               value |-> (p[j] % base) + base * f[j + 1].value,
                                               next |-> f[j + 1].next]
               /\ \A i \in 1..(Len(p) + 1) : Codec!ReadVar(p, i, base) = f[i]
  BY ReadVarLoop
<1>l. Len(p) \in Nat
  OBVIOUS
<1> DEFINE Quot(v) == v \div base
           Digit(v) == (v % base) + base
           Got(v, j) == [ok |-> TRUE, value |-> v, next |-> j]
           Q(v) == /\ d[v] \in Seq(Nat) /\ Len(d[v]) >= 1
                   /\ \A i \in Nat : LiesAt(p, i, d[v]) => f[i] = Got(v, i + Len(d[v]))
           S == {v \in Nat : v <= value => Q(v)}
<1>d. /\ \A v \in 0..value : v < base => d[v] = <<v>>
      /\ \A v \in 0..value : v >= base => d[v] = <<Digit(v)>> \o d[Quot(v)]
  BY <1>1
<1>3. ASSUME NEW v \in Nat, v <= value, \A w \in 0..(v - 1) : Q(w) PROVE Q(v)
  <2>1. CASE v < base
    <3>1. d[v] = <<v>>
      BY <1>d, <1>3, <2>1
    <3>2. ASSUME NEW i \in Nat, LiesAt(p, i, <<v>>) PROVE f[i] = Got(v, i + 1)
      <4>1. i \in 1..Len(p) /\ p[i] = v
        BY <3>2, <1>l, LiesAtOne
      <4> QED BY <4>1, <1>2, <2>1
    <3>3. Len(d[v]) = 1 /\ d[v] \in Seq(Nat)
      BY <3>1
    <3> HIDE DEF Got
    <3> QED BY <3>1, <3>2, <3>3
  <2>2. CASE v >= base
    <3> DEFINE q == Quot(v)
               x == Digit(v)
    <3>1. q \in 0..(v - 1)
      BY <2>2, DivSmaller
    <3>2. x \in Nat /\ x >= base /\ (x % base) + base * q = v
      BY MarkedDigit
    <3>3. d[v] = <<x>> \o d[q]
      <4> HIDE DEF Quot, Digit
      <4> QED BY <1>d, <1>3, <2>2
    <3> HIDE DEF q, x
    <3>4. d[q] \in Seq(Nat) /\ Len(d[q]) >= 1
      BY <1>3, <3>1
    <3>9. Len(d[q]) \in Nat
      BY <3>4
    <3>5. ASSUME NEW i \in Nat, LiesAt(p, i, d[q]) PROVE f[i] = Got(q, i + Len(d[q]))
      <4> HIDE DEF Got
      <4> QED BY <1>3, <3>1, <3>5
    <3>6. d[v] \in Seq(Nat) /\ Len(d[v]) = Len(d[q]) + 1
      BY <3>2, <3>3, <3>4
    <3>7. ASSUME NEW i \in Nat, LiesAt(p, i, d[v]) PROVE f[i] = Got(v, i + Len(d[v]))
      <4>1. LiesAt(p, i, <<x>> \o d[q])
        BY <3>3, <3>7
      <4>2. i \in 1..Len(p) /\ p[i] = x /\ LiesAt(p, i + 1, d[q])
        BY <4>1, <3>2, <3>4, <1>l, LiesAtHead
      <4>3. f[i + 1] = Got(q, i + 1 + Len(d[q]))
        <5>1. i + 1 \in Nat
          OBVIOUS
        <5> HIDE DEF Got
        <5> QED BY <5>1, <4>2, <3>5
      <4>4. f[i] = [ok |-> f[i + 1].ok, value |-> (x % base) + base * f[i + 1].value, next |-> f[i + 1].next]
        BY <4>2, <1>2, <3>2
      <4>5. f[i + 1].ok = TRUE /\ f[i + 1].value = q /\ f[i + 1].next = i + 1 + Len(d[q])
        BY <4>3
      <4>6. f[i] = Got((x % base) + base * q, i + 1 + Len(d[q]))
        BY <4>4, <4>5
      <4>7. i + 1 + Len(d[q]) = i + Len(d[v])
        <5> DEFINE a == Len(d[q])
                   b == Len(d[v])
        <5>1. a \in Nat /\ b = a + 1
          BY <3>9, <3>6
        <5> HIDE DEF a, b
        <5>2. i + 1 + a = i + b
          BY <5>1
        <5> QED BY <5>2 DEF a, b
      <4> HIDE DEF Got
      <4> QED BY <4>6, <4>7, <3>2
    <3>8. Len(d[v]) >= 1
      BY <3>4, <3>6
    <3> HIDE DEF Got
    <3> QED BY <3>6, <3>7, <3>8
  <2> HIDE DEF Q
  <2> QED BY <2>1, <2>2
<1>4. \A v \in Nat : v \in S
  <2>1. ASSUME NEW v \in Nat, \A w \in 0..(v - 1) : w \in S PROVE v \in S
    <3> HIDE DEF Q
    <3>1. ASSUME v <= value, NEW w \in 0..(v - 1) PROVE Q(w)
      BY <2>1, <3>1
    <3> QED BY <1>3, <3>1
  <2> HIDE DEF S
  <2> QED BY <2>1, SetStrongInduction
<1>5. Q(value)
  <2> HIDE DEF Q
  <2> QED BY <1>4
<1>6. ASSUME NEW i \in Nat, LiesAt(p, i, d[value])
      PROVE  Codec!ReadVar(p, i, base) = [ok |-> TRUE, value |-> value, next |-> i + Len(d[value])]
  <2>1. i \in 1..(Len(p) + 1)
    BY <1>5, <1>6 DEF LiesAt
  <2> QED BY <2>1, <1>2, <1>5, <1>6
<1> QED
  BY <1>1, <1>5, <1>6

-----------------------------------------------------------------------------
\* Runs of samples and of differences

LEMMA SubSeqAppend ==
    ASSUME NEW T, NEW s \in Seq(T), NEW m \in Nat, m < Len(s)
    PROVE  Append(SubSeq(s, 1, m), s[m + 1]) = SubSeq(s, 1, m + 1)
  OBVIOUS

LEMMA SubSeqZeros ==
    ASSUME NEW s \in Seq(Nat), NEW m \in Nat, NEW z \in Nat, m + z <= Len(s),
           \A k \in (m + 1)..(m + z) : s[k] = 0
    PROVE  SubSeq(s, 1, m) \o Codec!Zeros(z) = SubSeq(s, 1, m + z)
<1> DEFINE a == SubSeq(s, 1, m) \o Codec!Zeros(z)
           b == SubSeq(s, 1, m + z)
<1>1. Codec!Zeros(z) \in Seq(Nat) /\ Len(Codec!Zeros(z)) = z /\ \A k \in 1..z : Codec!Zeros(z)[k] = 0
  BY DEF Codec!Zeros
<1>2. SubSeq(s, 1, m) \in Seq(Nat) /\ Len(SubSeq(s, 1, m)) = m
  OBVIOUS
<1>3. a \in Seq(Nat) /\ Len(a) = m + z
  BY <1>1, <1>2
<1>4. b \in Seq(Nat) /\ Len(b) = m + z
  OBVIOUS
<1>5. \A k \in 1..(m + z) : a[k] = b[k]
  <2> TAKE k \in 1..(m + z)
  <2>1. CASE k <= m
    BY <1>1, <1>2, <2>1
  <2>2. CASE ~(k <= m)
    <3>1. k - m \in 1..z /\ k > m
      BY <2>2
    <3>2. a[k] = Codec!Zeros(z)[k - m]
      BY <1>1, <1>2, <3>1
    <3> QED BY <1>1, <3>1, <3>2
  <2> QED BY <2>1, <2>2
<1> HIDE DEF a, b
<1>6. a = b
  BY <1>3, <1>4, <1>5
<1> QED
  BY <1>6 DEF a, b

LEMMA ZigZagBack ==
    ASSUME NEW d \in Int
    PROVE  Codec!ZigZag(d) \in Nat /\ Codec!UnZigZag(Codec!ZigZag(d)) = d
<1>1. CASE d >= 0
  <2>1. (2 * d) % 2 = 0 /\ (2 * d) \div 2 = d
    BY <1>1
  <2> QED BY <1>1, <2>1 DEF Codec!ZigZag, Codec!UnZigZag
<1>2. CASE d < 0
  <2>1. (-2 * d - 1) % 2 = 1 /\ (-2 * d - 1 + 1) \div 2 = -d /\ -2 * d - 1 \in Nat
    BY <1>2
  <2> QED BY <1>2, <2>1 DEF Codec!ZigZag, Codec!UnZigZag
<1> QED
  BY <1>1, <1>2

LEMMA RunAfterEnds ==
    ASSUME NEW s \in Seq(Nat), NEW i \in 0..Len(s), NEW zero \in BOOLEAN, NEW most \in Nat
    PROVE  /\ Codec!RunAfter(s, i, zero, most) \in 0..most
           /\ i + Codec!RunAfter(s, i, zero, most) <= Len(s)
           /\ \A k \in (i + 1)..(i + Codec!RunAfter(s, i, zero, most)) : (s[k] = 0) <=> zero
           /\ most > 0 /\ Codec!Continues(s, i, zero) => Codec!RunAfter(s, i, zero, most) > 0
<1> DEFINE Goes(k) == Codec!Continues(s, i + k, zero)
           T == {n \in 0..most : n = most \/ ~Goes(n)}
<1> HIDE DEF Goes
<1>1. T \subseteq Nat /\ T # {}
  OBVIOUS
<1>2. PICK n \in T : \A m \in T : n <= m
  BY <1>1, LeastElement
<1>3. \A k \in 0..(n - 1) : Goes(k)
  <2> SUFFICES ASSUME NEW k \in 0..(n - 1), ~Goes(k) PROVE FALSE
    OBVIOUS
  <2>1. k \in T /\ k < n
    OBVIOUS
  <2> QED BY <1>2, <2>1
<1> DEFINE Ends(m) == (\A k \in 0..(m - 1) : Goes(k)) /\ (m = most \/ ~Goes(m))
           r == CHOOSE m \in 0..most : Ends(m)
<1>4. n \in 0..most /\ Ends(n)
  BY <1>3
<1>5. r \in 0..most /\ Ends(r)
  <2> HIDE DEF Ends
  <2> QED BY <1>4
<1>6. Codec!RunAfter(s, i, zero, most) = r
  BY DEF Codec!RunAfter, Goes
<1> HIDE DEF r
<1>7. \A k \in 0..(r - 1) : i + k < Len(s) /\ ((s[i + k + 1] = 0) <=> zero)
  BY <1>5 DEF Goes, Codec!Continues
<1>8. \A k \in (i + 1)..(i + r) : (s[k] = 0) <=> zero
  <2> TAKE k \in (i + 1)..(i + r)
  <2>1. k - i - 1 \in 0..(r - 1) /\ i + (k - i - 1) + 1 = k
    BY <1>5
  <2> QED BY <1>7, <2>1
<1>9. i + r <= Len(s)
  <2>1. CASE r = 0
    BY <2>1
  <2>2. CASE r > 0
    <3>1. r - 1 \in 0..(r - 1)
      BY <1>5, <2>2
    <3>2. i + (r - 1) < Len(s) /\ Len(s) \in Nat
      BY <1>7, <3>1
    <3> QED BY <1>5, <3>2
  <2> QED BY <1>5, <2>1, <2>2
<1>10. most > 0 /\ Codec!Continues(s, i, zero) => r > 0
  <2>1. i + 0 = i
    OBVIOUS
  <2>2. Codec!Continues(s, i, zero) => Goes(0)
    BY <2>1 DEF Goes
  <2> QED BY <1>5, <2>2
<1> QED
  BY <1>5, <1>6, <1>8, <1>9, <1>10


\* The value that the k-th difference is from, its digits, and what is written after k of them
ValueBefore(s, i, previous, k) == IF k = 1 THEN previous ELSE s[i + k - 1]
Difference(s, i, previous, base, k) ==
    Codec!VarUint(Codec!ZigZag(s[i + k] - ValueBefore(s, i, previous, k)), base)
WritesDeltas(f, s, i, n, previous, base) ==
    /\ f[0] = <<>>
    /\ \A k \in 0..(n - 1) : f[k + 1] = f[k] \o Difference(s, i, previous, base, k + 1)
    /\ Codec!Deltas(s, i, n, previous, base) = f[n]

LEMMA DeltasLoop ==
    ASSUME NEW s, NEW i, NEW n \in Nat, NEW previous, NEW base
    PROVE  \E f : WritesDeltas(f, s, i, n, previous, base)
<1> DEFINE Op(t, k) == t \o Codec!VarUint(Codec!ZigZag(
                               s[i + k] - (IF k = 1 THEN previous ELSE s[i + k - 1])), base)
           Is(f, m) == f = [k \in 0..m |-> IF k = 0 THEN <<>> ELSE Op(f[k - 1], k)]
           P(m) == \E f : Is(f, m)
           S == {m \in Nat : P(m)}
<1> HIDE DEF Op, P
<1>1. P(0)
  <2>1. Is([k \in 0..0 |-> <<>>], 0)
    OBVIOUS
  <2> QED BY <2>1 DEF P
<1>2. ASSUME NEW m \in Nat, P(m) PROVE P(m + 1)
  <2>1. PICK f : Is(f, m)
    BY <1>2 DEF P
  <2> DEFINE g == [k \in 0..(m + 1) |-> IF k <= m THEN f[k] ELSE Op(f[m], m + 1)]
  <2>2. \A k \in 0..(m + 1) : g[k] = IF k = 0 THEN <<>> ELSE Op(g[k - 1], k)
    BY <2>1
  <2>3. Is(g, m + 1)
    BY <2>2
  <2> QED BY <2>3 DEF P
<1>3. 0 \in S /\ \A m \in Nat : m \in S => m + 1 \in S
  BY <1>1, <1>2
<1>4. n \in S
  <2> HIDE DEF S
  <2> QED BY <1>3, SetInduction
<1> DEFINE R == CHOOSE f : Is(f, n)
<1>5. Is(R, n)
  BY <1>4, Zenon DEF P
<1>6. Codec!Deltas(s, i, n, previous, base) = R[n]
  BY DEF Codec!Deltas, Op
<1> HIDE DEF R
<1>7. R[0] = <<>> /\ \A k \in 0..(n - 1) : R[k + 1] = Op(R[k], k + 1)
  BY <1>5
<1>8. WritesDeltas(R, s, i, n, previous, base)
  BY <1>6, <1>7, Zenon DEF Op, WritesDeltas, Difference, ValueBefore
<1> QED
  BY <1>8

ReadsDeltas(f, p, r, n, step, base) ==
    /\ f[0] = r
    /\ \A k \in 0..(n - 1) : f[k + 1] = Codec!Delta(p, f[k], step, base)
    /\ Codec!Run(p, r, n, step, base) = f[n]

LEMMA RunLoop ==
    ASSUME NEW p, NEW r, NEW n \in Nat, NEW step, NEW base
    PROVE  \E f : ReadsDeltas(f, p, r, n, step, base)
<1> DEFINE Op(t) == Codec!Delta(p, t, step, base)
           Is(f, m) == f = [k \in 0..m |-> IF k = 0 THEN r ELSE Op(f[k - 1])]
           P(m) == \E f : Is(f, m)
           S == {m \in Nat : P(m)}
<1> HIDE DEF Op, P
<1>1. P(0)
  <2>1. Is([k \in 0..0 |-> r], 0)
    OBVIOUS
  <2> QED BY <2>1 DEF P
<1>2. ASSUME NEW m \in Nat, P(m) PROVE P(m + 1)
  <2>1. PICK f : Is(f, m)
    BY <1>2 DEF P
  <2> DEFINE g == [k \in 0..(m + 1) |-> IF k <= m THEN f[k] ELSE Op(f[m])]
  <2>2. \A k \in 0..(m + 1) : g[k] = IF k = 0 THEN r ELSE Op(g[k - 1])
    BY <2>1
  <2>3. Is(g, m + 1)
    BY <2>2
  <2> QED BY <2>3 DEF P
<1>3. 0 \in S /\ \A m \in Nat : m \in S => m + 1 \in S
  BY <1>1, <1>2
<1>4. n \in S
  <2> HIDE DEF S
  <2> QED BY <1>3, SetInduction
<1> DEFINE R == CHOOSE f : Is(f, n)
<1>5. Is(R, n)
  BY <1>4, Zenon DEF P
<1>6. Codec!Run(p, r, n, step, base) = R[n]
  BY DEF Codec!Run, Op
<1> HIDE DEF R
<1>7. R[0] = r /\ \A k \in 0..(n - 1) : R[k + 1] = Op(R[k])
  BY <1>5
<1>8. ReadsDeltas(R, p, r, n, step, base)
  BY <1>6, <1>7, Zenon DEF Op, ReadsDeltas
<1> QED
  BY <1>8

\* The decoder after so many samples
Reached(next, previous, samples) ==
    [ok |-> TRUE, next |-> next, previous |-> previous, samples |-> samples]

\* One difference, and then as many as there are.
LEMMA DeltaRead ==
    ASSUME NEW p \in Seq(Nat), NEW base \in Nat, base >= 2, MaxRaw \in Nat,
           NEW j \in Nat, NEW previous \in Nat, NEW x \in 0..MaxRaw, NEW samples,
           LiesAt(p, j, Codec!VarUint(Codec!ZigZag(x - previous), base))
    PROVE  Codec!Delta(p, Reached(j, previous, samples), 1, base) =
               Reached(j + Len(Codec!VarUint(Codec!ZigZag(x - previous), base)), x, Append(samples, x))
<1> DEFINE z == Codec!ZigZag(x - previous)
           v == Codec!ReadVar(p, j, base)
           l == Len(Codec!VarUint(z, base))
           r == Reached(j, previous, samples)
<1>1. z \in Nat /\ Codec!UnZigZag(z) = x - previous
  <2>1. x - previous \in Int
    OBVIOUS
  <2> QED BY <2>1, ZigZagBack
<1> HIDE DEF z
<1>2. v = [ok |-> TRUE, value |-> z, next |-> j + l]
  BY <1>1, VarUintRead DEF z
<1> HIDE DEF l
<1>3. r.ok = TRUE /\ r.next = j /\ r.previous = previous /\ r.samples = samples
  BY DEF Reached
<1>4. v.ok = TRUE /\ v.value = z /\ v.next = j + l
  BY <1>2
<1>5. previous + Codec!UnZigZag(z) = x /\ ~(x < 0)
  BY <1>1
<1>6. Codec!Clamp(x * 1, 0, MaxRaw) = x
  BY DEF Codec!Clamp
<1> HIDE DEF v, r
<1>7. Codec!Delta(p, r, 1, base) = [ok |-> TRUE, next |-> j + l, previous |-> x,
                                    samples |-> Append(samples, Codec!Clamp(x * 1, 0, MaxRaw))]
  BY <1>3, <1>4, <1>5 DEF Codec!Delta, v
<1> QED
  BY <1>6, <1>7 DEF Reached, l, z, r

\* Samples of 16 bits, say
Raw(s) == \A k \in 1..Len(s) : s[k] <= MaxRaw

LEMMA DeltasParts ==
    ASSUME NEW base \in Nat, base >= 2, NEW s \in Seq(Nat), NEW i \in Nat, NEW n \in Nat,
           i + n <= Len(s), NEW previous \in Nat
    PROVE  /\ \A k \in 1..n : Difference(s, i, previous, base, k) \in Seq(Nat)
           /\ \A f : WritesDeltas(f, s, i, n, previous, base) => \A k \in 0..n : f[k] \in Seq(Nat)
<1> SUFFICES ASSUME NEW f
             PROVE  /\ \A k \in 1..n : Difference(s, i, previous, base, k) \in Seq(Nat)
                    /\ WritesDeltas(f, s, i, n, previous, base) => \A k \in 0..n : f[k] \in Seq(Nat)
  OBVIOUS
<1> DEFINE V(k) == Difference(s, i, previous, base, k)
           S == {k \in 0..n : f[k] \in Seq(Nat)}
<1>3. ASSUME NEW k \in 1..n PROVE V(k) \in Seq(Nat)
  <2> DEFINE d == s[i + k] - ValueBefore(s, i, previous, k)
  <2>1. s[i + k] \in Nat /\ (k > 1 => s[i + k - 1] \in Nat)
    OBVIOUS
  <2>2. d \in Int
    BY <2>1 DEF ValueBefore
  <2> HIDE DEF d
  <2>3. Codec!ZigZag(d) \in Nat
    BY <2>2, ZigZagBack
  <2>4. <<>> \in Seq(Nat)
    OBVIOUS
  <2>5. Codec!VarUint(Codec!ZigZag(d), base) \in Seq(Nat)
    BY <2>3, <2>4, VarUintRead
  <2> QED BY <2>5 DEF Difference, d
<1> HIDE DEF V
<1>4. ASSUME WritesDeltas(f, s, i, n, previous, base) PROVE \A k \in 0..n : k \in S
  <2>1. f[0] = <<>> /\ \A k \in 0..(n - 1) : f[k + 1] = f[k] \o V(k + 1)
    BY <1>4, Zenon DEF WritesDeltas, V
  <2>2. 0 \in S
    <3>1. f[0] = <<>> /\ <<>> \in Seq(Nat)
      BY <2>1
    <3>2. f[0] \in Seq(Nat) /\ 0 \in 0..n
      BY <3>1
    <3> QED BY <3>2
  <2>3. ASSUME NEW k \in 0..(n - 1), k \in S PROVE k + 1 \in S
    <3>1. k + 1 \in 1..n /\ k + 1 - 1 = k
      OBVIOUS
    <3>2. f[k + 1] = f[k] \o V(k + 1)
      BY <2>1
    <3>3. f[k] \in Seq(Nat) /\ V(k + 1) \in Seq(Nat)
      BY <1>3, <2>3, <3>1
    <3>4. f[k + 1] \in Seq(Nat)
      BY <3>2, <3>3
    <3> QED BY <3>1, <3>4
  <2> HIDE DEF S
  <2> QED BY <2>2, <2>3, UpTo
<1>5. \A k \in 1..n : V(k) \in Seq(Nat)
  BY <1>3
<1> QED
  BY <1>4, <1>5 DEF V

\* The differences that were written are read, and the samples are those that they came from.
LEMMA DeltasRead ==
    ASSUME NEW p \in Seq(Nat), NEW base \in Nat, base >= 2, MaxRaw \in Nat,
           NEW s \in Seq(Nat), Raw(s), NEW i \in Nat, NEW n \in Nat, i + n <= Len(s),
           NEW previous \in Nat, NEW j \in Nat,
           LiesAt(p, j, Codec!Deltas(s, i, n, previous, base))
    PROVE  Codec!Run(p, Reached(j, previous, SubSeq(s, 1, i)), n, 1, base) =
               Reached(j + Len(Codec!Deltas(s, i, n, previous, base)),
                       ValueBefore(s, i, previous, n + 1), SubSeq(s, 1, i + n))
<1> DEFINE V(k) == Difference(s, i, previous, base, k)
           Before(k) == ValueBefore(s, i, previous, k)
           r == Reached(j, previous, SubSeq(s, 1, i))
<1>1. PICK w : WritesDeltas(w, s, i, n, previous, base)
  BY DeltasLoop
<1>w. /\ w[0] = <<>> /\ Codec!Deltas(s, i, n, previous, base) = w[n]
      /\ \A k \in 0..(n - 1) : w[k + 1] = w[k] \o V(k + 1)
  BY <1>1, Zenon DEF WritesDeltas
<1>v. (\A k \in 1..n : V(k) \in Seq(Nat)) /\ \A k \in 0..n : w[k] \in Seq(Nat)
  BY <1>1, DeltasParts
<1>2. PICK f : ReadsDeltas(f, p, r, n, 1, base)
  <2> HIDE DEF r
  <2> QED BY RunLoop
<1>f. /\ f[0] = r /\ Codec!Run(p, r, n, 1, base) = f[n]
      /\ \A k \in 0..(n - 1) : f[k + 1] = Codec!Delta(p, f[k], 1, base)
  BY <1>2, Zenon DEF ReadsDeltas
<1>l. Len(p) \in Nat /\ Len(s) \in Nat
  OBVIOUS
<1>3. ASSUME NEW k \in 0..(n - 1)
      PROVE  /\ k + 1 \in 1..n /\ k + 1 - 1 = k /\ k \in 0..n /\ k + 1 \in 0..n
             /\ i + (k + 1) = i + k + 1 /\ i + (k + 1) \in 1..Len(s) /\ k + 1 + 1 - 1 = k + 1
  BY <1>l
<1>4. ASSUME NEW k \in 0..(n - 1)
      PROVE  w[k] \in Seq(Nat) /\ V(k + 1) \in Seq(Nat) /\ w[k + 1] = w[k] \o V(k + 1)
  <2> HIDE DEF V
  <2>1. w[k + 1] = w[k] \o V(k + 1)
    BY <1>w, Zenon
  <2>2. w[k] \in Seq(Nat) /\ V(k + 1) \in Seq(Nat)
    BY <1>v, <1>3, Zenon
  <2> QED BY <2>1, <2>2
<1>5. \A k \in 0..n : LiesAt(p, j, w[k])
  <2> DEFINE S == {k \in 0..n : LiesAt(p, j, w[k])}
  <2>1. n \in S
    BY <1>w
  <2>2. ASSUME NEW k \in 0..(n - 1), k + 1 \in S PROVE k \in S
    <3> DEFINE a == w[k]
               b == V(k + 1)
    <3>1. a \in Seq(Nat) /\ b \in Seq(Nat) /\ w[k + 1] = a \o b
      BY <1>4
    <3>2. LiesAt(p, j, w[k + 1])
      BY <2>2
    <3> HIDE DEF a, b
    <3>3. LiesAt(p, j, a)
      BY <3>1, <3>2, <1>l, LiesAtParts
    <3> QED BY <3>3 DEF a
  <2> HIDE DEF S
  <2>3. \A k \in 0..n : k \in S
    BY <2>1, <2>2, DownTo
  <2> QED BY <2>3 DEF S
<1> DEFINE Is(k) == f[k] = Reached(j + Len(w[k]), Before(k + 1), SubSeq(s, 1, i + k))
           S == {k \in 0..n : Is(k)}
<1>6. Is(0)
  <2>1. Len(w[0]) = 0 /\ j + 0 = j /\ i + 0 = i /\ Before(0 + 1) = previous
    BY <1>w DEF ValueBefore
  <2> QED BY <2>1, <1>f
<1>7. ASSUME NEW k \in 0..(n - 1), Is(k) PROVE Is(k + 1)
  <2> DEFINE a == w[k]
             b == V(k + 1)
             next == j + Len(a)
             x == s[i + (k + 1)]
             before == Before(k + 1)
             samples == SubSeq(s, 1, i + k)
  <2>1. a \in Seq(Nat) /\ b \in Seq(Nat) /\ w[k + 1] = a \o b
    BY <1>4
  <2>2. LiesAt(p, j, w[k + 1])
    <3>1. k + 1 \in 0..n
      BY <1>3
    <3> QED BY <3>1, <1>5
  <2>3. f[k + 1] = Codec!Delta(p, f[k], 1, base)
    BY <1>f, Zenon
  <2>4. x \in 0..MaxRaw
    BY <1>3 DEF Raw
  <2>5. before \in Nat
    <3>1. CASE k = 0
      BY <3>1 DEF ValueBefore
    <3>2. CASE k > 0
      <4>1. i + (k + 1) - 1 \in 1..Len(s) /\ k + 1 # 1
        BY <3>2, <1>l
      <4> QED BY <4>1 DEF ValueBefore
    <3> QED BY <3>1, <3>2
  <2>6. Append(samples, x) = SubSeq(s, 1, i + (k + 1))
    <3>1. i + k \in Nat /\ i + k < Len(s)
      BY <1>l
    <3> QED BY <3>1, <1>3, SubSeqAppend
  <2>7. b = Codec!VarUint(Codec!ZigZag(x - before), base)
    BY DEF Difference
  <2>8. Before(k + 1 + 1) = x
    <3>1. k + 1 + 1 # 1 /\ i + (k + 1 + 1) - 1 = i + (k + 1)
      OBVIOUS
    <3> QED BY <3>1 DEF ValueBefore
  <2>9. f[k] = Reached(next, before, samples)
    BY <1>7
  <2> HIDE DEF a, b, x, before, samples
  <2>10. LiesAt(p, next, b) /\ Len(a) \in Nat /\ Len(b) \in Nat /\ Len(a \o b) = Len(a) + Len(b)
    <3>1. LiesAt(p, j, a \o b)
      BY <2>1, <2>2
    <3>2. LiesAt(p, next, b)
      BY <2>1, <3>1, <1>l, LiesAtParts
    <3> QED BY <3>2, <2>1
  <2>11. next \in Nat /\ next + Len(b) = j + Len(a \o b)
    BY <2>10
  <2> HIDE DEF next
  <2>12. f[k + 1] = Reached(next + Len(b), x, Append(samples, x))
    <3>1. LiesAt(p, next, Codec!VarUint(Codec!ZigZag(x - before), base))
      BY <2>7, <2>10, Zenon
    <3>2. Codec!Delta(p, Reached(next, before, samples), 1, base) =
              Reached(next + Len(Codec!VarUint(Codec!ZigZag(x - before), base)), x, Append(samples, x))
      BY <2>4, <2>5, <2>11, <3>1, DeltaRead
    <3> QED BY <2>3, <2>7, <2>9, <3>2, Zenon
  <2>13. f[k + 1] = Reached(j + Len(w[k + 1]), Before(k + 1 + 1), SubSeq(s, 1, i + (k + 1)))
    BY <2>1, <2>6, <2>8, <2>11, <2>12
  <2> QED BY <2>13
<1>8. Is(n)
  <2>1. 0 \in S /\ \A k \in 0..(n - 1) : k \in S => k + 1 \in S
    BY <1>6, <1>7
  <2> HIDE DEF S
  <2>2. \A k \in 0..n : k \in S
    BY <2>1, UpTo
  <2> QED BY <2>2 DEF S
<1> QED
  BY <1>w, <1>f, <1>8

-----------------------------------------------------------------------------
\* The loops of the coders, round by round

CodesQDelta(f, s) ==
    /\ f[0] = Codec!NothingCoded
    /\ \A k \in 0..(Len(s) - 1) : f[k + 1] = Codec!QDeltaRun(s, f[k])
    /\ Codec!QDelta(s) = f[Len(s)].out

LEMMA CodesQDeltaLoop ==
    ASSUME NEW s \in Seq(Nat)
    PROVE  \E f : CodesQDelta(f, s)
<1> DEFINE Op(e) == Codec!QDeltaRun(s, e)
           Is(f, m) == f = [k \in 0..m |-> IF k = 0 THEN Codec!NothingCoded ELSE Op(f[k - 1])]
           P(m) == \E f : Is(f, m)
           S == {m \in Nat : P(m)}
<1> HIDE DEF Op, P
<1>1. P(0)
  <2>1. Is([k \in 0..0 |-> Codec!NothingCoded], 0)
    OBVIOUS
  <2> QED BY <2>1 DEF P
<1>2. ASSUME NEW m \in Nat, P(m) PROVE P(m + 1)
  <2>1. PICK f : Is(f, m)
    BY <1>2 DEF P
  <2> DEFINE g == [k \in 0..(m + 1) |-> IF k <= m THEN f[k] ELSE Op(f[m])]
  <2>2. \A k \in 0..(m + 1) : g[k] = IF k = 0 THEN Codec!NothingCoded ELSE Op(g[k - 1])
    BY <2>1
  <2>3. Is(g, m + 1)
    BY <2>2
  <2> QED BY <2>3 DEF P
<1>3. 0 \in S /\ \A m \in Nat : m \in S => m + 1 \in S
  BY <1>1, <1>2
<1>4. Len(s) \in S
  <2> HIDE DEF S
  <2> QED BY <1>3, SetInduction
<1> DEFINE R == CHOOSE f : Is(f, Len(s))
<1>5. Is(R, Len(s))
  BY <1>4, Zenon DEF P
<1>6. Codec!QDelta(s) = R[Len(s)].out
  BY DEF Codec!QDelta, Op
<1> HIDE DEF R
<1>7. R[0] = Codec!NothingCoded /\ \A k \in 0..(Len(s) - 1) : R[k + 1] = Op(R[k])
  BY <1>5
<1>8. CodesQDelta(R, s)
  BY <1>6, <1>7, Zenon DEF Op, CodesQDelta
<1> QED
  BY <1>8

CodesRvl(f, s) ==
    /\ f[0] = Codec!NothingCoded
    /\ \A k \in 0..(Len(s) - 1) : f[k + 1] = Codec!RvlRun(s, f[k])
    /\ Codec!Rvl(s) = f[Len(s)].out

LEMMA CodesRvlLoop ==
    ASSUME NEW s \in Seq(Nat)
    PROVE  \E f : CodesRvl(f, s)
<1> DEFINE Op(e) == Codec!RvlRun(s, e)
           Is(f, m) == f = [k \in 0..m |-> IF k = 0 THEN Codec!NothingCoded ELSE Op(f[k - 1])]
           P(m) == \E f : Is(f, m)
           S == {m \in Nat : P(m)}
<1> HIDE DEF Op, P
<1>1. P(0)
  <2>1. Is([k \in 0..0 |-> Codec!NothingCoded], 0)
    OBVIOUS
  <2> QED BY <2>1 DEF P
<1>2. ASSUME NEW m \in Nat, P(m) PROVE P(m + 1)
  <2>1. PICK f : Is(f, m)
    BY <1>2 DEF P
  <2> DEFINE g == [k \in 0..(m + 1) |-> IF k <= m THEN f[k] ELSE Op(f[m])]
  <2>2. \A k \in 0..(m + 1) : g[k] = IF k = 0 THEN Codec!NothingCoded ELSE Op(g[k - 1])
    BY <2>1
  <2>3. Is(g, m + 1)
    BY <2>2
  <2> QED BY <2>3 DEF P
<1>3. 0 \in S /\ \A m \in Nat : m \in S => m + 1 \in S
  BY <1>1, <1>2
<1>4. Len(s) \in S
  <2> HIDE DEF S
  <2> QED BY <1>3, SetInduction
<1> DEFINE R == CHOOSE f : Is(f, Len(s))
<1>5. Is(R, Len(s))
  BY <1>4, Zenon DEF P
<1>6. Codec!Rvl(s) = R[Len(s)].out
  BY DEF Codec!Rvl, Op
<1> HIDE DEF R
<1>7. R[0] = Codec!NothingCoded /\ \A k \in 0..(Len(s) - 1) : R[k + 1] = Op(R[k])
  BY <1>5
<1>8. CodesRvl(R, s)
  BY <1>6, <1>7, Zenon DEF Op, CodesRvl
<1> QED
  BY <1>8

DecodesQDelta(f, p, step, n) ==
    /\ f[0] = Codec!Started
    /\ \A k \in 0..(Len(p) - 1) : f[k + 1] = Codec!UnQDeltaRun(p, step, n, f[k])
    /\ Codec!UnQDelta(p, step, n) = Codec!Result(f[Len(p)], n)

LEMMA DecodesQDeltaLoop ==
    ASSUME NEW p \in Seq(Nat), NEW step, NEW n
    PROVE  \E f : DecodesQDelta(f, p, step, n)
<1> DEFINE Op(e) == Codec!UnQDeltaRun(p, step, n, e)
           Is(f, m) == f = [k \in 0..m |-> IF k = 0 THEN Codec!Started ELSE Op(f[k - 1])]
           P(m) == \E f : Is(f, m)
           S == {m \in Nat : P(m)}
<1> HIDE DEF Op, P
<1>1. P(0)
  <2>1. Is([k \in 0..0 |-> Codec!Started], 0)
    OBVIOUS
  <2> QED BY <2>1 DEF P
<1>2. ASSUME NEW m \in Nat, P(m) PROVE P(m + 1)
  <2>1. PICK f : Is(f, m)
    BY <1>2 DEF P
  <2> DEFINE g == [k \in 0..(m + 1) |-> IF k <= m THEN f[k] ELSE Op(f[m])]
  <2>2. \A k \in 0..(m + 1) : g[k] = IF k = 0 THEN Codec!Started ELSE Op(g[k - 1])
    BY <2>1
  <2>3. Is(g, m + 1)
    BY <2>2
  <2> QED BY <2>3 DEF P
<1>3. 0 \in S /\ \A m \in Nat : m \in S => m + 1 \in S
  BY <1>1, <1>2
<1>4. Len(p) \in S
  <2> HIDE DEF S
  <2> QED BY <1>3, SetInduction
<1> DEFINE R == CHOOSE f : Is(f, Len(p))
<1>5. Is(R, Len(p))
  BY <1>4, Zenon DEF P
<1>6. Codec!UnQDelta(p, step, n) = Codec!Result(R[Len(p)], n)
  BY DEF Codec!UnQDelta, Op
<1> HIDE DEF R
<1>7. R[0] = Codec!Started /\ \A k \in 0..(Len(p) - 1) : R[k + 1] = Op(R[k])
  BY <1>5
<1>8. DecodesQDelta(R, p, step, n)
  BY <1>6, <1>7, Zenon DEF Op, DecodesQDelta
<1> QED
  BY <1>8

DecodesRvl(f, p, n) ==
    /\ f[0] = Codec!Started
    /\ \A k \in 0..(Len(p) - 1) : f[k + 1] = Codec!UnRvlRun(p, n, f[k])
    /\ Codec!UnRvl(p, n) = Codec!Result(f[Len(p)], n)

LEMMA DecodesRvlLoop ==
    ASSUME NEW p \in Seq(Nat), NEW n
    PROVE  \E f : DecodesRvl(f, p, n)
<1> DEFINE Op(e) == Codec!UnRvlRun(p, n, e)
           Is(f, m) == f = [k \in 0..m |-> IF k = 0 THEN Codec!Started ELSE Op(f[k - 1])]
           P(m) == \E f : Is(f, m)
           S == {m \in Nat : P(m)}
<1> HIDE DEF Op, P
<1>1. P(0)
  <2>1. Is([k \in 0..0 |-> Codec!Started], 0)
    OBVIOUS
  <2> QED BY <2>1 DEF P
<1>2. ASSUME NEW m \in Nat, P(m) PROVE P(m + 1)
  <2>1. PICK f : Is(f, m)
    BY <1>2 DEF P
  <2> DEFINE g == [k \in 0..(m + 1) |-> IF k <= m THEN f[k] ELSE Op(f[m])]
  <2>2. \A k \in 0..(m + 1) : g[k] = IF k = 0 THEN Codec!Started ELSE Op(g[k - 1])
    BY <2>1
  <2>3. Is(g, m + 1)
    BY <2>2
  <2> QED BY <2>3 DEF P
<1>3. 0 \in S /\ \A m \in Nat : m \in S => m + 1 \in S
  BY <1>1, <1>2
<1>4. Len(p) \in S
  <2> HIDE DEF S
  <2> QED BY <1>3, SetInduction
<1> DEFINE R == CHOOSE f : Is(f, Len(p))
<1>5. Is(R, Len(p))
  BY <1>4, Zenon DEF P
<1>6. Codec!UnRvl(p, n) = Codec!Result(R[Len(p)], n)
  BY DEF Codec!UnRvl, Op
<1> HIDE DEF R
<1>7. R[0] = Codec!Started /\ \A k \in 0..(Len(p) - 1) : R[k + 1] = Op(R[k])
  BY <1>5
<1>8. DecodesRvl(R, p, n)
  BY <1>6, <1>7, Zenon DEF Op, DecodesRvl
<1> QED
  BY <1>8

\* The decoder where the encoder is, and what the encoder has coded after k rounds
StateOf(s, e) == Reached(Len(e.out) + 1, e.previous, SubSeq(s, 1, e.index))
Coded(s, e, k) ==
    /\ e.index \in 0..Len(s) /\ e.previous \in Nat /\ e.out \in Seq(Nat)
    /\ e.index < Len(s) => k <= e.index /\ k <= Len(e.out)
\* A round codes a sample at least, and what it writes is after all that was there.
Follows(s, e, next) ==
    IF e.index = Len(s) THEN next = e
    ELSE /\ next.index \in 0..Len(s) /\ next.index > e.index /\ next.previous \in Nat
         /\ \E t \in Seq(Nat) : next.out = e.out \o t /\ Len(t) > 0

LEMMA CodedNext ==
    ASSUME NEW s \in Seq(Nat), NEW e, NEW next, NEW k \in Nat, Coded(s, e, k), Follows(s, e, next)
    PROVE  /\ Coded(s, next, k + 1)
           /\ \A p \in Seq(Nat) : LiesAt(p, 1, next.out) => LiesAt(p, 1, e.out)
           /\ e.index < Len(s) => Len(e.out) < Len(next.out)
<1>1. CASE e.index = Len(s)
  BY <1>1 DEF Coded, Follows
<1>2. CASE e.index # Len(s)
  <2>1. PICK t \in Seq(Nat) : next.out = e.out \o t /\ Len(t) > 0
    BY <1>2 DEF Follows
  <2> DEFINE a == e.out
             b == next.out
  <2>2. a \in Seq(Nat) /\ b = a \o t /\ Len(a) \in Nat /\ Len(t) \in Nat
    BY <2>1 DEF Coded
  <2>3. b \in Seq(Nat) /\ Len(b) = Len(a) + Len(t)
    BY <2>2
  <2>4. \A p \in Seq(Nat) : LiesAt(p, 1, b) => LiesAt(p, 1, a)
    <3> HIDE DEF a, b
    <3> TAKE p \in Seq(Nat)
    <3>1. Len(p) \in Nat
      OBVIOUS
    <3> QED BY <2>2, <3>1, LiesAtParts
  <2>5. e.index < Len(s) /\ k <= e.index /\ k <= Len(a)
    BY <1>2 DEF Coded
  <2>6. next.index \in 0..Len(s) /\ next.index > e.index /\ next.previous \in Nat
    BY <1>2 DEF Follows
  <2>7. Coded(s, next, k + 1)
    <3>1. k + 1 <= Len(b)
      <4> HIDE DEF a, b
      <4> QED BY <2>1, <2>2, <2>3, <2>5
    <3>2. k + 1 <= next.index
      BY <2>5, <2>6 DEF Coded
    <3> QED BY <2>3, <2>6, <3>1, <3>2 DEF Coded
  <2>8. Len(a) < Len(b)
    <3> HIDE DEF a, b
    <3> QED BY <2>1, <2>2, <2>3
  <2> QED BY <2>4, <2>7, <2>8
<1> QED
  BY <1>1, <1>2

\* So it is in every round.
LEMMA CodedThrough ==
    ASSUME NEW s \in Seq(Nat), NEW c, c[0] = Codec!NothingCoded,
           \A k \in 0..(Len(s) - 1) : Coded(s, c[k], k) => Follows(s, c[k], c[k + 1])
    PROVE  (\A k \in 0..Len(s) : Coded(s, c[k], k)) /\ c[Len(s)].out \in Seq(Nat)
<1> DEFINE N == Len(s)
           S == {k \in 0..N : Coded(s, c[k], k)}
<1>n. N \in Nat
  OBVIOUS
<1> HIDE DEF N
<1>1. 0 \in S
  <2>1. c[0].index = 0 /\ c[0].previous = 0 /\ c[0].out = <<>>
    BY DEF Codec!NothingCoded
  <2>2. <<>> \in Seq(Nat) /\ Len(<<>>) = 0
    OBVIOUS
  <2>3. Coded(s, c[0], 0)
    BY <2>1, <2>2, <1>n DEF Coded, N
  <2> QED BY <2>3, <1>n
<1>2. ASSUME NEW k \in 0..(N - 1), k \in S PROVE k + 1 \in S
  <2>1. Follows(s, c[k], c[k + 1])
    BY <1>2 DEF N
  <2>2. Coded(s, c[k], k) /\ k \in Nat
    BY <1>2
  <2>3. Coded(s, c[k + 1], k + 1)
    BY <2>1, <2>2, CodedNext
  <2> QED BY <2>3, <1>n
<1>3. \A k \in 0..N : k \in S
  <2> HIDE DEF S
  <2> QED BY <1>n, <1>1, <1>2, UpTo
<1>4. N \in 0..N
  BY <1>n
<1>5. Coded(s, c[N], N)
  BY <1>3, <1>4
<1> QED
  BY <1>3, <1>5 DEF Coded, N

\* An encoder c that goes on so, and a decoder d that reads each round as it was written, end
\* with the samples.
LEMMA Lockstep ==
    ASSUME NEW s \in Seq(Nat), NEW c, NEW d, NEW p \in Seq(Nat), p = c[Len(s)].out,
           c[0] = Codec!NothingCoded,
           \A k \in 0..(Len(s) - 1) : Coded(s, c[k], k) => Follows(s, c[k], c[k + 1]),
           d[0] = Codec!Started,
           \A k \in 0..(Len(p) - 1) :
               d[k].ok = TRUE /\ Len(d[k].samples) = Len(s) => d[k + 1] = d[k],
           \A k \in 0..(Len(p) - 1) :
               /\ k \in 0..(Len(s) - 1) /\ Coded(s, c[k], k) /\ c[k].index < Len(s)
               /\ LiesAt(p, 1, c[k + 1].out) /\ d[k] = StateOf(s, c[k])
               => d[k + 1] = StateOf(s, c[k + 1])
    PROVE  Codec!Result(d[Len(p)], Len(s)) = Codec!Good(s)
<1> DEFINE N == Len(s)
           L == Len(p)
           C(k) == Coded(s, c[k], k)
<1>n. N \in Nat /\ L \in Nat
  OBVIOUS
<1> HIDE DEF N, L
<1>1. \A k \in 0..N : C(k)
  BY CodedThrough DEF N
<1>2. \A k \in 0..(N - 1) :
          /\ Follows(s, c[k], c[k + 1])
          /\ LiesAt(p, 1, c[k + 1].out) => LiesAt(p, 1, c[k].out)
          /\ c[k].index < N => Len(c[k].out) < Len(c[k + 1].out)
  <2> TAKE k \in 0..(N - 1)
  <2>1. Coded(s, c[k], k) /\ k \in Nat
    BY <1>1, <1>n
  <2>2. Follows(s, c[k], c[k + 1])
    BY <2>1 DEF N
  <2> QED BY <2>1, <2>2, CodedNext DEF N
<1>3. \A k \in 0..N : LiesAt(p, 1, c[k].out)
  <2> DEFINE S == {k \in 0..N : LiesAt(p, 1, c[k].out)}
  <2>1. LiesAt(p, 1, p)
    BY DEF LiesAt
  <2>2. N \in S
    BY <2>1, <1>n DEF N
  <2>3. \A k \in 0..(N - 1) : k + 1 \in S => k \in S
    BY <1>2, <1>n
  <2> HIDE DEF S
  <2>4. \A k \in 0..N : k \in S
    BY <1>n, <2>2, <2>3, DownTo
  <2> QED BY <2>4 DEF S
<1>4. c[N].index = N
  <2>1. Coded(s, c[N], N)
    BY <1>1, <1>n
  <2> QED BY <2>1, <1>n DEF Coded, N
<1> DEFINE At(k) == IF k <= N THEN k ELSE N
           D(k) == d[k] = StateOf(s, c[At(k)])
<1>5. \A e : e.index = N => Len(StateOf(s, e).samples) = N /\ StateOf(s, e).samples = s
          /\ StateOf(s, e).ok = TRUE
  <2> TAKE e
  <2> HAVE e.index = N
  <2>1. SubSeq(s, 1, N) = s
    BY DEF N
  <2> QED BY <2>1 DEF StateOf, Reached, N
<1>6. ASSUME NEW k \in 0..(L - 1), D(k) PROVE D(k + 1)
  <2>1. CASE k < N /\ c[k].index < N
    <3>1. At(k) = k /\ At(k + 1) = k + 1 /\ k \in 0..(N - 1) /\ k \in 0..N /\ k + 1 \in 0..N
      BY <2>1, <1>n
    <3>2. Coded(s, c[k], k) /\ LiesAt(p, 1, c[k + 1].out) /\ d[k] = StateOf(s, c[k])
      BY <3>1, <1>1, <1>3, <1>6
    <3>3. d[k + 1] = StateOf(s, c[k + 1])
      BY <2>1, <3>1, <3>2 DEF N, L
    <3> QED BY <3>1, <3>3
  <2>2. CASE ~(k < N /\ c[k].index < N)
    <3>1. At(k) \in 0..N /\ c[At(k)].index = N
      <4>1. CASE k < N
        <5>1. Coded(s, c[k], k)
          BY <4>1, <1>1, <1>n
        <5> QED BY <2>2, <4>1, <5>1, <1>n DEF Coded, N
      <4>2. CASE ~(k < N)
        BY <4>2, <1>4, <1>n
      <4> QED BY <4>1, <4>2
    <3>2. d[k].ok = TRUE /\ Len(d[k].samples) = N
      BY <1>5, <1>6, <3>1
    <3>3. d[k + 1] = d[k]
      BY <3>2 DEF N, L
    <3>4. c[At(k + 1)] = c[At(k)]
      <4>1. CASE k < N
        <5>1. Follows(s, c[k], c[k + 1]) /\ At(k) = k /\ At(k + 1) = k + 1
          BY <4>1, <1>2, <1>n
        <5> QED BY <5>1, <3>1 DEF Follows, N
      <4>2. CASE ~(k < N)
        BY <4>2, <1>n
      <4> QED BY <4>1, <4>2
    <3> QED BY <1>6, <3>3, <3>4
  <2> QED BY <2>1, <2>2
<1>7. D(L)
  <2> DEFINE S == {k \in 0..L : D(k)}
  <2>1. D(0)
    <3>1. c[0].out = <<>> /\ c[0].previous = 0 /\ c[0].index = 0
      BY DEF Codec!NothingCoded
    <3>2. SubSeq(s, 1, 0) = <<>> /\ Len(<<>>) + 1 = 1
      OBVIOUS
    <3>3. StateOf(s, c[0]) = Codec!Started
      BY <3>1, <3>2 DEF StateOf, Reached, Codec!Started
    <3>4. At(0) = 0
      BY <1>n
    <3> QED BY <3>3, <3>4
  <2>2. 0 \in S /\ \A k \in 0..(L - 1) : k \in S => k + 1 \in S
    BY <2>1, <1>6, <1>n
  <2> HIDE DEF S
  <2>3. \A k \in 0..L : k \in S
    BY <1>n, <2>2, UpTo
  <2> QED BY <2>3, <1>n DEF S
<1>8. c[At(L)].index = N
  <2>1. CASE L < N
    <3>1. Coded(s, c[L], L) /\ LiesAt(p, 1, c[L + 1].out) /\ At(L) = L
      BY <2>1, <1>1, <1>3, <1>n
    <3>2. CASE c[L].index < N
      <4> DEFINE a == c[L].out
                 b == c[L + 1].out
      <4>1. Len(a) < Len(b) /\ L <= Len(a) /\ a \in Seq(Nat)
        BY <3>1, <3>2, <1>2, <2>1, <1>n DEF Coded, N
      <4>2. Len(b) <= L /\ b \in Seq(Nat)
        <5>1. Coded(s, c[L + 1], L + 1)
          BY <1>1, <1>n, <2>1
        <5>2. b \in Seq(Nat)
          BY <5>1 DEF Coded
        <5>3. 1 + Len(b) - 1 <= L
          BY <3>1 DEF LiesAt, L
        <5> HIDE DEF b
        <5> QED BY <5>2, <5>3, <1>n
      <4> HIDE DEF a, b
      <4> QED BY <4>1, <4>2, <1>n
    <3> QED BY <3>1, <3>2, <1>n DEF Coded, N
  <2>2. CASE ~(L < N)
    <3>1. At(L) = N
      BY <2>2, <1>n
    <3> QED BY <3>1, <1>4
  <2> QED BY <2>1, <2>2
<1>9. d[L].ok = TRUE /\ d[L].samples = s /\ Len(d[L].samples) = N
  BY <1>5, <1>7, <1>8
<1>10. Codec!Result(d[L], N) = Codec!Good(s)
  BY <1>9 DEF Codec!Result
<1> QED
  BY <1>10 DEF N, L

LEMMA DeltasAreNumbers ==
    ASSUME NEW base \in Nat, base >= 2, NEW s \in Seq(Nat), NEW i \in Nat, NEW n \in Nat,
           i + n <= Len(s), NEW previous \in Nat
    PROVE  Codec!Deltas(s, i, n, previous, base) \in Seq(Nat)
<1>1. PICK w : WritesDeltas(w, s, i, n, previous, base)
  BY DeltasLoop
<1>2. \A k \in 0..n : w[k] \in Seq(Nat)
  BY <1>1, DeltasParts
<1>3. Codec!Deltas(s, i, n, previous, base) = w[n] /\ n \in 0..n
  BY <1>1 DEF WritesDeltas
<1> QED
  BY <1>2, <1>3

\* One round of qdelta that meets a zero, or another sample
QDeltaZeros(s, e) == Codec!RunAfter(s, e.index, TRUE, Len(s))
QDeltaOthers(s, e) == Codec!RunAfter(s, e.index, FALSE, RunMax)

LEMMA QDeltaTakes ==
    ASSUME NEW s \in Seq(Nat), NEW e, NEW k \in Nat, Coded(s, e, k), e.index < Len(s),
           RunMax \in Nat, RunMax > 0
    PROVE  LET i == e.index  zeros == QDeltaZeros(s, e)  n == QDeltaOthers(s, e)
           IN /\ s[i + 1] = 0 => /\ zeros \in Nat /\ zeros > 0 /\ i + zeros <= Len(s)
                                 /\ \A j \in (i + 1)..(i + zeros) : s[j] = 0
              /\ s[i + 1] # 0 => n \in Nat /\ n > 0 /\ i + n <= Len(s)
<1>1. e.index \in 0..Len(s) /\ Len(s) \in Nat
  BY DEF Coded
<1>2. CASE s[e.index + 1] = 0
  <2>1. Codec!Continues(s, e.index, TRUE) /\ Len(s) > 0 /\ Len(s) \in Nat
    BY <1>1, <1>2 DEF Codec!Continues
  <2>2. QDeltaZeros(s, e) \in 0..Len(s) /\ QDeltaZeros(s, e) > 0 /\ e.index + QDeltaZeros(s, e) <= Len(s)
    BY <1>1, <2>1, RunAfterEnds DEF QDeltaZeros
  <2>3. \A j \in (e.index + 1)..(e.index + QDeltaZeros(s, e)) : (s[j] = 0) <=> TRUE
    BY <1>1, RunAfterEnds DEF QDeltaZeros
  <2> QED BY <1>2, <2>2, <2>3
<1>3. CASE s[e.index + 1] # 0
  <2>1. Codec!Continues(s, e.index, FALSE)
    BY <1>1, <1>3 DEF Codec!Continues
  <2>2. QDeltaOthers(s, e) \in 0..RunMax /\ QDeltaOthers(s, e) > 0 /\ e.index + QDeltaOthers(s, e) <= Len(s)
    BY <1>1, <2>1, RunAfterEnds DEF QDeltaOthers
  <2> QED BY <1>3, <2>2
<1> QED
  BY <1>2, <1>3

LEMMA QDeltaFollows ==
    ASSUME NEW s \in Seq(Nat), NEW e, NEW k \in Nat, Coded(s, e, k),
           RunMax \in Nat, RunMax > 0, VarBase \in Nat, VarBase >= 2
    PROVE  Follows(s, e, Codec!QDeltaRun(s, e))
<1>1. CASE e.index = Len(s)
  BY <1>1 DEF Follows, Codec!QDeltaRun
<1>2. CASE e.index # Len(s)
  <2> DEFINE i == e.index
             a == e.out
             zeros == QDeltaZeros(s, e)
             n == QDeltaOthers(s, e)
             next == Codec!QDeltaRun(s, e)
  <2>1. i \in 0..Len(s) /\ i < Len(s) /\ e.previous \in Nat /\ a \in Seq(Nat) /\ Len(s) \in Nat
    BY <1>2 DEF Coded
  <2>2. CASE s[e.index + 1] = 0
    <3> DEFINE v == Codec!VarUint(zeros, VarBase)
    <3>1. next.index = i + zeros /\ next.previous = 0 /\ next.out = a \o (<<0>> \o v)
      BY <1>2, <2>2 DEF Codec!QDeltaRun, QDeltaZeros
    <3>2. zeros \in Nat /\ zeros > 0 /\ i + zeros <= Len(s)
      BY <2>1, <2>2, QDeltaTakes
    <3>3. v \in Seq(Nat)
      <4> HIDE DEF zeros
      <4>1. <<>> \in Seq(Nat)
        OBVIOUS
      <4> QED BY <3>2, <4>1, VarUintRead
    <3> HIDE DEF v, next, zeros, a
    <3>4. <<0>> \o v \in Seq(Nat) /\ Len(<<0>> \o v) > 0
      BY <3>3
    <3> HIDE DEF i
    <3>5. \E t \in Seq(Nat) : next.out = a \o t /\ Len(t) > 0
      BY <3>1, <3>4
    <3>6. next.index \in 0..Len(s) /\ next.index > i /\ next.previous \in Nat
      BY <3>1, <3>2, <2>1
    <3> QED BY <1>2, <3>5, <3>6 DEF Follows, next, i, a
  <2>3. CASE s[e.index + 1] # 0
    <3> DEFINE v == Codec!Deltas(s, i, n, e.previous, VarBase)
    <3>1. next.index = i + n /\ next.previous = s[i + n] /\ next.out = a \o (<<1, n>> \o v)
      BY <1>2, <2>3 DEF Codec!QDeltaRun, QDeltaOthers
    <3>2. n \in Nat /\ n > 0 /\ i + n <= Len(s)
      BY <2>1, <2>3, QDeltaTakes
    <3>3. v \in Seq(Nat)
      <4> DEFINE before == e.previous
      <4>1. i \in Nat /\ before \in Nat
        BY <2>1
      <4> HIDE DEF n, i, before
      <4>2. Codec!Deltas(s, i, n, before, VarBase) \in Seq(Nat)
        BY <4>1, <3>2, DeltasAreNumbers
      <4> QED BY <4>2 DEF before
    <3>0. s[i + n] \in Nat
      BY <2>1, <3>2
    <3> HIDE DEF v, next, n, a
    <3>4. <<1, n>> \o v \in Seq(Nat) /\ Len(<<1, n>> \o v) > 0
      BY <3>2, <3>3
    <3> HIDE DEF i
    <3>5. \E t \in Seq(Nat) : next.out = a \o t /\ Len(t) > 0
      BY <3>1, <3>4
    <3>6. next.index \in 0..Len(s) /\ next.index > i /\ next.previous \in Nat
      BY <3>0, <3>1, <3>2, <2>1
    <3> QED BY <1>2, <3>5, <3>6 DEF Follows, next, i, a
  <2> QED BY <2>2, <2>3
<1> QED
  BY <1>1, <1>2

LEMMA QDeltaReads ==
    ASSUME NEW s \in Seq(Nat), Raw(s), NEW e, NEW k \in Nat, Coded(s, e, k), e.index < Len(s),
           RunMax \in Nat, RunMax > 0, VarBase \in Nat, VarBase >= 2, MaxRaw \in Nat,
           NEW p \in Seq(Nat), LiesAt(p, 1, Codec!QDeltaRun(s, e).out)
    PROVE  Codec!UnQDeltaRun(p, 1, Len(s), StateOf(s, e)) = StateOf(s, Codec!QDeltaRun(s, e))
<1> DEFINE i == e.index
           a == e.out
           before == e.previous
           next == Codec!QDeltaRun(s, e)
           j == Len(a) + 1
           r == StateOf(s, e)
           left == Len(s) - i
<1>1. /\ i \in Nat /\ i < Len(s) /\ before \in Nat /\ a \in Seq(Nat) /\ Len(s) \in Nat
      /\ Len(p) \in Nat /\ Len(a) \in Nat
  BY DEF Coded
<1>2. r = Reached(j, before, SubSeq(s, 1, i))
  BY DEF StateOf
<1>d. left = Len(s) - i /\ j = Len(a) + 1
  OBVIOUS
<1>o. LiesAt(p, 1, next.out)
  OBVIOUS
<1>e. e.index # Len(s)
  BY DEF Coded
<1> HIDE DEF i, a, before, next, j, r, left
<1>j. j \in Nat /\ left \in Nat /\ left > 0
  BY <1>1, <1>d
<1>4. r.ok = TRUE /\ r.next = j /\ r.previous = before /\ r.samples = SubSeq(s, 1, i)
  BY <1>2 DEF Reached
<1>3. Len(SubSeq(s, 1, i)) = i
  BY <1>1
<1>5. Len(s) - Len(r.samples) = left
  BY <1>d, <1>3, <1>4
<1>6. ASSUME NEW t \in Seq(Nat), next.out = a \o t
      PROVE  LiesAt(p, j, t) /\ Len(next.out) + 1 = j + Len(t)
  <2>1. LiesAt(p, 1, a \o t)
    BY <1>6, <1>o
  <2>2. LiesAt(p, 1 + Len(a), t)
    BY <1>1, <2>1, LiesAtParts
  <2>3. 1 + Len(a) = j
    BY <1>1, <1>d
  <2>4. Len(a \o t) = Len(a) + Len(t) /\ Len(t) \in Nat
    BY <1>1
  <2> QED BY <1>1, <1>6, <1>d, <2>2, <2>3, <2>4
<1>7. CASE s[e.index + 1] = 0
  <2> DEFINE zeros == QDeltaZeros(s, e)
             v == Codec!VarUint(zeros, VarBase)
             t == <<0>> \o v
             read == Codec!ReadVar(p, j + 1, VarBase)
  <2>1. next.index = i + zeros /\ next.previous = 0 /\ next.out = a \o t
    BY <1>e, <1>7 DEF Codec!QDeltaRun, QDeltaZeros, next, i, a
  <2>2. /\ zeros \in Nat /\ zeros > 0 /\ i + zeros <= Len(s)
        /\ \A m \in (i + 1)..(i + zeros) : s[m] = 0
    BY <1>1, <1>7, QDeltaTakes DEF i
  <2> HIDE DEF zeros
  <2>3. SubSeq(s, 1, i) \o Codec!Zeros(zeros) = SubSeq(s, 1, i + zeros)
    BY <1>1, <2>2, SubSeqZeros
  <2>4. v \in Seq(Nat)
    <3>1. <<>> \in Seq(Nat)
      OBVIOUS
    <3> QED BY <2>2, <3>1, VarUintRead
  <2>v. v = Codec!VarUint(zeros, VarBase)
    OBVIOUS
  <2> HIDE DEF v
  <2>5. t \in Seq(Nat) /\ Len(t) = 1 + Len(v) /\ Len(v) \in Nat
    BY <2>4
  <2>6. LiesAt(p, j, <<0>> \o v) /\ Len(next.out) + 1 = j + Len(t)
    BY <1>6, <2>1, <2>5
  <2> HIDE DEF t
  <2>7. j \in 1..Len(p) /\ p[j] = 0 /\ LiesAt(p, j + 1, v)
    BY <2>4, <2>6, <1>1, LiesAtHead
  <2>8. read = [ok |-> TRUE, value |-> zeros, next |-> j + 1 + Len(v)]
    <3>1. LiesAt(p, j + 1, Codec!VarUint(zeros, VarBase)) /\ j + 1 \in Nat
      BY <2>7, <2>v, <1>j
    <3> QED BY <2>2, <2>v, <3>1, VarUintRead
  <2> HIDE DEF read
  <2>9. read.ok = TRUE /\ read.value = zeros /\ read.next = j + 1 + Len(v)
    BY <2>8
  <2>10. ~(zeros > left) /\ ~(j > Len(p)) /\ left # 0
    BY <2>2, <2>7, <1>1, <1>d, <1>j, SMTT(30)
  <2>11. Codec!UnQDeltaRun(p, 1, Len(s), r) =
             [ok |-> TRUE, next |-> read.next, previous |-> 0,
              samples |-> SubSeq(s, 1, i) \o Codec!Zeros(zeros)]
    BY <1>4, <1>5, <2>7, <2>9, <2>10 DEF Codec!UnQDeltaRun, read
  <2>12. read.next = Len(next.out) + 1
    BY <2>5, <2>6, <2>9, <1>j
  <2>13. StateOf(s, next) = Reached(read.next, 0, SubSeq(s, 1, i + zeros))
    BY <2>1, <2>12 DEF StateOf
  <2> QED BY <2>3, <2>11, <2>13 DEF Reached, next, r
<1>8. CASE s[e.index + 1] # 0
  <2> DEFINE n == QDeltaOthers(s, e)
             v == Codec!Deltas(s, i, n, before, VarBase)
             t == <<1, n>> \o v
             j2 == j + 2
             r2 == Reached(j2, before, SubSeq(s, 1, i))
  <2>1. next.index = i + n /\ next.previous = s[i + n] /\ next.out = a \o t
    BY <1>e, <1>8 DEF Codec!QDeltaRun, QDeltaOthers, next, i, a, before
  <2>2. n \in Nat /\ n > 0 /\ i + n <= Len(s)
    BY <1>1, <1>8, QDeltaTakes DEF i
  <2> HIDE DEF n
  <2>3. v \in Seq(Nat)
    BY <1>1, <2>2, DeltasAreNumbers
  <2>v. v = Codec!Deltas(s, i, n, before, VarBase)
    OBVIOUS
  <2> HIDE DEF v
  <2>4. /\ t \in Seq(Nat) /\ Len(t) = 2 + Len(v) /\ Len(v) \in Nat
        /\ t = <<1>> \o (<<n>> \o v) /\ <<n>> \o v \in Seq(Nat)
    BY <2>2, <2>3
  <2> HIDE DEF t
  <2>5. LiesAt(p, j, t) /\ Len(next.out) + 1 = j + Len(t)
    BY <1>6, <2>1, <2>4
  <2>6. j \in 1..Len(p) /\ p[j] = 1 /\ LiesAt(p, j + 1, <<n>> \o v)
    <3>1. LiesAt(p, j, <<1>> \o (<<n>> \o v))
      BY <2>4, <2>5
    <3> QED BY <2>4, <3>1, <1>1, LiesAtHead
  <2>7. j + 1 \in 1..Len(p) /\ p[j + 1] = n /\ LiesAt(p, j + 1 + 1, v)
    BY <2>2, <2>3, <2>6, <1>1, LiesAtHead
  <2>8. j2 = j + 1 + 1 /\ j2 \in Nat /\ j # Len(p) /\ ~(j > Len(p)) /\ n \in 1..left /\ left # 0
    <3>1. j + 1 + 1 = j + 2 /\ j + 2 \in Nat
      BY <1>j
    <3>2. j # Len(p) /\ ~(j > Len(p))
      BY <2>6, <2>7, <1>j, <1>1
    <3>3. n \in 1..left /\ left # 0
      BY <2>2, <1>1, <1>d, <1>j
    <3> QED BY <3>1, <3>2, <3>3
  <2>9. LiesAt(p, j2, v)
    BY <2>7, <2>8
  <2>10. [ok |-> TRUE, next |-> r.next + 2, previous |-> r.previous, samples |-> r.samples] = r2
    BY <1>4 DEF Reached
  <2>r. r2 = Reached(j2, before, SubSeq(s, 1, i))
    OBVIOUS
  <2> HIDE DEF r2
  <2>11. Codec!UnQDeltaRun(p, 1, Len(s), r) = Codec!Run(p, r2, n, 1, VarBase)
    <3>1. r.ok = TRUE /\ r.next = j
      BY <1>4
    <3>2. p[r.next] = 1 /\ p[r.next] # 0 /\ p[r.next + 1] = n /\ r.next # Len(p) /\ ~(r.next > Len(p))
      BY <3>1, <2>6, <2>7, <2>8
    <3>3. n \in 1..left /\ left # 0
      BY <2>8
    <3> QED BY <3>1, <3>2, <3>3, <1>5, <2>10 DEF Codec!UnQDeltaRun
  <2>12. j2 + Len(v) = Len(next.out) + 1
    BY <2>4, <2>5, <1>j
  <2> HIDE DEF j2
  <2>13. LiesAt(p, j2, Codec!Deltas(s, i, n, before, VarBase))
    BY <2>9, <2>v
  <2>14. Codec!Run(p, Reached(j2, before, SubSeq(s, 1, i)), n, 1, VarBase) =
             Reached(j2 + Len(Codec!Deltas(s, i, n, before, VarBase)),
                     ValueBefore(s, i, before, n + 1), SubSeq(s, 1, i + n))
    BY <1>1, <2>2, <2>8, <2>13, DeltasRead
  <2>15. ValueBefore(s, i, before, n + 1) = s[i + n]
    <3>1. n + 1 # 1 /\ i + (n + 1) - 1 = i + n
      BY <2>2, <1>1
    <3> QED BY <3>1 DEF ValueBefore
  <2>16. StateOf(s, next) = Reached(j2 + Len(v), s[i + n], SubSeq(s, 1, i + n))
    BY <2>1, <2>12 DEF StateOf
  <2> QED BY <2>11, <2>14, <2>15, <2>16, <2>r, <2>v DEF next, r
<1> QED
  BY <1>7, <1>8

\* qdelta gives every frame back.
LEMMA QDeltaRestores ==
    ASSUME NEW s \in Seq(Nat), Raw(s), RunMax \in Nat, RunMax > 0, VarBase \in Nat, VarBase >= 2,
           MaxRaw \in Nat
    PROVE  Codec!UnQDelta(Codec!QDelta(s), 1, Len(s)) = Codec!Good(s)
<1> DEFINE p == Codec!QDelta(s)
<1>1. PICK c : CodesQDelta(c, s)
  BY CodesQDeltaLoop
<1>2. /\ c[0] = Codec!NothingCoded /\ p = c[Len(s)].out
      /\ \A k \in 0..(Len(s) - 1) : c[k + 1] = Codec!QDeltaRun(s, c[k])
  BY <1>1 DEF CodesQDelta
<1>3. \A k \in 0..(Len(s) - 1) : Coded(s, c[k], k) => Follows(s, c[k], c[k + 1])
  BY <1>2, QDeltaFollows
<1>4. p \in Seq(Nat)
  BY <1>2, <1>3, CodedThrough
<1> HIDE DEF p
<1>5. PICK d : DecodesQDelta(d, p, 1, Len(s))
  BY <1>4, DecodesQDeltaLoop
<1>6. /\ d[0] = Codec!Started /\ Codec!UnQDelta(p, 1, Len(s)) = Codec!Result(d[Len(p)], Len(s))
      /\ \A k \in 0..(Len(p) - 1) : d[k + 1] = Codec!UnQDeltaRun(p, 1, Len(s), d[k])
  BY <1>5 DEF DecodesQDelta
<1>7. \A k \in 0..(Len(p) - 1) : d[k].ok = TRUE /\ Len(d[k].samples) = Len(s) => d[k + 1] = d[k]
  <2> TAKE k \in 0..(Len(p) - 1)
  <2> HAVE d[k].ok = TRUE /\ Len(d[k].samples) = Len(s)
  <2>1. Len(s) - Len(d[k].samples) = 0
    OBVIOUS
  <2> QED BY <1>6, <2>1 DEF Codec!UnQDeltaRun
<1>8. ASSUME NEW k \in 0..(Len(p) - 1), k \in 0..(Len(s) - 1), Coded(s, c[k], k), c[k].index < Len(s),
             LiesAt(p, 1, c[k + 1].out), d[k] = StateOf(s, c[k])
      PROVE  d[k + 1] = StateOf(s, c[k + 1])
  <2>1. c[k + 1] = Codec!QDeltaRun(s, c[k]) /\ d[k + 1] = Codec!UnQDeltaRun(p, 1, Len(s), d[k])
    BY <1>2, <1>6, <1>8
  <2> QED BY <1>4, <1>8, <2>1, QDeltaReads
<1>9. Codec!Result(d[Len(p)], Len(s)) = Codec!Good(s)
  BY <1>2, <1>3, <1>4, <1>6, <1>7, <1>8, Lockstep
<1> QED
  BY <1>6, <1>9 DEF p

\* One round of rvl: the zeros, then the others
RvlZeros(s, e) == Codec!RunAfter(s, e.index, TRUE, Len(s))
RvlOthers(s, e) == Codec!RunAfter(s, e.index + RvlZeros(s, e), FALSE, Len(s))

LEMMA RvlTakes ==
    ASSUME NEW s \in Seq(Nat), NEW e, NEW k \in Nat, Coded(s, e, k), e.index < Len(s)
    PROVE  LET i == e.index  zeros == RvlZeros(s, e)  n == RvlOthers(s, e)
           IN /\ zeros \in Nat /\ n \in Nat /\ zeros + n > 0 /\ i + zeros + n <= Len(s)
              /\ \A j \in (i + 1)..(i + zeros) : s[j] = 0
<1> DEFINE i == e.index
           zeros == RvlZeros(s, e)
           n == RvlOthers(s, e)
<1>1. i \in 0..Len(s) /\ i < Len(s) /\ Len(s) \in Nat /\ Len(s) > 0
  BY DEF Coded
<1>2. /\ zeros \in 0..Len(s) /\ i + zeros <= Len(s) /\ \A j \in (i + 1)..(i + zeros) : (s[j] = 0) <=> TRUE
      /\ Len(s) > 0 /\ Codec!Continues(s, i, TRUE) => zeros > 0
  BY <1>1, RunAfterEnds DEF RvlZeros
<1>3. i + zeros \in 0..Len(s)
  <2> HIDE DEF i, zeros
  <2> QED BY <1>1, <1>2
<1>4. /\ n \in 0..Len(s) /\ i + zeros + n <= Len(s)
      /\ Len(s) > 0 /\ Codec!Continues(s, i + zeros, FALSE) => n > 0
  <2>1. n = Codec!RunAfter(s, i + zeros, FALSE, Len(s))
    BY DEF RvlOthers
  <2> HIDE DEF i, zeros, n
  <2> QED BY <1>1, <1>3, <2>1, RunAfterEnds
<1> HIDE DEF i, zeros, n
<1>5. zeros > 0 \/ n > 0
  <2>1. CASE s[i + 1] = 0
    BY <1>1, <1>2, <2>1 DEF Codec!Continues
  <2>2. CASE s[i + 1] # 0 /\ zeros = 0
    <3>1. i + zeros = i
      BY <1>1, <2>2
    <3>2. Codec!Continues(s, i, FALSE)
      BY <1>1, <2>2 DEF Codec!Continues
    <3> QED BY <1>1, <1>4, <3>1, <3>2
  <2>3. zeros \in Nat
    BY <1>2
  <2> QED BY <2>1, <2>2, <2>3
<1>6. zeros \in Nat /\ n \in Nat /\ zeros + n > 0 /\ i + zeros + n <= Len(s)
  BY <1>1, <1>2, <1>4, <1>5
<1> QED
  BY <1>2, <1>6 DEF i, zeros, n

LEMMA RvlWrites ==
    ASSUME NEW s \in Seq(Nat), NEW e, NEW k \in Nat, Coded(s, e, k), e.index < Len(s),
           RvlBase \in Nat, RvlBase >= 2
    PROVE  LET i == e.index  zeros == RvlZeros(s, e)  n == RvlOthers(s, e)
               v == Codec!VarUint(zeros, RvlBase)  w == Codec!VarUint(n, RvlBase)
               d == Codec!Deltas(s, i + zeros, n, e.previous, RvlBase)
               next == Codec!RvlRun(s, e)
           IN /\ v \in Seq(Nat) /\ w \in Seq(Nat) /\ d \in Seq(Nat) /\ Len(v) > 0
              /\ next.index = i + zeros + n /\ next.out = e.out \o ((v \o w) \o d)
              /\ next.previous = IF n = 0 THEN e.previous ELSE s[i + zeros + n]
<1> DEFINE i == e.index
           before == e.previous
           zeros == RvlZeros(s, e)
           n == RvlOthers(s, e)
           v == Codec!VarUint(zeros, RvlBase)
           w == Codec!VarUint(n, RvlBase)
           start == i + zeros
           d == Codec!Deltas(s, start, n, before, RvlBase)
           next == Codec!RvlRun(s, e)
<1>1. i \in Nat /\ before \in Nat /\ Len(s) \in Nat /\ e.index # Len(s)
  BY DEF Coded
<1>2. zeros \in Nat /\ n \in Nat /\ start + n <= Len(s)
  BY RvlTakes
<1>3. /\ next.index = start + n /\ next.out = e.out \o (v \o w \o d)
      /\ next.previous = IF n = 0 THEN before ELSE s[start + n]
  BY <1>1 DEF Codec!RvlRun, RvlZeros, RvlOthers
<1>0. start \in Nat
  <2> HIDE DEF i, zeros
  <2> QED BY <1>1, <1>2
<1> HIDE DEF i, before, zeros, n, next, start
<1>4. <<>> \in Seq(Nat)
  OBVIOUS
<1>5. v \in Seq(Nat) /\ Len(v) > 0
  <2>1. v \in Seq(Nat) /\ Len(v) >= 1
    BY <1>2, <1>4, VarUintRead
  <2> HIDE DEF v
  <2> QED BY <2>1
<1>6. w \in Seq(Nat)
  BY <1>2, <1>4, VarUintRead
<1>7. d \in Seq(Nat)
  BY <1>0, <1>1, <1>2, DeltasAreNumbers
<1> QED
  BY <1>3, <1>5, <1>6, <1>7 DEF i, before, zeros, n, next, start

LEMMA RvlFollows ==
    ASSUME NEW s \in Seq(Nat), NEW e, NEW k \in Nat, Coded(s, e, k), RvlBase \in Nat, RvlBase >= 2
    PROVE  Follows(s, e, Codec!RvlRun(s, e))
<1>1. CASE e.index = Len(s)
  BY <1>1 DEF Follows, Codec!RvlRun
<1>2. CASE e.index # Len(s)
  <2> DEFINE i == e.index
             a == e.out
             before == e.previous
             zeros == RvlZeros(s, e)
             n == RvlOthers(s, e)
             next == Codec!RvlRun(s, e)
             v == Codec!VarUint(zeros, RvlBase)
             w == Codec!VarUint(n, RvlBase)
             d == Codec!Deltas(s, i + zeros, n, e.previous, RvlBase)
             t == (v \o w) \o d
  <2>1. i \in Nat /\ i < Len(s) /\ before \in Nat /\ Len(s) \in Nat /\ e.index < Len(s)
    BY <1>2 DEF Coded
  <2>2. zeros \in Nat /\ n \in Nat /\ zeros + n > 0 /\ i + zeros + n <= Len(s)
    BY <2>1, RvlTakes
  <2>3. /\ v \in Seq(Nat) /\ w \in Seq(Nat) /\ d \in Seq(Nat) /\ Len(v) > 0
        /\ next.index = i + zeros + n /\ next.out = a \o t
        /\ next.previous = IF n = 0 THEN before ELSE s[i + zeros + n]
    BY <2>1, RvlWrites
  <2> HIDE DEF i, a, before, zeros, n, next, v, w, d
  <2>4. t \in Seq(Nat) /\ Len(t) > 0
    <3>1. v \o w \in Seq(Nat) /\ Len(v \o w) = Len(v) + Len(w) /\ Len(v) \in Nat /\ Len(w) \in Nat
      BY <2>3
    <3> DEFINE u == v \o w
    <3> HIDE DEF u
    <3>2. u \in Seq(Nat) /\ Len(u) \in Nat /\ Len(u) > 0
      BY <2>3, <3>1 DEF u
    <3>3. u \o d \in Seq(Nat) /\ Len(u \o d) = Len(u) + Len(d) /\ Len(d) \in Nat
      BY <2>3, <3>2
    <3>4. Len(u \o d) > 0
      BY <3>2, <3>3
    <3> QED BY <3>3, <3>4 DEF u
  <2> HIDE DEF t
  <2>5. next.index \in 0..Len(s) /\ next.index > i
    BY <2>1, <2>2, <2>3
  <2>6. next.previous \in Nat
    <3>1. CASE n = 0
      BY <2>1, <2>3, <3>1
    <3>2. CASE n # 0
      <4>1. i + zeros + n \in 1..Len(s)
        BY <2>1, <2>2, <3>2
      <4>2. s[i + zeros + n] \in Nat
        BY <4>1
      <4> QED BY <2>3, <3>2, <4>2
    <3> QED BY <3>1, <3>2
  <2>7. \E x \in Seq(Nat) : next.out = a \o x /\ Len(x) > 0
    BY <2>3, <2>4
  <2> QED BY <1>2, <2>5, <2>6, <2>7 DEF Follows, next, i, a
<1> QED
  BY <1>1, <1>2

LEMMA RvlReads ==
    ASSUME NEW s \in Seq(Nat), Raw(s), NEW e, NEW k \in Nat, Coded(s, e, k), e.index < Len(s),
           RvlBase \in Nat, RvlBase >= 2, MaxRaw \in Nat,
           NEW p \in Seq(Nat), LiesAt(p, 1, Codec!RvlRun(s, e).out)
    PROVE  Codec!UnRvlRun(p, Len(s), StateOf(s, e)) = StateOf(s, Codec!RvlRun(s, e))
<1> DEFINE i == e.index
           a == e.out
           before == e.previous
           next == Codec!RvlRun(s, e)
           j == Len(a) + 1
           r == StateOf(s, e)
           left == Len(s) - i
           zeros == RvlZeros(s, e)
           n == RvlOthers(s, e)
           v == Codec!VarUint(zeros, RvlBase)
           w == Codec!VarUint(n, RvlBase)
           start == i + zeros
           d == Codec!Deltas(s, start, n, before, RvlBase)
           t == (v \o w) \o d
           first == Codec!ReadVar(p, j, RvlBase)
           jw == j + Len(v)
           second == Codec!ReadVar(p, jw, RvlBase)
           jd == jw + Len(w)
<1>1. /\ i \in Nat /\ i < Len(s) /\ before \in Nat /\ a \in Seq(Nat) /\ Len(s) \in Nat
      /\ Len(p) \in Nat /\ Len(a) \in Nat
  BY DEF Coded
<1>2. r = Reached(j, before, SubSeq(s, 1, i))
  BY DEF StateOf
<1>3. /\ zeros \in Nat /\ n \in Nat /\ start + n <= Len(s)
      /\ \A m \in (i + 1)..(i + zeros) : s[m] = 0
  BY RvlTakes
<1>4. /\ v \in Seq(Nat) /\ w \in Seq(Nat) /\ d \in Seq(Nat)
      /\ next.index = start + n /\ next.out = a \o t
      /\ next.previous = IF n = 0 THEN before ELSE s[start + n]
  BY RvlWrites
<1>d. /\ left = Len(s) - i /\ j = Len(a) + 1 /\ start = i + zeros
      /\ v = Codec!VarUint(zeros, RvlBase) /\ w = Codec!VarUint(n, RvlBase)
      /\ d = Codec!Deltas(s, start, n, before, RvlBase)
      /\ jw = j + Len(v) /\ jd = jw + Len(w)
  OBVIOUS
<1>o. LiesAt(p, 1, next.out)
  OBVIOUS
<1> HIDE DEF i, a, before, next, j, r, left, zeros, n, v, w, start, d, jw, jd
<1>5. /\ j \in Nat /\ left \in Nat /\ left > 0 /\ Len(v) \in Nat /\ Len(w) \in Nat /\ Len(d) \in Nat
      /\ start \in Nat /\ jw \in Nat /\ jd \in Nat
  <2>1. Len(v) \in Nat /\ Len(w) \in Nat /\ Len(d) \in Nat
    BY <1>4
  <2>2. start \in Nat
    BY <1>1, <1>3, <1>d
  <2>3. j \in Nat /\ left \in Nat /\ left > 0
    BY <1>1, <1>d
  <2>4. jw \in Nat
    BY <2>1, <2>3, <1>d
  <2>5. jd \in Nat
    BY <2>1, <2>4, <1>d
  <2> QED BY <2>1, <2>2, <2>3, <2>4, <2>5
<1>6. r.ok = TRUE /\ r.next = j /\ r.previous = before /\ r.samples = SubSeq(s, 1, i)
  BY <1>2 DEF Reached
<1>7. Len(s) - Len(r.samples) = left
  <2>1. Len(SubSeq(s, 1, i)) = i
    BY <1>1
  <2> QED BY <1>d, <1>6, <2>1
<1>8. v \o w \in Seq(Nat) /\ Len(v \o w) = Len(v) + Len(w)
  BY <1>4
<1>9. t \in Seq(Nat) /\ Len(t) = Len(v) + Len(w) + Len(d)
  <2> DEFINE u == v \o w
  <2> HIDE DEF u
  <2>1. u \in Seq(Nat) /\ Len(u) = Len(v) + Len(w)
    BY <1>8 DEF u
  <2>2. u \o d \in Seq(Nat) /\ Len(u \o d) = Len(u) + Len(d)
    BY <1>4, <2>1
  <2> QED BY <2>1, <2>2 DEF u
<1>10. LiesAt(p, j, t) /\ Len(next.out) + 1 = jd + Len(d)
  <2> HIDE DEF t
  <2>1. LiesAt(p, 1, a \o t)
    BY <1>4, <1>o
  <2>2. LiesAt(p, 1 + Len(a), t)
    BY <1>1, <1>9, <2>1, LiesAtParts
  <2>3. 1 + Len(a) = j
    BY <1>1, <1>d
  <2>4. Len(a \o t) = Len(a) + Len(t) /\ Len(t) \in Nat
    <3>1. a \in Seq(Nat) /\ t \in Seq(Nat)
      BY <1>1, <1>9
    <3> QED BY <3>1
  <2>5. Len(next.out) = Len(a) + Len(t)
    BY <1>4, <2>4
  <2>6. Len(next.out) + 1 = jd + Len(d)
    BY <1>1, <1>5, <1>9, <1>d, <2>5
  <2> QED BY <2>2, <2>3, <2>6
<1>11. LiesAt(p, j, v) /\ LiesAt(p, jw, w) /\ LiesAt(p, jd, d)
  <2> DEFINE u == v \o w
  <2>0. u \in Seq(Nat) /\ LiesAt(p, j, u \o d) /\ Len(u) = Len(v) + Len(w)
    BY <1>8, <1>10
  <2>u. u = v \o w
    OBVIOUS
  <2> HIDE DEF u
  <2>1. LiesAt(p, j, u) /\ LiesAt(p, j + Len(u), d)
    BY <1>1, <1>4, <2>0, LiesAtParts
  <2>2. LiesAt(p, j, v) /\ LiesAt(p, j + Len(v), w)
    BY <1>1, <1>4, <2>1, <2>u, LiesAtParts
  <2>3. j + Len(u) = jd /\ j + Len(v) = jw
    BY <1>5, <1>d, <2>0
  <2> QED BY <2>1, <2>2, <2>3
<1> HIDE DEF t
<1>12. first = [ok |-> TRUE, value |-> zeros, next |-> jw]
  <2>1. LiesAt(p, j, Codec!VarUint(zeros, RvlBase))
    BY <1>11, <1>d
  <2>2. Codec!ReadVar(p, j, RvlBase) =
            [ok |-> TRUE, value |-> zeros, next |-> j + Len(Codec!VarUint(zeros, RvlBase))]
    BY <1>3, <1>5, <2>1, VarUintRead
  <2> QED BY <2>2, <1>d
<1>13. second = [ok |-> TRUE, value |-> n, next |-> jd]
  <2>1. LiesAt(p, jw, Codec!VarUint(n, RvlBase))
    BY <1>11, <1>d
  <2>2. Codec!ReadVar(p, jw, RvlBase) =
            [ok |-> TRUE, value |-> n, next |-> jw + Len(Codec!VarUint(n, RvlBase))]
    BY <1>3, <1>5, <2>1, VarUintRead
  <2> QED BY <2>2, <1>d
<1> DEFINE r2 == Reached(jd, before, SubSeq(s, 1, start))
<1>14. SubSeq(s, 1, i) \o Codec!Zeros(zeros) = SubSeq(s, 1, start)
  <2>1. i + zeros <= Len(s)
    BY <1>1, <1>3, <1>d
  <2> QED BY <1>1, <1>3, <1>d, <2>1, SubSeqZeros
<1> HIDE DEF first, second
<1>15. first.ok = TRUE /\ first.value = zeros /\ first.next = jw
  BY <1>12
<1>16. second.ok = TRUE /\ second.value = n /\ second.next = jd
  BY <1>13
<1>17. [ok |-> TRUE, next |-> second.next, previous |-> r.previous,
        samples |-> r.samples \o Codec!Zeros(first.value)] = r2
  BY <1>6, <1>14, <1>15, <1>16 DEF Reached
<1>r. r2 = Reached(jd, before, SubSeq(s, 1, start))
  OBVIOUS
<1> HIDE DEF r2
<1>18. Codec!UnRvlRun(p, Len(s), r) = Codec!Run(p, r2, n, 1, RvlBase)
  <2>1. ~(zeros > left) /\ ~(n > left - zeros) /\ left # 0
    <3>1. zeros \in Nat /\ n \in Nat /\ start + n <= Len(s)
      BY <1>3
    <3>2. start = i + zeros /\ left = Len(s) - i
      BY <1>d
    <3> QED BY <1>1, <1>5, <3>1, <3>2
  <2>2. first = Codec!ReadVar(p, r.next, RvlBase)
    BY <1>6 DEF first
  <2>3. second = Codec!ReadVar(p, first.next, RvlBase)
    BY <1>15 DEF second
  <2> QED BY <1>6, <1>7, <1>15, <1>16, <1>17, <2>1, <2>2, <2>3 DEF Codec!UnRvlRun
<1>19. LiesAt(p, jd, Codec!Deltas(s, start, n, before, RvlBase))
  BY <1>11, <1>d
<1>20. Codec!Run(p, Reached(jd, before, SubSeq(s, 1, start)), n, 1, RvlBase) =
           Reached(jd + Len(Codec!Deltas(s, start, n, before, RvlBase)),
                   ValueBefore(s, start, before, n + 1), SubSeq(s, 1, start + n))
  BY <1>1, <1>3, <1>5, <1>19, DeltasRead
<1>21. ValueBefore(s, start, before, n + 1) = next.previous
  <2>1. (n + 1 = 1) <=> (n = 0)
    BY <1>3
  <2>2. n # 0 => start + (n + 1) - 1 = start + n
    BY <1>3, <1>5
  <2> QED BY <1>4, <2>1, <2>2 DEF ValueBefore
<1>22. StateOf(s, next) = Reached(jd + Len(d), next.previous, SubSeq(s, 1, start + n))
  BY <1>4, <1>10 DEF StateOf
<1> QED
  BY <1>18, <1>20, <1>21, <1>22, <1>r, <1>d DEF next, r

\* rvl gives every frame back.
LEMMA RvlRestores ==
    ASSUME NEW s \in Seq(Nat), Raw(s), RvlBase \in Nat, RvlBase >= 2, MaxRaw \in Nat
    PROVE  Codec!UnRvl(Codec!Rvl(s), Len(s)) = Codec!Good(s)
<1> DEFINE p == Codec!Rvl(s)
<1>1. PICK c : CodesRvl(c, s)
  BY CodesRvlLoop
<1>2. /\ c[0] = Codec!NothingCoded /\ p = c[Len(s)].out
      /\ \A k \in 0..(Len(s) - 1) : c[k + 1] = Codec!RvlRun(s, c[k])
  BY <1>1 DEF CodesRvl
<1>3. \A k \in 0..(Len(s) - 1) : Coded(s, c[k], k) => Follows(s, c[k], c[k + 1])
  BY <1>2, RvlFollows
<1>4. p \in Seq(Nat)
  BY <1>2, <1>3, CodedThrough
<1> HIDE DEF p
<1>5. PICK d : DecodesRvl(d, p, Len(s))
  BY <1>4, DecodesRvlLoop
<1>6. /\ d[0] = Codec!Started /\ Codec!UnRvl(p, Len(s)) = Codec!Result(d[Len(p)], Len(s))
      /\ \A k \in 0..(Len(p) - 1) : d[k + 1] = Codec!UnRvlRun(p, Len(s), d[k])
  BY <1>5 DEF DecodesRvl
<1>7. \A k \in 0..(Len(p) - 1) : d[k].ok = TRUE /\ Len(d[k].samples) = Len(s) => d[k + 1] = d[k]
  <2> TAKE k \in 0..(Len(p) - 1)
  <2> HAVE d[k].ok = TRUE /\ Len(d[k].samples) = Len(s)
  <2>1. Len(s) - Len(d[k].samples) = 0
    OBVIOUS
  <2> QED BY <1>6, <2>1 DEF Codec!UnRvlRun
<1>8. ASSUME NEW k \in 0..(Len(p) - 1), k \in 0..(Len(s) - 1), Coded(s, c[k], k), c[k].index < Len(s),
             LiesAt(p, 1, c[k + 1].out), d[k] = StateOf(s, c[k])
      PROVE  d[k + 1] = StateOf(s, c[k + 1])
  <2>1. c[k + 1] = Codec!RvlRun(s, c[k]) /\ d[k + 1] = Codec!UnRvlRun(p, Len(s), d[k])
    BY <1>2, <1>6, <1>8
  <2> QED BY <1>4, <1>8, <2>1, RvlReads
<1>9. Codec!Result(d[Len(p)], Len(s)) = Codec!Good(s)
  BY <1>2, <1>3, <1>4, <1>6, <1>7, <1>8, Lockstep
<1> QED
  BY <1>6, <1>9 DEF p
-----------------------------------------------------------------------------
\* The quantisation

LEMMA DivMonotone ==
    ASSUME NEW a \in Nat, NEW b \in Nat, NEW n \in Nat, n > 0, a <= b
    PROVE  a \div n <= b \div n
<1> DEFINE p == a \div n
           q == b \div n
           r == a % n
           t == b % n
<1>1. p \in Nat /\ r \in Nat /\ r < n /\ a = (n * p) + r
  BY DivMod
<1>2. q \in Nat /\ t \in Nat /\ t < n /\ b = (n * q) + t
  BY DivMod
<1> HIDE DEF p, q, r, t
<1>3. CASE p >= q + 1
  <2>1. n * p >= n * (q + 1)
    BY <1>1, <1>2, <1>3
  <2>2. n * (q + 1) = (n * q) + n
    BY <1>2
  <2> QED BY <1>1, <1>2, <2>1, <2>2
<1>4. p <= q
  BY <1>1, <1>2, <1>3
<1> QED
  BY <1>4 DEF p, q

\* What a sample becomes on the way
Sent(v, step, max) == Codec!Restored(Codec!Quantized(v, step, max), step)

LEMMA HalfStep ==
    ASSUME NEW v \in Nat, NEW step \in Nat, step > 0
    PROVE  LET h == step \div 2  t == (v + (step \div 2)) \div step
           IN /\ h \in Nat /\ h < step /\ t \in Nat
              /\ (t * step) - v <= h /\ v - (t * step) <= h
              /\ t = 0 => v < step
<1> DEFINE h == step \div 2
           m == step % 2
           t == (v + h) \div step
           r == (v + h) % step
<1>1. h \in Nat /\ m \in Nat /\ m < 2 /\ step = (2 * h) + m
  BY DivMod
<1> HIDE DEF h, m
<1>2. v + h \in Nat
  BY <1>1
<1>3. t \in Nat /\ r \in Nat /\ r < step /\ v + h = (step * t) + r
  BY <1>2, DivMod
<1> HIDE DEF t, r
<1>4. step * t = t * step
  BY <1>3
<1> DEFINE x == t * step
<1>5. x \in Nat /\ v + h = x + r /\ (t = 0 => x = 0)
  BY <1>3, <1>4
<1> HIDE DEF x
<1>6. h < step /\ x - v <= h /\ v - x <= h /\ (t = 0 => v < step)
  BY <1>1, <1>3, <1>5
<1> QED
  BY <1>1, <1>3, <1>6 DEF h, t, x

LEMMA Products ==
    ASSUME NEW a \in Nat, NEW b \in Nat, NEW n \in Nat, a <= b
    PROVE  a * n \in Nat /\ a * n <= b * n
  OBVIOUS

LEMMA SentIsNear ==
    ASSUME NEW v \in 0..MaxRaw, NEW step \in Nat, step > 0, MaxRaw \in Nat, MaxRaw > 0,
           NEW max \in Nat, max > 0
    PROVE  /\ Sent(v, step, max) \in 0..MaxRaw
           /\ (Sent(v, step, max) = 0) = (v = 0)
           /\ Codec!Nearest(v, Sent(v, step, max), step, max)
<1> DEFINE h == step \div 2
           t == (v + (step \div 2)) \div step
           q == Codec!Quantized(v, step, max)
           r == Sent(v, step, max)
<1>1. /\ h \in Nat /\ h < step /\ t \in Nat /\ (t * step) - v <= h /\ v - (t * step) <= h
      /\ t = 0 => v < step
  BY HalfStep
<1>2. q = IF v = 0 THEN 0 ELSE IF t < 1 THEN 1 ELSE IF t > max THEN max ELSE t
  BY DEF Codec!Quantized, Codec!Clamp
<1>3. r = Codec!Clamp(q * step, 0, MaxRaw)
  BY DEF Sent, Codec!Restored
<1>4. Codec!Nearest(v, r, step, max) <=>
          \/ v - r <= h /\ r - v <= h
          \/ v < step /\ r = Codec!Clamp(step, 0, MaxRaw)
          \/ v > max * step /\ r = max * step
  BY DEF Codec!Nearest
<1> HIDE DEF h, t, q, r
<1>5. CASE v = 0
  <2>1. q * step = 0
    BY <1>2, <1>5
  <2>2. r = 0
    BY <1>3, <2>1 DEF Codec!Clamp
  <2> QED BY <1>1, <1>4, <1>5, <2>2 DEF r
<1>6. CASE v # 0 /\ t < 1
  <2>1. q * step = step /\ t = 0
    BY <1>1, <1>2, <1>6
  <2>2. r = Codec!Clamp(step, 0, MaxRaw) /\ v < step
    BY <1>1, <1>3, <2>1
  <2>3. r \in 0..MaxRaw /\ r # 0
    BY <2>2 DEF Codec!Clamp
  <2> QED BY <1>4, <1>6, <2>2, <2>3 DEF r
<1>7. CASE v # 0 /\ t > max
  <2> DEFINE x == t * step
             y == max * step
  <2>1. q = max
    BY <1>2, <1>7, <1>1
  <2>2. (max + 1) * step <= t * step
    BY <1>1, <1>7, Products
  <2>3. (max + 1) * step = (max * step) + step /\ x \in Nat /\ y \in Nat /\ y >= step
    <3>1. 1 * step <= max * step
      BY Products
    <3> QED BY <1>1, <3>1
  <2>4. x - v <= h /\ x >= y + step
    BY <1>1, <2>2, <2>3
  <2>5. r = Codec!Clamp(y, 0, MaxRaw)
    BY <1>3, <2>1
  <2> HIDE DEF x, y
  <2>6. v > y
    BY <1>1, <2>3, <2>4
  <2>7. r = y /\ y > 0
    BY <2>3, <2>5, <2>6 DEF Codec!Clamp
  <2>8. v > max * step /\ r = max * step
    BY <2>6, <2>7 DEF y
  <2> QED BY <1>4, <1>7, <2>3, <2>6, <2>7, <2>8 DEF r
<1>8. CASE v # 0 /\ ~(t < 1) /\ ~(t > max)
  <2> DEFINE x == t * step
  <2>1. r = Codec!Clamp(x, 0, MaxRaw)
    BY <1>2, <1>3, <1>8
  <2>2. x \in Nat /\ x >= step
    <3>1. 1 * step <= t * step
      BY <1>1, <1>8, Products
    <3> QED BY <1>1, <3>1
  <2>3. x - v <= h /\ v - x <= h
    BY <1>1
  <2> HIDE DEF x
  <2>4. r \in 0..MaxRaw /\ r # 0 /\ v - r <= h /\ r - v <= h
    BY <2>1, <2>2, <2>3, <1>1 DEF Codec!Clamp
  <2> QED BY <1>4, <1>8, <2>4 DEF r
<1> QED
  BY <1>5, <1>6, <1>7, <1>8

LEMMA SentInOrder ==
    ASSUME NEW v \in 0..MaxRaw, NEW w \in 0..MaxRaw, v <= w, NEW step \in Nat, step > 0,
           MaxRaw \in Nat, MaxRaw > 0, NEW max \in Nat, max > 0
    PROVE  Sent(v, step, max) <= Sent(w, step, max)
<1> DEFINE h == step \div 2
           T(x) == (x + h) \div step
           Q(x) == Codec!Quantized(x, step, max)
<1>1. h \in Nat /\ T(v) \in Nat /\ T(w) \in Nat
  BY HalfStep
<1>2. \A x \in {v, w} : Q(x) = IF x = 0 THEN 0 ELSE IF T(x) < 1 THEN 1 ELSE IF T(x) > max THEN max ELSE T(x)
  BY DEF Codec!Quantized, Codec!Clamp
<1>3. \A x \in {v, w} : Sent(x, step, max) = Codec!Clamp(Q(x) * step, 0, MaxRaw)
  BY DEF Sent, Codec!Restored
<1> HIDE DEF h, Q
<1>4. T(v) <= T(w)
  <2>1. v + h \in Nat /\ w + h \in Nat /\ v + h <= w + h
    BY <1>1
  <2> QED BY <2>1, DivMonotone
<1> HIDE DEF T
<1>5. Q(v) \in Nat /\ Q(w) \in Nat /\ Q(v) <= Q(w)
  BY <1>1, <1>2, <1>4
<1> DEFINE a == Q(v) * step
           b == Q(w) * step
<1>6. a \in Nat /\ b \in Nat /\ a <= b
  BY <1>5, Products
<1>7. Sent(v, step, max) = Codec!Clamp(a, 0, MaxRaw) /\ Sent(w, step, max) = Codec!Clamp(b, 0, MaxRaw)
  BY <1>3
<1> HIDE DEF a, b
<1> QED
  BY <1>6, <1>7 DEF Codec!Clamp

-----------------------------------------------------------------------------
\* 12-bit packing and the chunk tables

LEMMA PackingBack ==
    ASSUME NEW d \in Seq(Nat), HalfByte \in Nat, HalfByte > 1,
           \A i \in 1..Len(d) : d[i] <= Codec!Max12
    PROVE  Codec!Unpack12(Codec!Pack12(d), Len(d)) = d
<1> DEFINE p == Codec!Pack12(d)
           H == HalfByte
           B == Codec!Byte
           N == Len(d)
           L == 3 * ((N + 1) \div 2)
<1>1. N \in Nat /\ H \in Nat /\ H > 1
  OBVIOUS
<1>b. B \in Nat /\ B > 0 /\ B = H * H /\ Codec!Max12 = (H * B) - 1
  <2>1. B = H * H
    BY DEF Codec!Byte
  <2>2. H * 1 <= H * H
    BY <1>1
  <2>3. Codec!Max12 = (H * H * H) - 1 /\ H * H * H = H * (H * H)
    BY <1>1 DEF Codec!Max12
  <2> HIDE DEF B
  <2> QED BY <1>1, <2>1, <2>2, <2>3
<1> DEFINE A(k) == d[2 * k + 1]
           S(k) == Codec!At(d, 2 * k + 2)
<1>p. \A k \in Nat : 2 * k + 1 <= N =>
         /\ p[3 * k + 1] = A(k) % B
         /\ p[3 * k + 2] = (A(k) \div B) + ((S(k) % H) * H)
         /\ p[3 * k + 3] = S(k) \div H
  <2> TAKE k \in Nat
  <2> HAVE 2 * k + 1 <= N
  <2> DEFINE half == (N + 1) \div 2
  <2>1. half \in Nat /\ k + 1 <= half
    <3>1. half \in Nat /\ (N + 1) % 2 \in Nat /\ (N + 1) % 2 < 2 /\ N + 1 = (2 * half) + ((N + 1) % 2)
      BY <1>1, DivMod
    <3> DEFINE m == (N + 1) % 2
    <3> HIDE DEF half, m
    <3>2. m \in Nat /\ m < 2 /\ N + 1 = (2 * half) + m
      BY <3>1 DEF m
    <3> QED BY <1>1, <3>1, <3>2
  <2>2. L = 3 * half
    OBVIOUS
  <2> HIDE DEF half, L
  <2>3. 3 * k + 1 \in 1..L /\ 3 * k + 2 \in 1..L /\ 3 * k + 3 \in 1..L
    BY <2>1, <2>2
  <2>4. /\ (3 * k + 1) % 3 = 1 /\ (3 * k + 1 - 1) \div 3 = k
        /\ (3 * k + 2) % 3 = 2 /\ (3 * k + 2 - 1) \div 3 = k
        /\ (3 * k + 3) % 3 = 0 /\ (3 * k + 3 - 1) \div 3 = k
    OBVIOUS
  <2> DEFINE F1(x) == d[2 * x + 1] % B
             F2(x) == (d[2 * x + 1] \div B) + (Codec!At(d, 2 * x + 2) % H) * H
             F3(x) == Codec!At(d, 2 * x + 2) \div H
             F(j) == IF j % 3 = 1 THEN F1((j - 1) \div 3)
                     ELSE IF j % 3 = 2 THEN F2((j - 1) \div 3) ELSE F3((j - 1) \div 3)
  <2>5. p = [j \in 1..L |-> F(j)]
    BY DEF Codec!Pack12, L
  <2>6. \A j \in 1..L : p[j] = F(j)
    <3> HIDE DEF F, p
    <3> QED BY <2>5
  <2>7. p[3 * k + 1] = F(3 * k + 1) /\ p[3 * k + 2] = F(3 * k + 2) /\ p[3 * k + 3] = F(3 * k + 3)
    <3> HIDE DEF F, p
    <3> QED BY <2>3, <2>6
  <2>8. F(3 * k + 1) = F1(k) /\ F(3 * k + 2) = F2(k) /\ F(3 * k + 3) = F3(k)
    <3> HIDE DEF F1, F2, F3
    <3> QED BY <2>4, SMTT(30)
  <2> HIDE DEF F, p
  <2> QED BY <2>7, <2>8
<1> DEFINE G(i) == LET k == 3 * ((i - 1) \div 2)
                   IN IF i % 2 = 1 THEN p[k + 1] + (p[k + 2] % HalfByte) * Codec!Byte
                      ELSE (p[k + 2] \div HalfByte) + p[k + 3] * HalfByte
<1>2. Codec!Unpack12(p, N) = [i \in 1..N |-> G(i)]
  BY DEF Codec!Unpack12
<1> HIDE DEF p, B
<1>s. ASSUME NEW k \in Nat, 2 * k + 1 <= N
      PROVE  /\ A(k) \in Nat /\ S(k) \in Nat /\ A(k) <= Codec!Max12
             /\ p[3 * k + 1] + (p[3 * k + 2] % H) * B = A(k)
             /\ (p[3 * k + 2] \div H) + p[3 * k + 3] * H = S(k)
  <2> DEFINE a == A(k)
             b == S(k)
             aq == a \div B
             ar == a % B
             bq == b \div H
             br == b % H
             p1 == p[3 * k + 1]
             p2 == p[3 * k + 2]
             p3 == p[3 * k + 3]
  <2>1. a \in Nat /\ b \in Nat /\ a <= Codec!Max12
    <3>1. 2 * k + 1 \in 1..N
      BY <1>s
    <3>2. 2 * k + 2 <= N => 2 * k + 2 \in 1..N
      OBVIOUS
    <3> QED BY <3>1, <3>2 DEF Codec!At
  <2>2. p1 = ar /\ p2 = aq + (br * H) /\ p3 = bq
    BY <1>p, <1>s
  <2> HIDE DEF a, b, p1, p2, p3
  <2>3. aq \in Nat /\ ar \in Nat /\ a = (B * aq) + ar
    BY <2>1, <1>b, DivMod
  <2>4. bq \in Nat /\ br \in Nat /\ br < H /\ b = (H * bq) + br
    BY <2>1, <1>1, DivMod
  <2> HIDE DEF aq, ar, bq, br
  <2>5. aq < H
    <3>1. CASE aq >= H
      <4>1. B * H <= B * aq
        BY <1>1, <1>b, <2>3, <3>1
      <4>2. B * H = H * B
        BY <1>1, <1>b
      <4> QED BY <1>b, <2>1, <2>3, <4>1, <4>2
    <3> QED BY <3>1, <2>3, <1>1
  <2>6. ((br * H) + aq) \div H = br /\ ((br * H) + aq) % H = aq
    BY <1>1, <2>3, <2>4, <2>5, DivModUnique
  <2>7. p2 = (br * H) + aq
    BY <1>1, <2>2, <2>3, <2>4
  <2>8. p2 % H = aq /\ p2 \div H = br
    BY <2>6, <2>7
  <2>9. ar + aq * B = a
    BY <2>3, <1>b
  <2>10. br + bq * H = b
    BY <2>4, <1>1
  <2>11. p1 + (p2 % H) * B = a /\ (p2 \div H) + p3 * H = b
    BY <2>2, <2>8, <2>9, <2>10
  <2> QED BY <2>1, <2>11 DEF a, b, p1, p2, p3
<1>3. ASSUME NEW i \in 1..N PROVE G(i) = d[i]
  <2> DEFINE k == (i - 1) \div 2
             m == (i - 1) % 2
  <2>1. k \in Nat /\ m \in Nat /\ m < 2 /\ i - 1 = (2 * k) + m
    <3>1. i - 1 \in Nat
      OBVIOUS
    <3> QED BY <3>1, DivMod
  <2>2. G(i) = IF i % 2 = 1 THEN p[3 * k + 1] + (p[3 * k + 2] % H) * B
               ELSE (p[3 * k + 2] \div H) + p[3 * k + 3] * H
    BY DEF B
  <2> HIDE DEF G, k, m
  <2>3. 2 * k + 1 <= N
    BY <2>1
  <2>4. /\ p[3 * k + 1] + (p[3 * k + 2] % H) * B = A(k)
        /\ (p[3 * k + 2] \div H) + p[3 * k + 3] * H = S(k)
    BY <1>s, <2>1, <2>3
  <2>5. CASE m = 0
    <3>1. i = 2 * k + 1 /\ i % 2 = 1
      BY <2>1, <2>5
    <3> QED BY <2>2, <2>4, <3>1
  <2>6. CASE m = 1
    <3>1. i = 2 * k + 2 /\ i % 2 # 1
      BY <2>1, <2>6
    <3>2. S(k) = d[i]
      BY <3>1 DEF Codec!At
    <3> QED BY <2>2, <2>4, <3>1, <3>2
  <2> QED BY <2>1, <2>5, <2>6
<1> HIDE DEF G
<1>4. [i \in 1..N |-> G(i)] = d
  <2>1. d = [i \in 1..N |-> d[i]]
    OBVIOUS
  <2> QED BY <1>3, <2>1
<1> QED
  BY <1>2, <1>4 DEF p

LEMMA ChunkCounts ==
    ASSUME NEW n \in Nat, n > 0, ChunkSamples \in Nat, ChunkSamples > 0
    PROVE  LET C == Codec!ChunkCount(n)
           IN C \in Nat /\ C > 0 /\ (C - 1) * ChunkSamples < n /\ n <= C * ChunkSamples
<1> DEFINE S == ChunkSamples
           a == n + S - 1
           C == a \div S
           r == a % S
<1>1. a \in Nat
  OBVIOUS
<1>d. a = n + S - 1
  OBVIOUS
<1> HIDE DEF a
<1>2. C \in Nat /\ r \in Nat /\ r < S /\ a = (S * C) + r
  BY <1>1, DivMod
<1>3. C = Codec!ChunkCount(n)
  BY DEF Codec!ChunkCount, a
<1> HIDE DEF C, r
<1>4. (C - 1) * S = (S * C) - S /\ C * S = S * C
  BY <1>2
<1> DEFINE x == S * C
<1>5. x \in Int
  BY <1>2
<1>x. C = 0 => x = 0
  BY <1>2
<1>6. a = x + r /\ (C - 1) * S = x - S /\ C * S = x
  BY <1>2, <1>4
<1> HIDE DEF x
<1>7. x - S < n /\ n <= x
  BY <1>2, <1>5, <1>6, <1>d
<1>8. C > 0
  BY <1>2, <1>7, <1>x
<1> QED
  BY <1>2, <1>3, <1>6, <1>7, <1>8

\* A frame's chunks: where the k-th begins, how many samples it has, and which.
LEMMA ChunksOf ==
    ASSUME NEW s \in Seq(Nat), Len(s) > 0, ChunkSamples \in Nat, ChunkSamples > 0
    PROVE  LET c == Codec!Chunked(s)  C == Codec!ChunkCount(Len(s))
           IN /\ DOMAIN c = 1..C /\ Len(c) = C /\ c # <<>> /\ C \in Nat /\ C > 0
              /\ \A k \in 1..C :
                    /\ c[k] = [offset |-> c[k].offset, count |-> c[k].count, data |-> c[k].data]
                    /\ c[k].offset \in Nat /\ c[k].count \in Nat /\ c[k].count > 0
                    /\ c[k].offset = (k - 1) * ChunkSamples
                    /\ c[k].offset + c[k].count <= Len(s)
                    /\ k < C => c[k].offset + c[k].count = k * ChunkSamples
                    /\ k = C => c[k].offset + c[k].count = Len(s)
                    /\ c[k].data = SubSeq(s, c[k].offset + 1, c[k].offset + c[k].count)
<1> DEFINE S == ChunkSamples
           n == Len(s)
           c == Codec!Chunked(s)
           C == Codec!ChunkCount(n)
           O(k) == (k - 1) * S
           N(k) == IF k * S < n THEN S ELSE n - O(k)
           D(k) == SubSeq(s, O(k) + 1, O(k) + N(k))
           R(k) == [offset |-> O(k), count |-> N(k), data |-> D(k)]
<1>n. n \in Nat /\ n > 0
  OBVIOUS
<1>1. C \in Nat /\ C > 0 /\ (C - 1) * S < n /\ n <= C * S
  BY ChunkCounts
<1>2. c = [k \in 1..C |-> R(k)]
  BY DEF Codec!Chunked
<1> HIDE DEF C, c, n
<1>3. DOMAIN c = 1..C /\ \A k \in 1..C : c[k] = R(k)
  <2> HIDE DEF R
  <2> QED BY <1>2
<1>4. Len(c) = C /\ c # <<>>
  <2> DEFINE T == {R(k) : k \in 1..C}
  <2>1. c \in [1..C -> T]
    <3> HIDE DEF R
    <3> QED BY <1>2
  <2> HIDE DEF T
  <2>2. c \in Seq(T) /\ Len(c) = C
    BY <1>1, <2>1
  <2>3. Len(<<>>) = 0
    OBVIOUS
  <2> QED BY <1>1, <2>2, <2>3
<1>5. ASSUME NEW k \in 1..C
      PROVE  /\ c[k].offset = O(k) /\ c[k].count = N(k) /\ c[k].data = D(k)
             /\ c[k] = [offset |-> c[k].offset, count |-> c[k].count, data |-> c[k].data]
  <2> HIDE DEF O, N, D
  <2> QED BY <1>3
<1>6. ASSUME NEW k \in 1..C
      PROVE  /\ O(k) \in Nat /\ N(k) \in Nat /\ N(k) > 0 /\ O(k) + N(k) <= n
             /\ k < C => O(k) + N(k) = k * S
             /\ k = C => O(k) + N(k) = n
  <2> DEFINE x == k * S
             y == (k - 1) * S
             z == (C - 1) * S
  <2>1. x \in Nat /\ y \in Nat /\ x = y + S
    <3>1. k \in Nat /\ k - 1 \in Nat
      BY <1>1
    <3> QED BY <3>1
  <2>2. y <= z
    <3>1. k - 1 \in Nat /\ C - 1 \in Nat /\ k - 1 <= C - 1
      BY <1>1
    <3> QED BY <3>1, Products
  <2>3. k < C => x <= z
    <3> SUFFICES ASSUME k < C PROVE x <= z
      OBVIOUS
    <3>1. k \in Nat /\ C - 1 \in Nat /\ k <= C - 1
      BY <1>1
    <3> QED BY <3>1, Products
  <2>4. z < n /\ z \in Int
    <3>1. C - 1 \in Nat
      BY <1>1
    <3> QED BY <1>1, <3>1
  <2>5. k = C => n <= x
    BY <1>1
  <2> HIDE DEF x, y, z
  <2>6. O(k) = y /\ N(k) = IF x < n THEN S ELSE n - y
    BY DEF x, y
  <2> HIDE DEF O, N
  <2>7. /\ O(k) \in Nat /\ N(k) \in Nat /\ N(k) > 0 /\ O(k) + N(k) <= n
        /\ k < C => O(k) + N(k) = x
        /\ k = C => O(k) + N(k) = n
    BY <1>n, <2>1, <2>2, <2>3, <2>4, <2>5, <2>6
  <2> QED BY <2>7 DEF x
<1>7. ASSUME NEW k \in 1..C
      PROVE  /\ c[k] = [offset |-> c[k].offset, count |-> c[k].count, data |-> c[k].data]
             /\ c[k].offset \in Nat /\ c[k].count \in Nat /\ c[k].count > 0
             /\ c[k].offset = (k - 1) * S
             /\ c[k].offset + c[k].count <= n
             /\ k < C => c[k].offset + c[k].count = k * S
             /\ k = C => c[k].offset + c[k].count = n
             /\ c[k].data = SubSeq(s, c[k].offset + 1, c[k].offset + c[k].count)
  <2>1. c[k].offset = (k - 1) * S /\ c[k].data = SubSeq(s, O(k) + 1, O(k) + N(k))
    BY <1>5
  <2> HIDE DEF O, N, D
  <2> QED BY <1>5, <1>6, <2>1
<1> QED
  BY <1>1, <1>3, <1>4, <1>7 DEF c, C, n

LEMMA ChunksJoin ==
    ASSUME NEW s \in Seq(Nat), Len(s) > 0, ChunkSamples \in Nat, ChunkSamples > 0
    PROVE  Codec!Joined(Codec!Chunked(s), Len(s)) = Codec!Good(s)
<1> DEFINE c == Codec!Chunked(s)
           C == Codec!ChunkCount(Len(s))
           n == Len(s)
           O(k) == c[k].offset
           E(k) == Codec!EndOf(c[k])
           S == ChunkSamples
<1>1. DOMAIN c = 1..C /\ Len(c) = C /\ c # <<>> /\ C \in Nat /\ C > 0
  BY ChunksOf
<1>2. ASSUME NEW k \in 1..C
      PROVE  /\ O(k) \in Nat /\ c[k].count \in Nat /\ c[k].count > 0 /\ O(k) = (k - 1) * S
             /\ E(k) = O(k) + c[k].count /\ E(k) <= n
             /\ k < C => E(k) = k * S
             /\ k = C => E(k) = n
             /\ c[k].data = SubSeq(s, O(k) + 1, E(k))
  BY ChunksOf DEF Codec!EndOf
<1>n. n \in Nat
  OBVIOUS
<1> HIDE DEF c, C, n, O, E
<1>3. ASSUME NEW k \in 1..C, k # 1 PROVE O(k) = E(k - 1)
  <2>1. k - 1 \in 1..C /\ k - 1 < C
    BY <1>1, <1>3
  <2>2. E(k - 1) = (k - 1) * S /\ O(k) = (k - 1) * S
    BY <1>2, <2>1
  <2> QED BY <2>2
<1>4. 1 \in 1..C /\ C \in 1..C
  BY <1>1
<1>5. O(1) = 0
  <2>1. O(1) = (1 - 1) * S
    BY <1>2, <1>4
  <2> QED BY <2>1
<1>6. ASSUME NEW k \in 1..C
      PROVE  /\ c[k].offset = IF k = 1 THEN 0 ELSE Codec!EndOf(c[k - 1])
             /\ c[k].count # 0 /\ c[k].count <= n - c[k].offset
  <2>1. c[k].count # 0 /\ c[k].count <= n - O(k)
    BY <1>2, <1>n
  <2>2. O(k) = IF k = 1 THEN 0 ELSE E(k - 1)
    BY <1>3, <1>5
  <2> QED BY <2>1, <2>2 DEF O, E
<1>7. Codec!TableHolds(c, n)
  <2>1. E(C) = n
    BY <1>2, <1>4
  <2> QED BY <1>1, <1>6, <2>1 DEF Codec!TableHolds, E
\* Each place lies in a chunk.
<1>8. ASSUME NEW i \in 1..n PROVE \E k \in 1..C : O(k) < i /\ i <= E(k)
  <2> DEFINE T == {k \in 1..C : i <= E(k)}
  <2>1. T \subseteq Nat /\ T # {}
    <3>1. C \in T
      <4>1. E(C) = n
        BY <1>2, <1>4
      <4> QED BY <4>1, <1>4, <1>n
    <3> QED BY <3>1, <1>1
  <2>2. PICK k \in T : \A j \in T : k <= j
    <3> HIDE DEF T
    <3> QED BY <2>1, LeastElement
  <2>3. CASE k = 1
    BY <1>5, <2>2, <2>3
  <2>4. CASE k # 1
    <3>1. k - 1 \in 1..C /\ k - 1 < k
      BY <2>4, <1>1
    <3>2. ~(i <= E(k - 1))
      <4>1. k - 1 \notin T
        BY <2>2, <3>1
      <4> QED BY <3>1, <4>1
    <3>3. E(k - 1) \in Nat /\ O(k) = E(k - 1)
      <4>1. O(k - 1) \in Nat /\ c[k - 1].count \in Nat /\ E(k - 1) = O(k - 1) + c[k - 1].count
        BY <1>2, <3>1
      <4> QED BY <4>1, <1>3, <2>2, <2>4
    <3>4. O(k) < i
      BY <3>2, <3>3, <1>n
    <3> QED BY <3>4, <2>2
  <2> QED BY <2>3, <2>4
<1>9. ASSUME NEW i \in 1..n
      PROVE  Codec!ChunkOf(c, i).data[i - Codec!ChunkOf(c, i).offset] = s[i]
  <2> DEFINE In(k) == O(k) < i /\ i <= E(k)
             q == CHOOSE k \in 1..C : In(k)
  <2>1. q \in 1..C /\ In(q)
    <3>1. \E k \in 1..C : In(k)
      BY <1>8
    <3> HIDE DEF In
    <3> QED BY <3>1
  <2>2. Codec!ChunkOf(c, i) = c[q]
    BY <1>1 DEF Codec!ChunkOf, O, E
  <2> HIDE DEF q
  <2> DEFINE o == O(q)
             e == E(q)
  <2>3. o \in Nat /\ e \in Nat /\ o < i /\ i <= e /\ e <= n /\ c[q].data = SubSeq(s, o + 1, e)
            /\ c[q].offset = o
    <3>1. c[q].offset = o
      BY DEF O
    <3>2. o \in Nat /\ c[q].count \in Nat /\ e = o + c[q].count /\ e <= n /\ c[q].data = SubSeq(s, o + 1, e)
      BY <1>2, <2>1
    <3>3. e \in Nat
      BY <3>2
    <3> QED BY <2>1, <3>1, <3>2, <3>3
  <2> HIDE DEF o, e
  <2>4. SubSeq(s, o + 1, e)[i - o] = s[i]
    <3>1. i - o \in 1..(e - o) /\ o + 1 + (i - o) - 1 = i
      BY <2>3, <1>n
    <3> QED BY <2>3, <3>1, <1>n DEF n
  <2> QED BY <2>2, <2>3, <2>4
<1>10. [i \in 1..n |-> Codec!ChunkOf(c, i).data[i - Codec!ChunkOf(c, i).offset]] = s
  <2>1. s = [i \in 1..n |-> s[i]]
    BY DEF n
  <2> QED BY <1>9, <2>1
<1>11. Codec!Joined(c, n) = Codec!Good(s)
  BY <1>7, <1>10 DEF Codec!Joined
<1> QED
  BY <1>11 DEF c, n

LEMMA ChunksUnpack ==
    ASSUME NEW s \in Seq(Nat), Len(s) > 0, ChunkSamples \in Nat, ChunkSamples > 0,
           HalfByte \in Nat, HalfByte > 1, \A i \in 1..Len(s) : s[i] <= Codec!Max12
    PROVE  Codec!Unpacked(Codec!Packed(Codec!Chunked(s))) = Codec!Chunked(s)
<1> DEFINE c == Codec!Chunked(s)
           C == Codec!ChunkCount(Len(s))
           p == Codec!Packed(c)
           u == Codec!Unpacked(p)
<1>1. DOMAIN c = 1..C
  BY ChunksOf
<1>2. ASSUME NEW k \in 1..C
      PROVE  /\ c[k] = [offset |-> c[k].offset, count |-> c[k].count, data |-> c[k].data]
             /\ Codec!Unpack12(Codec!Pack12(c[k].data), c[k].count) = c[k].data
  <2> DEFINE o == c[k].offset
             e == c[k].count
             d == c[k].data
  <2>1. /\ c[k] = [offset |-> o, count |-> e, data |-> d] /\ o \in Nat /\ e \in Nat /\ o + e <= Len(s)
        /\ d = SubSeq(s, o + 1, o + e)
    BY ChunksOf
  <2> HIDE DEF o, e, d, c
  <2>2. d \in Seq(Nat) /\ Len(d) = e /\ \A i \in 1..e : d[i] = s[o + i] /\ o + i \in 1..Len(s)
    <3> DEFINE m == o + 1
               n == o + e
    <3>1. m \in Nat /\ m >= 1 /\ n \in Nat /\ n <= Len(s) /\ m <= n + 1 /\ n - m + 1 = e
              /\ d = SubSeq(s, m, n)
      BY <2>1
    <3>m. m = o + 1
      OBVIOUS
    <3> HIDE DEF m, n
    <3>2. d \in Seq(Nat) /\ Len(d) = n - m + 1 /\ \A i \in 1..(n - m + 1) : d[i] = s[m + i - 1]
      BY <3>1
    <3>3. ASSUME NEW i \in 1..e PROVE m + i - 1 = o + i /\ o + i \in 1..Len(s)
      <4>1. i \in Nat /\ i >= 1 /\ i <= e /\ Len(s) \in Nat
        BY <2>1
      <4>2. o \in Nat /\ e \in Nat /\ o + e <= Len(s)
        BY <2>1
      <4> QED BY <4>1, <4>2, <3>m
    <3> QED BY <3>1, <3>2, <3>3
  <2>3. \A i \in 1..Len(d) : d[i] <= Codec!Max12
    BY <2>2
  <2>4. Codec!Unpack12(Codec!Pack12(d), Len(d)) = d
    BY <2>2, <2>3, PackingBack
  <2> QED BY <2>1, <2>2, <2>4 DEF o, e, d
<1> HIDE DEF c, C
<1>0. c = [k \in 1..C |-> c[k]]
  <2>1. c = [k \in DOMAIN c |-> c[k]]
    BY DEF c, Codec!Chunked
  <2> QED BY <2>1, <1>1
<1>3. DOMAIN p = 1..C /\ \A k \in 1..C : p[k] = [offset |-> c[k].offset, count |-> c[k].count,
                                                  data |-> Codec!Pack12(c[k].data)]
  BY <1>1 DEF Codec!Packed
<1> HIDE DEF p
<1>4. ASSUME NEW k \in 1..C
      PROVE  p[k].offset = c[k].offset /\ p[k].count = c[k].count /\ p[k].data = Codec!Pack12(c[k].data)
  BY <1>3
<1>5. u = [k \in 1..C |-> [offset |-> p[k].offset, count |-> p[k].count,
                           data |-> Codec!Unpack12(p[k].data, p[k].count)]]
  BY <1>3 DEF Codec!Unpacked
<1>6. ASSUME NEW k \in 1..C
      PROVE  [offset |-> p[k].offset, count |-> p[k].count,
              data |-> Codec!Unpack12(p[k].data, p[k].count)] = c[k]
  BY <1>2, <1>4
<1>7. u = [k \in 1..C |-> c[k]]
  <2> HIDE DEF u
  <2> QED BY <1>5, <1>6
<1> QED
  BY <1>0, <1>7 DEF c, p, u
-----------------------------------------------------------------------------
\* The way of a frame

CodecNames == {"none", "zlib", "lz4", "qdelta", "rvl", "plz4", "pzlib",
               "q8lz4", "q8zlib", "pq8zlib", "pq8lz4", "pq12zlib"}
Lossless == {"none", "zlib", "lz4", "plz4", "pzlib", "qdelta", "rvl"}

\* Samples and indices there are; a digit and half a byte have two values at least; a run and
\* a chunk have a sample at least; frames are not empty.
CodecConstants ==
    /\ MaxRaw \in Nat \ {0} /\ MaxIndex \in Nat \ {0}
    /\ HalfByte \in Nat \ {0, 1} /\ VarBase \in Nat \ {0, 1} /\ RvlBase \in Nat \ {0, 1}
    /\ RunMax \in Nat \ {0} /\ ChunkSamples \in Nat \ {0}
    /\ Shapes \subseteq [w : Nat \ {0}, h : Nat \ {0}]
    /\ Scales \subseteq Nat /\ Quants \subseteq Nat /\ Codecs \subseteq CodecNames

CodecTyped ==
    /\ shape \in Shapes /\ frame \in [1..(shape.w * shape.h) -> 0..MaxRaw]
    /\ codec \in Codecs /\ scale \in Scales /\ quant \in Quants
PacketSent ==
    [codec |-> codec, w |-> shape.w, h |-> shape.h, uncompressed |-> 2 * Len(frame),
     payload |-> Codec!Payload]
CodecInv == CodecTyped /\ (coded = Codec!NoPacket \/ coded = PacketSent)

LEMMA StepIsPositive ==
    ASSUME CodecConstants, CodecTyped
    PROVE  Codec!Step \in Nat /\ Codec!Step > 0
<1>1. scale \in Nat /\ quant \in Nat /\ MaxRaw \in Nat /\ MaxRaw > 0
  BY DEF CodecConstants, CodecTyped
<1>2. CASE scale = 0 \/ quant = 0
  BY <1>2 DEF Codec!Step
<1>3. CASE ~(scale = 0 \/ quant = 0)
  <2> DEFINE q == (quant + scale - 1) \div scale
  <2>1. q \in Nat
    <3>1. quant + scale - 1 \in Nat /\ scale > 0
      BY <1>1, <1>3
    <3> QED BY <1>1, <3>1, DivMod
  <2>2. Codec!Step = Codec!Clamp(q, 1, MaxRaw)
    BY <1>3 DEF Codec!Step
  <2> HIDE DEF q
  <2> QED BY <1>1, <2>1, <2>2 DEF Codec!Clamp
<1> QED
  BY <1>2, <1>3

LEMMA FrameOfSamples ==
    ASSUME CodecConstants, CodecTyped
    PROVE  /\ frame \in Seq(Nat) /\ Len(frame) > 0 /\ Raw(frame) /\ DOMAIN frame = 1..Len(frame)
           /\ Len(frame) = shape.w * shape.h /\ shape.w \in Nat \ {0} /\ shape.h \in Nat \ {0}
           /\ \A i \in 1..Len(frame) : frame[i] \in 0..MaxRaw
<1> DEFINE w == shape.w
           h == shape.h
           n == w * h
<1>1. w \in Nat \ {0} /\ h \in Nat \ {0} /\ MaxRaw \in Nat
  BY DEF CodecConstants, CodecTyped
<1>2. n \in Nat /\ n > 0
  <2>1. 1 * h <= w * h
    BY <1>1, Products
  <2> QED BY <1>1, <2>1
<1>3. frame \in [1..n -> 0..MaxRaw]
  BY DEF CodecTyped
<1> HIDE DEF w, h, n
<1>4. frame \in Seq(Nat) /\ Len(frame) = n /\ DOMAIN frame = 1..n /\ \A i \in 1..n : frame[i] \in 0..MaxRaw
  BY <1>1, <1>2, <1>3
<1>5. Raw(frame)
  BY <1>4 DEF Raw
<1> QED
  BY <1>1, <1>2, <1>4, <1>5 DEF n, w, h

LEMMA IndicesFit ==
    ASSUME CodecConstants, CodecTyped, NEW max \in Nat, max > 0
    PROVE  LET q == Codec!Indices(frame, max)
           IN /\ q \in Seq(Nat) /\ Len(q) = Len(frame)
              /\ \A i \in 1..Len(q) : q[i] <= max
              /\ Codec!Scaled(Codec!Good(q), Codec!Step) =
                     Codec!Good([i \in 1..Len(frame) |-> Sent(frame[i], Codec!Step, max)])
<1> DEFINE N == Len(frame)
           step == Codec!Step
           Q(i) == Codec!Quantized(frame[i], step, max)
           q == Codec!Indices(frame, max)
<1>1. frame \in Seq(Nat) /\ N \in Nat /\ DOMAIN frame = 1..N
  BY FrameOfSamples
<1>2. step \in Nat /\ step > 0
  BY StepIsPositive
<1>3. q = [i \in 1..N |-> Q(i)]
  BY <1>1 DEF Codec!Indices
<1> HIDE DEF N, step
<1>4. ASSUME NEW i \in 1..N PROVE Q(i) \in Nat /\ Q(i) <= max
  <2> DEFINE v == frame[i]
             t == (v + (step \div 2)) \div step
  <2>1. v \in Nat
    BY <1>1 DEF N
  <2>2. t \in Nat
    <3> HIDE DEF v
    <3> QED BY <1>2, <2>1, HalfStep
  <2>3. Q(i) = IF v = 0 THEN 0 ELSE Codec!Clamp(t, 1, max)
    BY DEF Codec!Quantized
  <2> HIDE DEF v, t, Q
  <2> QED BY <2>2, <2>3 DEF Codec!Clamp
<1> HIDE DEF Q, q
<1>5. q \in Seq(Nat) /\ Len(q) = N /\ DOMAIN q = 1..N /\ \A i \in 1..N : q[i] = Q(i)
  BY <1>1, <1>3, <1>4
<1>6. Codec!Scaled(Codec!Good(q), step) = Codec!Good([i \in 1..N |-> Sent(frame[i], step, max)])
  <2>1. Codec!Good(q).bad = FALSE /\ Codec!Good(q).samples = q
    BY DEF Codec!Good
  <2>2. Codec!Scaled(Codec!Good(q), step) = Codec!Good([i \in DOMAIN q |-> Codec!Restored(q[i], step)])
    BY <2>1 DEF Codec!Scaled
  <2>3. \A i \in 1..N : Codec!Restored(q[i], step) = Sent(frame[i], step, max)
    BY <1>5 DEF Sent, Q
  <2>4. [i \in DOMAIN q |-> Codec!Restored(q[i], step)] = [i \in 1..N |-> Sent(frame[i], step, max)]
    BY <1>5, <2>3
  <2> QED BY <2>2, <2>4
<1> QED
  BY <1>4, <1>5, <1>6 DEF N, q, step

Largest == IF codec = "pq12zlib" THEN Codec!Max12 ELSE MaxIndex

LEMMA LargestIsPositive ==
    ASSUME CodecConstants
    PROVE  Largest \in Nat /\ Largest > 0
<1> DEFINE H == HalfByte
           B == H * H
<1>1. H \in Nat /\ H >= 2 /\ MaxIndex \in Nat /\ MaxIndex > 0
  BY DEF CodecConstants
<1>2. B \in Nat /\ 2 * H <= B
  BY <1>1, Products
<1> DEFINE D == B * H
<1>3. D \in Nat /\ 2 * H <= D
  <2> HIDE DEF B
  <2>0. 1 <= B
    BY <1>1, <1>2
  <2>1. 1 * H <= B * H
    BY <1>1, <1>2, <2>0, Products
  <2>2. 2 <= B
    BY <1>1, <1>2
  <2>3. 2 * H <= B * H /\ B * H \in Nat
    BY <1>1, <1>2, <2>2, Products
  <2> QED BY <2>3
<1>4. Codec!Max12 = D - 1
  BY DEF Codec!Max12
<1> HIDE DEF D
<1>5. Codec!Max12 \in Nat /\ Codec!Max12 > 0
  BY <1>1, <1>3, <1>4
<1> QED
  BY <1>1, <1>5 DEF Largest

\* What the receiver makes of the packet
LEMMA LosslessDecoded ==
    ASSUME CodecConstants, CodecTyped, codec \in Lossless
    PROVE  /\ Codec!Payload.step = 1
           /\ codec = "none" => Codec!Payload.data = frame
           /\ Codec!Decode(PacketSent, Len(frame)) = Codec!Good(frame)
<1> DEFINE N == Len(frame)
           p == PacketSent
           P == Codec!Payload
<1>1. frame \in Seq(Nat) /\ Len(frame) > 0 /\ Raw(frame)
  BY FrameOfSamples
<1>2. p.codec = codec /\ p.payload = P
  BY DEF PacketSent
<1>3. /\ RunMax \in Nat /\ RunMax > 0 /\ VarBase \in Nat /\ VarBase >= 2
      /\ RvlBase \in Nat /\ RvlBase >= 2 /\ MaxRaw \in Nat
      /\ ChunkSamples \in Nat /\ ChunkSamples > 0
  BY DEF CodecConstants
<1> HIDE DEF p, P, N
<1>4. CASE codec \in {"none", "zlib", "lz4"}
  <2>1. P = [step |-> 1, chunks |-> <<>>, data |-> frame]
    BY <1>4 DEF Codec!Payload, P
  <2>2. Codec!Decode(p, N) = Codec!Good(P.data)
    BY <1>2, <1>4 DEF Codec!Decode
  <2> QED BY <2>1, <2>2 DEF P, p, N
<1>5. CASE codec = "qdelta"
  <2>1. P = [step |-> 1, chunks |-> <<>>, data |-> Codec!QDelta(frame)]
    BY <1>5 DEF Codec!Payload, P
  <2>2. Codec!Decode(p, N) = Codec!UnQDelta(P.data, P.step, N)
    BY <1>2, <1>5 DEF Codec!Decode
  <2>3. Codec!UnQDelta(Codec!QDelta(frame), 1, N) = Codec!Good(frame)
    BY <1>1, <1>3, QDeltaRestores DEF N
  <2> QED BY <1>5, <2>1, <2>2, <2>3 DEF P, p, N
<1>6. CASE codec = "rvl"
  <2>1. P = [step |-> 1, chunks |-> <<>>, data |-> Codec!Rvl(frame)]
    BY <1>6 DEF Codec!Payload, P
  <2>2. Codec!Decode(p, N) = Codec!UnRvl(P.data, N)
    BY <1>2, <1>6 DEF Codec!Decode
  <2>3. Codec!UnRvl(Codec!Rvl(frame), N) = Codec!Good(frame)
    BY <1>1, <1>3, RvlRestores DEF N
  <2> QED BY <1>6, <2>1, <2>2, <2>3 DEF P, p, N
<1>7. CASE codec \in {"plz4", "pzlib"}
  <2>1. P = [step |-> 1, chunks |-> Codec!Chunked(frame), data |-> <<>>]
    BY <1>7 DEF Codec!Payload, P
  <2>2. Codec!Decode(p, N) = Codec!Joined(P.chunks, N)
    BY <1>2, <1>7 DEF Codec!Decode
  <2>3. Codec!Joined(Codec!Chunked(frame), N) = Codec!Good(frame)
    BY <1>1, <1>3, ChunksJoin DEF N
  <2> QED BY <1>7, <2>1, <2>2, <2>3 DEF P, p, N
<1> QED
  BY <1>4, <1>5, <1>6, <1>7 DEF Lossless

LEMMA QuantizedDecoded ==
    ASSUME CodecConstants, CodecTyped, codec \in CodecNames \ Lossless
    PROVE  /\ Codec!Payload.step = Codec!Step
           /\ Codec!Decode(PacketSent, Len(frame)) =
                  Codec!Good([i \in 1..Len(frame) |-> Sent(frame[i], Codec!Step, Largest)])
<1> DEFINE N == Len(frame)
           p == PacketSent
           P == Codec!Payload
           q == Codec!Indices(frame, Largest)
           step == Codec!Step
           r == [i \in 1..N |-> Sent(frame[i], step, Largest)]
<1>1. N \in Nat /\ N > 0 /\ frame \in Seq(Nat)
  BY FrameOfSamples
<1>2. p.codec = codec /\ p.payload = P
  BY DEF PacketSent
<1>3. ChunkSamples \in Nat /\ ChunkSamples > 0 /\ HalfByte \in Nat /\ HalfByte > 1
  BY DEF CodecConstants
<1>4. /\ q \in Seq(Nat) /\ Len(q) = N /\ \A i \in 1..Len(q) : q[i] <= Largest
      /\ Codec!Scaled(Codec!Good(q), step) = Codec!Good(r)
  BY LargestIsPositive, IndicesFit
<1> HIDE DEF p, P, N, q, step, r
<1>5. Codec!Joined(Codec!Chunked(q), N) = Codec!Good(q)
  BY <1>1, <1>3, <1>4, ChunksJoin
<1>6. CASE codec \in {"q8lz4", "q8zlib"}
  <2>0. Largest = MaxIndex
    BY <1>6 DEF Largest
  <2>1. P = [step |-> step, chunks |-> <<>>, data |-> q]
    BY <1>6, <2>0 DEF Codec!Payload, P, q, step
  <2>2. Codec!Decode(p, N) = Codec!Scaled(Codec!Good(P.data), P.step)
    BY <1>2, <1>6 DEF Codec!Decode
  <2> QED BY <1>4, <2>1, <2>2 DEF P, p, N, step, r
<1>7. CASE codec \in {"pq8zlib", "pq8lz4"}
  <2>0. Largest = MaxIndex
    BY <1>7 DEF Largest
  <2>1. P = [step |-> step, chunks |-> Codec!Chunked(q), data |-> <<>>]
    BY <1>7, <2>0 DEF Codec!Payload, P, q, step
  <2>2. Codec!Decode(p, N) = Codec!Scaled(Codec!Joined(P.chunks, N), P.step)
    BY <1>2, <1>7 DEF Codec!Decode
  <2> QED BY <1>4, <1>5, <2>1, <2>2 DEF P, p, N, step, r
<1>8. CASE codec = "pq12zlib"
  <2>0. Largest = Codec!Max12
    BY <1>8 DEF Largest
  <2>1. P = [step |-> step, chunks |-> Codec!Packed(Codec!Chunked(q)), data |-> <<>>]
    BY <1>8, <2>0 DEF Codec!Payload, P, q, step
  <2>2. Codec!Decode(p, N) = Codec!Scaled(Codec!Joined(Codec!Unpacked(P.chunks), N), P.step)
    BY <1>2, <1>8 DEF Codec!Decode
  <2>3. Codec!Unpacked(Codec!Packed(Codec!Chunked(q))) = Codec!Chunked(q)
    BY <1>1, <1>3, <1>4, <2>0, ChunksUnpack
  <2> QED BY <1>4, <1>5, <2>1, <2>2, <2>3 DEF P, p, N, step, r
<1> QED
  BY <1>6, <1>7, <1>8 DEF Lossless, CodecNames

LEMMA FrameRestored ==
    ASSUME CodecConstants, CodecInv, coded # Codec!NoPacket
    PROVE  Codec!DepthRestored
<1> DEFINE N == Len(frame)
           d == Codec!Decode(coded, N)
           step == coded.payload.step
           exact == codec \in {"none", "zlib", "lz4", "plz4", "pzlib", "qdelta", "rvl"}
<1>1. CodecTyped /\ coded = PacketSent
  BY DEF CodecInv
<1>2. /\ frame \in Seq(Nat) /\ N \in Nat /\ N > 0 /\ DOMAIN frame = 1..N
      /\ N = shape.w * shape.h /\ shape.w \in Nat \ {0} /\ shape.h \in Nat \ {0}
      /\ \A i \in 1..N : frame[i] \in 0..MaxRaw
  BY <1>1, FrameOfSamples
<1>3. /\ coded.codec = codec /\ coded.w = shape.w /\ coded.h = shape.h
      /\ coded.uncompressed = 2 * N /\ coded.payload = Codec!Payload
  BY <1>1 DEF PacketSent
<1>4. codec \in CodecNames /\ MaxRaw \in Nat /\ MaxRaw > 0
  BY <1>1 DEF CodecConstants, CodecTyped
<1>m. Largest \in Nat /\ Largest > 0 /\ Codec!Step \in Nat /\ Codec!Step > 0
  BY <1>1, LargestIsPositive, StepIsPositive
<1>5. Codec!ValidPacket
  <2> DEFINE w == shape.w
             h == shape.h
             n == w * h
  <2>1. w \in Nat /\ h \in Nat /\ n \in Nat /\ n = N /\ w # 0 /\ h # 0
    BY <1>2
  <2>2. 2 * w * h = 2 * n
    BY <2>1
  <2>3. codec = "none" => 2 * Len(coded.payload.data) = 2 * N
    <3> SUFFICES ASSUME codec = "none" PROVE Len(coded.payload.data) = N
      OBVIOUS
    <3>1. codec \in Lossless
      BY DEF Lossless
    <3> QED BY <1>1, <1>3, <3>1, LosslessDecoded
  <2>4. coded.uncompressed = 2 * coded.w * coded.h
    <3>1. coded.w = w /\ coded.h = h
      BY <1>3
    <3> HIDE DEF w, h
    <3> QED BY <1>3, <2>1, <2>2, <3>1
  <2> QED BY <1>2, <1>3, <2>3, <2>4 DEF Codec!ValidPacket
\* The samples come back as they were, or as their steps.
<1>6. /\ ~d.bad /\ Len(d.samples) = N
      /\ \A i \in 1..N : /\ (d.samples[i] = 0) = (frame[i] = 0)
                         /\ Codec!Nearest(frame[i], d.samples[i], step, Largest)
                         /\ exact => d.samples[i] = frame[i]
                         /\ \A j \in 1..N : frame[i] <= frame[j] => d.samples[i] <= d.samples[j]
  <2>1. CASE codec \in Lossless
    <3>1. step = 1 /\ d = Codec!Good(frame)
      BY <1>1, <1>3, <2>1, LosslessDecoded
    <3>2. d.bad = FALSE /\ d.samples = frame
      BY <3>1 DEF Codec!Good
    <3>3. ASSUME NEW i \in 1..N PROVE Codec!Nearest(frame[i], frame[i], 1, Largest)
      <4>1. frame[i] - frame[i] = 0 /\ 1 \div 2 = 0
        BY <1>2
      <4> QED BY <4>1 DEF Codec!Nearest
    <3> HIDE DEF d, step, exact
    <3> QED BY <1>2, <3>1, <3>2, <3>3
  <2>2. CASE codec \notin Lossless
    <3> DEFINE s == Codec!Step
               S(i) == Sent(frame[i], s, Largest)
               r == [i \in 1..N |-> S(i)]
    <3>1. step = s /\ d = Codec!Good(r)
      BY <1>1, <1>3, <1>4, <2>2, QuantizedDecoded
    <3>2. d.bad = FALSE /\ d.samples = r
      BY <3>1 DEF Codec!Good
    <3>3. ~exact
      BY <2>2 DEF Lossless
    <3>4. ASSUME NEW i \in 1..N
          PROVE  /\ S(i) \in 0..MaxRaw /\ (S(i) = 0) = (frame[i] = 0)
                 /\ Codec!Nearest(frame[i], S(i), s, Largest)
      BY <1>2, <1>4, <1>m, SentIsNear
    <3>5. ASSUME NEW i \in 1..N, NEW j \in 1..N, frame[i] <= frame[j] PROVE S(i) <= S(j)
      BY <1>2, <1>4, <1>m, <3>5, SentInOrder
    <3> HIDE DEF d, step, exact, S, s, N
    <3>6. r \in [1..N -> 0..MaxRaw]
      BY <3>4
    <3>7. Len(r) = N /\ \A i \in 1..N : r[i] = S(i)
      <4>1. \A i \in 1..N : r[i] = S(i)
        OBVIOUS
      <4> HIDE DEF r
      <4>2. Len(r) = N
        BY <1>2, <3>6
      <4> QED BY <4>1, <4>2
    <3> HIDE DEF r
    <3> QED BY <3>1, <3>2, <3>3, <3>4, <3>5, <3>7
  <2> QED BY <2>1, <2>2
<1> QED
  BY <1>2, <1>5, <1>6 DEF Codec!DepthRestored, Largest

\* A frame comes back from its packet, whatever the codec, the scale and the step: none of its
\* samples is lost or made up, and each is within half a step of what it was, or as near as the
\* smallest and the largest index come; nearer stays nearer.
THEOREM CodecRestores ==
    ASSUME CodecConstants
    PROVE  Codec!Spec => []DepthRestored
<1>1. Codec!Init => CodecInv
  BY DEF Codec!Init, CodecInv, CodecTyped
<1>2. CodecInv /\ [Codec!Next]_(Codec!vars) => CodecInv'
  <2> SUFFICES ASSUME CodecInv, [Codec!Next]_(Codec!vars) PROVE CodecInv'
    OBVIOUS
  <2>1. CASE Codec!Compress
    <3>1. UNCHANGED <<shape, frame, codec, scale, quant>> /\ coded' = PacketSent
      BY <2>1 DEF Codec!Compress, PacketSent
    <3>2. PacketSent' = PacketSent
      BY <3>1 DEF PacketSent, Codec!Payload, Codec!Step, Codec!Indices
    <3>3. CodecTyped'
      BY <3>1 DEF CodecInv, CodecTyped
    <3> QED BY <3>1, <3>2, <3>3 DEF CodecInv
  <2>2. CASE Codec!Receive \/ UNCHANGED Codec!vars
    <3>1. UNCHANGED <<shape, frame, codec, scale, quant, coded>>
      BY <2>2 DEF Codec!Receive, Codec!vars
    <3>2. PacketSent' = PacketSent
      BY <3>1 DEF PacketSent, Codec!Payload, Codec!Step, Codec!Indices
    <3>3. CodecTyped'
      BY <3>1 DEF CodecInv, CodecTyped
    <3> QED BY <3>1, <3>2, <3>3 DEF CodecInv
  <2> QED BY <2>1, <2>2 DEF Codec!Next
<1>3. CodecInv => DepthRestored
  <2>1. CASE coded = Codec!NoPacket
    BY <2>1 DEF DepthRestored, Codec!DepthRestored
  <2>2. CASE coded # Codec!NoPacket
    BY <2>2, FrameRestored DEF DepthRestored
  <2> QED BY <2>1, <2>2
<1> QED
  BY <1>1, <1>2, <1>3, PTL DEF Codec!Spec
=============================================================================
