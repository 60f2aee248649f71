---------------------------- MODULE IngressProofs ----------------------------
(***************************************************************************)
(* Proofs about the way of a packet into the receiver's record queue.  The    *)
(* bytes of the queues (RecordBackpressure), for any number of cameras,       *)
(* packets and requests and any sizes and limits: the totals are what the     *)
(* queues hold, whatever fails.  The connections of a stream (MediaIngress),  *)
(* for any number of sessions, frames and descriptors: however the threads of *)
(* old and new connections overtake each other, what is recorded is in order  *)
(* and without gaps between keyframes.  Packets in fragments (UdpReassembly),  *)
(* for any packets and limits: what is handed on is whole and of one packet,   *)
(* and every assembly is accounted for.                                        *)
(***************************************************************************)
EXTENDS IngressParts, Integers, Sequences, FiniteSets, FiniteSetTheorems,
        FunctionTheorems, SequenceTheorems, WellFoundedInduction, TLAPS

\* What the proofs ask of the constants of the queues.
QueueConstants ==
    /\ IsFiniteSet(QueueCameras)
    /\ RgbSizes \subseteq Nat /\ DepthSizes \subseteq Nat
    /\ CameraMax \in Nat /\ TotalMax \in Nat

JobSet == [stream : Queues!Streams, size : Nat, generation : Nat]

\* The sizes that the queues count are sizes of sets.
LEMMA QueueCardinality == \A S : Queues!Cardinality(S) = Cardinality(S)
BY DEF Queues!Cardinality, Cardinality

-----------------------------------------------------------------------------
\* Sums: the size of a union whose parts are told apart

Spread(D, f) == UNION {{d} \X f[d] : d \in D}

LEMMA SpreadFinite ==
    ASSUME NEW D, IsFiniteSet(D), NEW f, \A d \in D : IsFiniteSet(f[d])
    PROVE  IsFiniteSet(Spread(D, f))
<1> DEFINE T == {{d} \X f[d] : d \in D}
           g == [d \in D |-> {d} \X f[d]]
<1>1. g \in Surjection(D, T)
  BY DEF Surjection
<1>2. IsFiniteSet(T)
  BY <1>1, FS_Surjection
<1>3. ASSUME NEW d \in D PROVE IsFiniteSet({d} \X f[d])
  <2>1. IsFiniteSet({d})
    BY FS_Singleton
  <2> QED BY <2>1, FS_Product
<1>4. \A t \in T : IsFiniteSet(t)
  BY <1>3
<1>5. Spread(D, f) = UNION T
  BY DEF Spread
<1> HIDE DEF T
<1> QED BY <1>2, <1>4, <1>5, FS_UNION

\* One part more, or less.
LEMMA SpreadPart ==
    ASSUME NEW D, IsFiniteSet(D), NEW f, \A d \in D : IsFiniteSet(f[d]), NEW e \in D
    PROVE  /\ IsFiniteSet(Spread(D, f)) /\ IsFiniteSet(Spread(D \ {e}, f))
           /\ Cardinality(Spread(D, f)) \in Nat /\ Cardinality(Spread(D \ {e}, f)) \in Nat
           /\ Cardinality(f[e]) \in Nat
           /\ Cardinality(Spread(D, f)) = Cardinality(Spread(D \ {e}, f)) + Cardinality(f[e])
<1>1. IsFiniteSet(D \ {e}) /\ \A d \in D \ {e} : IsFiniteSet(f[d])
  BY FS_RemoveElement
<1>2. IsFiniteSet(Spread(D, f)) /\ IsFiniteSet(Spread(D \ {e}, f))
  BY <1>1, SpreadFinite
<1> DEFINE part == {e} \X f[e]
<1>3. IsFiniteSet({e}) /\ Cardinality({e}) = 1
  BY FS_Singleton
<1>4. IsFiniteSet(part) /\ Cardinality(part) = Cardinality(f[e]) /\ Cardinality(f[e]) \in Nat
  <2>1. Cardinality(f[e]) \in Nat
    BY FS_CardinalityType
  <2>2. IsFiniteSet(part) /\ Cardinality(part) = Cardinality({e}) * Cardinality(f[e])
    BY <1>3, FS_Product
  <2> HIDE DEF part
  <2> QED BY <1>3, <2>1, <2>2
<1>5. Spread(D, f) = Spread(D \ {e}, f) \cup part
  BY DEF Spread
<1>6. Spread(D \ {e}, f) \cap part = {}
  BY DEF Spread
<1> HIDE DEF part
<1>7. /\ Cardinality(Spread(D, f)) = Cardinality(Spread(D \ {e}, f)) + Cardinality(part)
                                       - Cardinality(Spread(D \ {e}, f) \cap part)
  BY <1>2, <1>4, <1>5, FS_Union
<1>8. Cardinality(Spread(D \ {e}, f) \cap part) = 0
  BY <1>6, FS_EmptySet
<1>9. Cardinality(Spread(D, f)) \in Nat /\ Cardinality(Spread(D \ {e}, f)) \in Nat
  BY <1>2, FS_CardinalityType
<1> QED BY <1>2, <1>4, <1>7, <1>8, <1>9

LEMMA UpTo ==
    ASSUME NEW n \in Nat
    PROVE  IsFiniteSet(1..n) /\ Cardinality(1..n) = n
<1>1. /\ IsFiniteSet(1..n)
      /\ Cardinality(1..n) = IF 1 > n THEN 0 ELSE n - 1 + 1
  BY FS_Interval
<1> QED BY <1>1

\* The bytes of a list of jobs
Sizes(jobs) == [i \in 1..Len(jobs) |-> 1..jobs[i].size]

LEMMA JobsSpread ==
    ASSUME NEW jobs \in Seq(JobSet)
    PROVE  /\ Len(jobs) \in Nat /\ IsFiniteSet(1..Len(jobs))
           /\ Queues!ByteSet(jobs) = Spread(1..Len(jobs), Sizes(jobs))
           /\ \A i \in 1..Len(jobs) : /\ jobs[i] \in JobSet /\ jobs[i].size \in Nat
                                      /\ Sizes(jobs)[i] = 1..jobs[i].size
                                      /\ IsFiniteSet(Sizes(jobs)[i])
                                      /\ Cardinality(Sizes(jobs)[i]) = jobs[i].size
           /\ IsFiniteSet(Queues!ByteSet(jobs)) /\ Queues!Bytes(jobs) \in Nat
<1>1. Len(jobs) \in Nat /\ IsFiniteSet(1..Len(jobs)) /\ DOMAIN jobs = 1..Len(jobs)
  BY LenProperties, FS_Interval
<1>2. ASSUME NEW i \in 1..Len(jobs)
      PROVE  /\ jobs[i] \in JobSet /\ jobs[i].size \in Nat
             /\ Sizes(jobs)[i] = 1..jobs[i].size
             /\ IsFiniteSet(Sizes(jobs)[i])
             /\ Cardinality(Sizes(jobs)[i]) = jobs[i].size
  <2>0. jobs[i] \in JobSet
    BY ElementOfSeq
  <2>1. jobs[i] \in JobSet /\ jobs[i].size \in Nat
    BY <2>0 DEF JobSet
  <2>2. Sizes(jobs)[i] = 1..jobs[i].size
    BY DEF Sizes
  <2>3. IsFiniteSet(1..jobs[i].size) /\ Cardinality(1..jobs[i].size) = jobs[i].size
    BY <2>1, UpTo
  <2> QED BY <2>1, <2>2, <2>3
<1>3. Queues!ByteSet(jobs) = Spread(1..Len(jobs), Sizes(jobs))
  BY <1>1 DEF Queues!ByteSet, Spread, Sizes
<1>4. IsFiniteSet(Queues!ByteSet(jobs))
  BY <1>1, <1>2, <1>3, SpreadFinite
<1>5. Queues!Bytes(jobs) \in Nat
  BY <1>4, FS_CardinalityType, QueueCardinality DEF Queues!Bytes
<1> QED BY <1>1, <1>2, <1>3, <1>4, <1>5

LEMMA NoBytes == Queues!ByteSet(<<>>) = {} /\ Queues!Bytes(<<>>) = 0
BY FS_EmptySet, QueueCardinality DEF Queues!ByteSet, Queues!Bytes

LEMMA BytesOfMore ==
    ASSUME NEW jobs \in Seq(JobSet), NEW job \in JobSet
    PROVE  Queues!Bytes(Append(jobs, job)) = Queues!Bytes(jobs) + job.size
<1> DEFINE more == Append(jobs, job)
           n == Len(jobs)
<1>1. /\ more \in Seq(JobSet) /\ Len(more) = n + 1 /\ more[n + 1] = job
      /\ \A i \in 1..n : more[i] = jobs[i]
  BY AppendProperties
<1> HIDE DEF more
<1>2. n \in Nat
  BY LenProperties
<1>3. 1..(n + 1) \ {n + 1} = 1..n /\ n + 1 \in 1..(n + 1)
  BY <1>2
<1>4. /\ Cardinality(Spread(1..(n + 1), Sizes(more))) =
              Cardinality(Spread(1..n, Sizes(more))) + Cardinality(Sizes(more)[n + 1])
      /\ Queues!ByteSet(more) = Spread(1..(n + 1), Sizes(more))
      /\ Cardinality(Sizes(more)[n + 1]) = job.size
  <2>1. /\ IsFiniteSet(1..(n + 1)) /\ \A d \in 1..(n + 1) : IsFiniteSet(Sizes(more)[d])
        /\ Queues!ByteSet(more) = Spread(1..(n + 1), Sizes(more))
        /\ Cardinality(Sizes(more)[n + 1]) = job.size
    BY <1>1, <1>3, JobsSpread
  <2>2. Cardinality(Spread(1..(n + 1), Sizes(more))) =
            Cardinality(Spread(1..(n + 1) \ {n + 1}, Sizes(more))) + Cardinality(Sizes(more)[n + 1])
    <3> DEFINE D == 1..(n + 1)
               e == n + 1
    <3>1. IsFiniteSet(D) /\ e \in D /\ \A d \in D : IsFiniteSet(Sizes(more)[d])
      BY <1>3, <2>1
    <3> HIDE DEF D, e
    <3>2. Cardinality(Spread(D, Sizes(more))) =
              Cardinality(Spread(D \ {e}, Sizes(more))) + Cardinality(Sizes(more)[e])
      BY <3>1, SpreadPart
    <3> QED BY <3>2 DEF D, e
  <2> HIDE DEF n
  <2> QED BY <1>3, <2>1, <2>2
<1>5. Spread(1..n, Sizes(more)) = Spread(1..n, Sizes(jobs))
  <2>1. \A i \in 1..n : Sizes(more)[i] = Sizes(jobs)[i]
    BY <1>1, <1>2 DEF Sizes
  <2> QED BY <2>1 DEF Spread
<1>6. Queues!ByteSet(jobs) = Spread(1..n, Sizes(jobs))
  BY JobsSpread
<1> QED BY <1>4, <1>5, <1>6, QueueCardinality DEF Queues!Bytes, more

LEMMA BytesOfRest ==
    ASSUME NEW jobs \in Seq(JobSet), jobs # <<>>
    PROVE  /\ Tail(jobs) \in Seq(JobSet) /\ Head(jobs) \in JobSet
           /\ Head(jobs).size <= Queues!Bytes(jobs)
           /\ Queues!Bytes(Tail(jobs)) = Queues!Bytes(jobs) - Head(jobs).size
<1> DEFINE rest == Tail(jobs)
           n == Len(jobs)
<1>1. /\ rest \in Seq(JobSet) /\ Len(rest) = n - 1 /\ Head(jobs) = jobs[1] /\ Head(jobs) \in JobSet
      /\ \A i \in 1..(n - 1) : rest[i] = jobs[i + 1]
      /\ n \in Nat /\ n > 0
  BY HeadTailProperties, LenProperties, EmptySeq
<1> HIDE DEF rest, n
<1>2. 1 \in 1..n /\ 1..n \ {1} = 2..n
  BY <1>1
<1>3. /\ IsFiniteSet(Spread(2..n, Sizes(jobs)))
      /\ Cardinality(Spread(2..n, Sizes(jobs))) \in Nat
      /\ Cardinality(Queues!ByteSet(jobs)) = Cardinality(Spread(2..n, Sizes(jobs))) + Head(jobs).size
  <2>1. /\ IsFiniteSet(1..n) /\ \A d \in 1..n : IsFiniteSet(Sizes(jobs)[d])
        /\ Queues!ByteSet(jobs) = Spread(1..n, Sizes(jobs))
        /\ Cardinality(Sizes(jobs)[1]) = Head(jobs).size
    BY <1>1, <1>2, JobsSpread DEF n
  <2>2. /\ IsFiniteSet(Spread(1..n \ {1}, Sizes(jobs)))
        /\ Cardinality(Spread(1..n \ {1}, Sizes(jobs))) \in Nat
        /\ Cardinality(Spread(1..n, Sizes(jobs))) =
                Cardinality(Spread(1..n \ {1}, Sizes(jobs))) + Cardinality(Sizes(jobs)[1])
    BY <1>2, <2>1, SpreadPart
  <2> QED BY <1>2, <2>1, <2>2
<1>4. Queues!ByteSet(rest) = Spread(1..(n - 1), Sizes(rest))
  BY <1>1, JobsSpread
<1>5. \A i \in 1..(n - 1) : i + 1 \in 2..n /\ Sizes(rest)[i] = Sizes(jobs)[i + 1]
  BY <1>1 DEF Sizes, n
<1>6. \A i \in 2..n : i - 1 \in 1..(n - 1) /\ i = (i - 1) + 1
  BY <1>1
<1> DEFINE S == Spread(2..n, Sizes(jobs))
           T == Spread(1..(n - 1), Sizes(rest))
           g == [x \in S |-> <<x[1] - 1, x[2]>>]
<1>7. \A x : x \in S <=> \E i \in 2..n : \E b \in Sizes(jobs)[i] : x = <<i, b>>
  BY DEF Spread
<1>8. \A x : x \in T <=> \E i \in 1..(n - 1) : \E b \in Sizes(rest)[i] : x = <<i, b>>
  BY DEF Spread
<1> HIDE DEF S, T
<1>9. g \in Bijection(S, T)
  <2>1. ASSUME NEW x \in S PROVE g[x] \in T
    <3>1. PICK i \in 2..n : \E b \in Sizes(jobs)[i] : x = <<i, b>>
      BY <1>7
    <3>2. PICK b \in Sizes(jobs)[i] : x = <<i, b>>
      BY <3>1
    <3>3. g[x] = <<i - 1, b>>
      BY <3>2
    <3>4. i - 1 \in 1..(n - 1) /\ b \in Sizes(rest)[i - 1]
      BY <1>5, <1>6
    <3> QED BY <1>8, <3>3, <3>4
  <2>2. ASSUME NEW x \in S, NEW y \in S, g[x] = g[y] PROVE x = y
    <3>0. PICK i \in 2..n : \E b \in Sizes(jobs)[i] : x = <<i, b>>
      BY <1>7
    <3>1. PICK b \in Sizes(jobs)[i] : x = <<i, b>>
      BY <3>0
    <3>a. PICK j \in 2..n : \E d \in Sizes(jobs)[j] : y = <<j, d>>
      BY <1>7
    <3>2. PICK d \in Sizes(jobs)[j] : y = <<j, d>>
      BY <3>a
    <3>3. i - 1 = j - 1 /\ b = d
      BY <2>2, <3>1, <3>2
    <3>4. i = j
      BY <3>3
    <3> QED BY <3>1, <3>2, <3>3, <3>4
  <2>3. ASSUME NEW y \in T PROVE \E x \in S : g[x] = y
    <3>1. PICK i \in 1..(n - 1) : \E b \in Sizes(rest)[i] : y = <<i, b>>
      BY <1>8
    <3>2. PICK b \in Sizes(rest)[i] : y = <<i, b>>
      BY <3>1
    <3>3. <<i + 1, b>> \in S
      BY <1>5, <1>7, <3>2
    <3>4. g[<<i + 1, b>>] = <<(i + 1) - 1, b>>
      BY <3>3
    <3>5. (i + 1) - 1 = i
      OBVIOUS
    <3> QED BY <3>2, <3>3, <3>4, <3>5
  <2> HIDE DEF g
  <2>4. g \in [S -> T]
    BY <2>1 DEF g
  <2> QED BY <2>2, <2>3, <2>4 DEF Bijection, Injection, Surjection, IsInjective
<1>10. Cardinality(T) = Cardinality(S)
  <2>1. IsFiniteSet(S) /\ ExistsBijection(S, T)
    BY <1>3, <1>9 DEF S, ExistsBijection
  <2> HIDE DEF g
  <2> QED BY <2>1, FS_Bijection
<1>11. Queues!Bytes(rest) = Cardinality(S) /\ Queues!Bytes(jobs) = Cardinality(S) + Head(jobs).size
  BY <1>3, <1>4, <1>10, QueueCardinality DEF S, T, Queues!Bytes
<1>12. Cardinality(S) \in Nat /\ Head(jobs).size \in Nat
  BY <1>1, <1>3 DEF S, JobSet
<1> QED BY <1>1, <1>11, <1>12 DEF rest

\* The bytes of all cameras, when the jobs of one of them are replaced
LEMMA AllParts ==
    ASSUME QueueConstants, NEW of \in [QueueCameras -> Seq(JobSet)], NEW c \in QueueCameras
    PROVE  /\ Queues!AllBytes(of) \in Nat /\ Queues!Bytes(of[c]) \in Nat
           /\ Queues!Bytes(of[c]) <= Queues!AllBytes(of)
           /\ \A jobs \in Seq(JobSet) :
                  /\ [of EXCEPT ![c] = jobs] \in [QueueCameras -> Seq(JobSet)]
                  /\ Queues!AllBytes([of EXCEPT ![c] = jobs]) \in Nat
                  /\ Queues!AllBytes([of EXCEPT ![c] = jobs]) = Queues!AllBytes(of) - Queues!Bytes(of[c]) + Queues!Bytes(jobs)
<1> DEFINE sets(new) == [d \in QueueCameras |-> Queues!ByteSet(new[d])]
           others(new) == Spread(QueueCameras \ {c}, sets(new))
<1>1. ASSUME NEW new \in [QueueCameras -> Seq(JobSet)]
      PROVE  /\ Queues!AllBytes(new) \in Nat /\ Cardinality(others(new)) \in Nat
             /\ Queues!Bytes(new[c]) \in Nat
             /\ Queues!AllBytes(new) = Cardinality(others(new)) + Queues!Bytes(new[c])
  <2>1. Queues!AllBytes(new) = Cardinality(Spread(QueueCameras, sets(new)))
    BY QueueCardinality DEF Queues!AllBytes, Spread
  <2>2. sets(new)[c] = Queues!ByteSet(new[c])
    OBVIOUS
  <2>3. \A d \in QueueCameras : IsFiniteSet(sets(new)[d])
    BY JobsSpread
  <2> HIDE DEF sets
  <2>4. /\ Cardinality(Spread(QueueCameras, sets(new))) \in Nat
        /\ Cardinality(others(new)) \in Nat /\ Cardinality(sets(new)[c]) \in Nat
        /\ Cardinality(Spread(QueueCameras, sets(new))) =
               Cardinality(others(new)) + Cardinality(sets(new)[c])
    BY <2>3, SpreadPart DEF QueueConstants
  <2> QED BY <2>1, <2>2, <2>4, QueueCardinality DEF Queues!Bytes
<1>2. ASSUME NEW jobs \in Seq(JobSet)
      PROVE  /\ [of EXCEPT ![c] = jobs] \in [QueueCameras -> Seq(JobSet)]
             /\ Queues!AllBytes([of EXCEPT ![c] = jobs]) \in Nat
             /\ Queues!AllBytes([of EXCEPT ![c] = jobs]) = Queues!AllBytes(of) - Queues!Bytes(of[c]) + Queues!Bytes(jobs)
  <2> DEFINE new == [of EXCEPT ![c] = jobs]
  <2>1. new \in [QueueCameras -> Seq(JobSet)] /\ new[c] = jobs
    OBVIOUS
  <2>2. others(new) = others(of)
    BY DEF Spread
  <2> HIDE DEF new, others
  <2>3. /\ Queues!AllBytes(new) \in Nat /\ Cardinality(others(new)) \in Nat /\ Queues!Bytes(new[c]) \in Nat
        /\ Queues!AllBytes(new) = Cardinality(others(new)) + Queues!Bytes(new[c])
    BY <1>1, <2>1
  <2>4. /\ Queues!Bytes(of[c]) \in Nat
        /\ Queues!AllBytes(of) = Cardinality(others(of)) + Queues!Bytes(of[c])
    BY <1>1
  <2>5. Queues!AllBytes(new) = Queues!AllBytes(of) - Queues!Bytes(of[c]) + Queues!Bytes(jobs)
    BY <2>1, <2>2, <2>3, <2>4
  <2> QED BY <2>1, <2>3, <2>5 DEF new
<1>3. /\ Queues!AllBytes(of) \in Nat /\ Queues!Bytes(of[c]) \in Nat
      /\ Queues!Bytes(of[c]) <= Queues!AllBytes(of)
  <2> HIDE DEF others
  <2> QED BY <1>1
<1> QED BY <1>2, <1>3

Lists == [QueueCameras -> Seq(JobSet)]

LEMMA AllReplaced ==
    ASSUME QueueConstants, NEW of \in Lists, NEW c \in QueueCameras, NEW jobs \in Seq(JobSet)
    PROVE  /\ [of EXCEPT ![c] = jobs] \in Lists
           /\ Queues!AllBytes([of EXCEPT ![c] = jobs]) = Queues!AllBytes(of) - Queues!Bytes(of[c]) + Queues!Bytes(jobs)
           /\ Queues!AllBytes(of) \in Nat /\ Queues!Bytes(of[c]) \in Nat
           /\ Queues!Bytes(of[c]) <= Queues!AllBytes(of)
<1>1. of \in [QueueCameras -> Seq(JobSet)]
  BY DEF Lists
<1> QED BY <1>1, AllParts DEF Lists

-----------------------------------------------------------------------------
\* The invariant

QueueTyped ==
    /\ input \in [QueueCameras -> [accepting : BOOLEAN, generation : Nat, draining : BOOLEAN]]
    /\ queue \in Lists /\ prestart \in Lists
    /\ bytes \in [QueueCameras -> Nat]
    /\ worker \in [QueueCameras -> JobSet \cup {Queues!NoJob, Queues!Replay}]
    /\ ingress \in [QueueCameras -> [Queues!Streams -> JobSet \cup {Queues!NoJob}]]
    /\ total \in Nat /\ prestartTotal \in Nat

QueueInv == QueueTyped /\ Queues!BytesAccounted

\* What BytesAccounted asks of one camera
CameraAccounted(b, jobs) == b = Queues!Bytes(jobs) /\ (b <= CameraMax \/ Len(jobs) = 1)

LEMMA OneCamera ==
    ASSUME NEW c \in QueueCameras, NEW jobs \in Seq(JobSet), NEW b \in Nat,
           QueueTyped, Queues!BytesAccounted, CameraAccounted(b, jobs),
           queue' = [queue EXCEPT ![c] = jobs], bytes' = [bytes EXCEPT ![c] = b]
    PROVE  /\ queue' \in Lists /\ bytes' \in [QueueCameras -> Nat]
           /\ \A d \in QueueCameras : CameraAccounted(bytes'[d], queue'[d])
<1>1. queue' \in Lists /\ bytes' \in [QueueCameras -> Nat]
  BY DEF QueueTyped, Lists
<1>2. ASSUME NEW d \in QueueCameras PROVE CameraAccounted(bytes'[d], queue'[d])
  <2>1. CASE d = c
    BY <2>1 DEF QueueTyped, Lists
  <2>2. CASE d # c
    BY <2>2 DEF QueueTyped, Lists, Queues!BytesAccounted, CameraAccounted
  <2> QED BY <2>1, <2>2
<1> QED BY <1>1, <1>2

LEMMA Quarter ==
    ASSUME NEW n \in Nat
    PROVE  n \div 4 \in Nat
OBVIOUS

LEMMA InitAccounts ==
    ASSUME QueueConstants, Queues!Init
    PROVE  QueueInv
<1> DEFINE none == [c \in QueueCameras |-> <<>>]
<1>1. none \in Lists /\ queue = none /\ prestart = none
  BY EmptySeq DEF Queues!Init, Lists
<1>2. QueueTyped
  BY <1>1 DEF Queues!Init, QueueTyped
<1>3. Queues!AllBytes(none) = 0
  <2>1. \A c \in QueueCameras : {c} \X Queues!ByteSet(none[c]) = {}
    BY NoBytes
  <2>2. UNION {{c} \X Queues!ByteSet(none[c]) : c \in QueueCameras} = {}
    BY <2>1
  <2> QED BY <2>2, FS_EmptySet, QueueCardinality DEF Queues!AllBytes
<1>4. \A c \in QueueCameras : bytes[c] = 0 /\ Queues!Bytes(queue[c]) = 0
  BY <1>1, NoBytes DEF Queues!Init
<1>5. TotalMax \in Nat /\ CameraMax \in Nat /\ TotalMax \div 4 \in Nat
  BY Quarter DEF QueueConstants
<1>6. Queues!BytesAccounted
  <2> HIDE DEF none
  <2>1. total = 0 /\ prestartTotal = 0
    BY DEF Queues!Init
  <2> QED BY <1>1, <1>3, <1>4, <1>5, <2>1 DEF Queues!BytesAccounted
<1> QED BY <1>2, <1>6 DEF QueueInv

LEMMA TotalOf ==
    ASSUME NEW q \in Nat, NEW p \in Nat, NEW a \in Nat, NEW b \in Nat, a <= q, b <= p,
           NEW j \in Nat, NEW k \in Nat
    PROVE  /\ (q + p) - a - b + j + k = (q - a + j) + (p - b + k)
           /\ (q + p) - a - b + j + k \in Nat
OBVIOUS

\* A step makes these lists of a camera's, and the totals follow.
Replaces(c, jobs, kept) ==
    /\ queue' = [queue EXCEPT ![c] = jobs]
    /\ bytes' = [bytes EXCEPT ![c] = Queues!Bytes(jobs)]
    /\ prestart' = [prestart EXCEPT ![c] = kept]
    /\ total' = total - Queues!Bytes(queue[c]) - Queues!Bytes(prestart[c]) + Queues!Bytes(jobs) + Queues!Bytes(kept)
    /\ prestartTotal' = prestartTotal - Queues!Bytes(prestart[c]) + Queues!Bytes(kept)
    /\ total' <= TotalMax
    /\ prestartTotal' <= TotalMax \div 4

LEMMA Replaced ==
    ASSUME QueueConstants, QueueInv, NEW c \in QueueCameras,
           NEW jobs \in Seq(JobSet), NEW kept \in Seq(JobSet), CameraAccounted(Queues!Bytes(jobs), jobs),
           Replaces(c, jobs, kept)
    PROVE  /\ queue' \in Lists /\ bytes' \in [QueueCameras -> Nat] /\ prestart' \in Lists
           /\ total' \in Nat /\ prestartTotal' \in Nat
           /\ Queues!BytesAccounted'
<1>0. QueueTyped /\ Queues!BytesAccounted
  BY DEF QueueInv
<1>1. Queues!Bytes(jobs) \in Nat /\ Queues!Bytes(kept) \in Nat
  BY JobsSpread
<1>2. /\ queue' \in Lists /\ bytes' \in [QueueCameras -> Nat]
      /\ \A d \in QueueCameras : CameraAccounted(bytes'[d], queue'[d])
  BY <1>0, <1>1, OneCamera DEF Replaces
<1>3. /\ Queues!AllBytes(queue') = Queues!AllBytes(queue) - Queues!Bytes(queue[c]) + Queues!Bytes(jobs)
      /\ Queues!AllBytes(queue) \in Nat /\ Queues!Bytes(queue[c]) \in Nat
      /\ Queues!Bytes(queue[c]) <= Queues!AllBytes(queue)
  <2>1. queue \in Lists
    BY <1>0 DEF QueueTyped
  <2> QED BY <2>1, AllReplaced DEF Replaces
<1>4. /\ prestart' \in Lists
      /\ Queues!AllBytes(prestart') = Queues!AllBytes(prestart) - Queues!Bytes(prestart[c]) + Queues!Bytes(kept)
      /\ Queues!AllBytes(prestart) \in Nat /\ Queues!Bytes(prestart[c]) \in Nat
      /\ Queues!Bytes(prestart[c]) <= Queues!AllBytes(prestart)
  <2>1. prestart \in Lists
    BY <1>0 DEF QueueTyped
  <2> QED BY <2>1, AllReplaced DEF Replaces
<1>5. total = Queues!AllBytes(queue) + Queues!AllBytes(prestart) /\ prestartTotal = Queues!AllBytes(prestart)
  BY <1>0 DEF Queues!BytesAccounted
<1>6. total' = Queues!AllBytes(queue') + Queues!AllBytes(prestart') /\ total' \in Nat
  <2>1. total' = total - Queues!Bytes(queue[c]) - Queues!Bytes(prestart[c]) + Queues!Bytes(jobs) + Queues!Bytes(kept)
    BY DEF Replaces
  <2> DEFINE q == Queues!AllBytes(queue)
             p == Queues!AllBytes(prestart)
             a == Queues!Bytes(queue[c])
             b == Queues!Bytes(prestart[c])
             j == Queues!Bytes(jobs)
             k == Queues!Bytes(kept)
  <2>2. /\ q \in Nat /\ p \in Nat /\ a \in Nat /\ b \in Nat /\ a <= q /\ b <= p
        /\ j \in Nat /\ k \in Nat
    BY <1>1, <1>3, <1>4
  <2>3. total' = total - a - b + j + k /\ total = q + p
    BY <1>5, <2>1
  <2>4. Queues!AllBytes(queue') = q - a + j /\ Queues!AllBytes(prestart') = p - b + k
    BY <1>3, <1>4
  <2> HIDE DEF q, p, a, b, j, k
  <2>5. /\ (q + p) - a - b + j + k = (q - a + j) + (p - b + k)
        /\ (q + p) - a - b + j + k \in Nat
    BY <2>2, TotalOf
  <2>6. total' = (q + p) - a - b + j + k
    BY <2>3, Zenon
  <2>7. Queues!AllBytes(queue') + Queues!AllBytes(prestart') = (q - a + j) + (p - b + k)
    BY <2>4, Zenon
  <2> QED BY <2>5, <2>6, <2>7, Zenon
<1>7. prestartTotal' = Queues!AllBytes(prestart') /\ prestartTotal' \in Nat
  BY <1>1, <1>4, <1>5 DEF Replaces
<1> QED BY <1>2, <1>4, <1>6, <1>7 DEF Queues!BytesAccounted, CameraAccounted, Replaces

\* What is known of the lists of one camera
LEMMA CameraKnown ==
    ASSUME QueueConstants, QueueInv, NEW c \in QueueCameras
    PROVE  /\ queue[c] \in Seq(JobSet) /\ prestart[c] \in Seq(JobSet)
           /\ bytes[c] = Queues!Bytes(queue[c]) /\ CameraAccounted(Queues!Bytes(queue[c]), queue[c])
           /\ Queues!Bytes(queue[c]) \in Nat /\ Queues!Bytes(prestart[c]) \in Nat
           /\ total \in Nat /\ prestartTotal \in Nat
           /\ Queues!Bytes(prestart[c]) <= prestartTotal
           /\ Queues!Bytes(queue[c]) + Queues!Bytes(prestart[c]) <= total
           /\ total <= TotalMax /\ prestartTotal <= TotalMax \div 4
           /\ TotalMax \in Nat /\ TotalMax \div 4 \in Nat /\ CameraMax \in Nat
           /\ queue = [queue EXCEPT ![c] = queue[c]]
           /\ bytes = [bytes EXCEPT ![c] = Queues!Bytes(queue[c])]
           /\ prestart = [prestart EXCEPT ![c] = prestart[c]]
<1>0. QueueTyped /\ Queues!BytesAccounted
  BY DEF QueueInv
<1>1. /\ queue[c] \in Seq(JobSet) /\ prestart[c] \in Seq(JobSet)
      /\ total \in Nat /\ prestartTotal \in Nat
      /\ queue = [queue EXCEPT ![c] = queue[c]]
      /\ bytes = [bytes EXCEPT ![c] = bytes[c]]
      /\ prestart = [prestart EXCEPT ![c] = prestart[c]]
  BY <1>0 DEF QueueTyped, Lists
<1>2. bytes[c] = Queues!Bytes(queue[c]) /\ CameraAccounted(Queues!Bytes(queue[c]), queue[c])
  BY <1>0 DEF Queues!BytesAccounted, CameraAccounted
<1>3. TotalMax \in Nat /\ TotalMax \div 4 \in Nat /\ CameraMax \in Nat
  BY Quarter DEF QueueConstants
<1>4. /\ Queues!AllBytes(queue) \in Nat /\ Queues!Bytes(queue[c]) \in Nat
      /\ Queues!Bytes(queue[c]) <= Queues!AllBytes(queue)
      /\ Queues!AllBytes(prestart) \in Nat /\ Queues!Bytes(prestart[c]) \in Nat
      /\ Queues!Bytes(prestart[c]) <= Queues!AllBytes(prestart)
  <2>1. queue \in Lists /\ prestart \in Lists
    BY <1>0 DEF QueueTyped
  <2> QED BY <1>1, <2>1, AllReplaced
<1>5. /\ total = Queues!AllBytes(queue) + Queues!AllBytes(prestart) /\ total <= TotalMax
      /\ prestartTotal = Queues!AllBytes(prestart) /\ prestartTotal <= TotalMax \div 4
  BY <1>0 DEF Queues!BytesAccounted
<1>6. Queues!Bytes(queue[c]) + Queues!Bytes(prestart[c]) <= total
          /\ Queues!Bytes(prestart[c]) <= prestartTotal
  BY <1>4, <1>5
<1> QED BY <1>1, <1>2, <1>3, <1>4, <1>5, <1>6

\* Steps that leave the bytes alone
LEMMA Elsewhere ==
    ASSUME QueueInv, QueueTyped', UNCHANGED <<queue, bytes, prestart, total, prestartTotal>>
    PROVE  QueueInv'
BY DEF QueueInv, Queues!BytesAccounted

LEMMA RequestsAccount ==
    ASSUME QueueConstants, QueueInv, NEW c \in QueueCameras, Queues!StartInput(c) \/ Queues!StopInput(c)
    PROVE  QueueInv'
<1>1. QueueTyped
  BY DEF QueueInv
<1>2. input' \in [QueueCameras -> [accepting : BOOLEAN, generation : Nat, draining : BOOLEAN]]
  <2>1. CASE Queues!StartInput(c)
    BY <1>1, <2>1 DEF Queues!StartInput, QueueTyped
  <2>2. CASE Queues!StopInput(c)
    BY <1>1, <2>2 DEF Queues!StopInput, QueueTyped
  <2> QED BY <2>1, <2>2
<1>3. UNCHANGED <<queue, bytes, prestart, worker, ingress, total, prestartTotal>>
  BY DEF Queues!StartInput, Queues!StopInput
<1>4. QueueTyped'
  BY <1>1, <1>2, <1>3 DEF QueueTyped
<1> QED BY <1>3, <1>4, Elsewhere

LEMMA DetachAccounts ==
    ASSUME QueueConstants, QueueInv, NEW c \in QueueCameras, Queues!DetachWriter(c)
    PROVE  QueueInv'
<1>0. QueueTyped
  BY DEF QueueInv
<1>1. Queues!Bytes(<<>>) = 0 /\ <<>> \in Seq(JobSet)
  BY NoBytes, EmptySeq
<1>2. /\ prestart' = [prestart EXCEPT ![c] = <<>>]
      /\ prestartTotal' = prestartTotal - Queues!Bytes(prestart[c])
      /\ total' = total - Queues!Bytes(prestart[c])
      /\ UNCHANGED <<queue, bytes, worker, ingress>>
  BY DEF Queues!DetachWriter
<1>3. input' \in [QueueCameras -> [accepting : BOOLEAN, generation : Nat, draining : BOOLEAN]]
  BY <1>0 DEF Queues!DetachWriter, QueueTyped
<1>4. /\ total' = total - Queues!Bytes(queue[c]) - Queues!Bytes(prestart[c]) + Queues!Bytes(queue[c]) + Queues!Bytes(<<>>)
      /\ prestartTotal' = prestartTotal - Queues!Bytes(prestart[c]) + Queues!Bytes(<<>>)
      /\ total' <= TotalMax /\ prestartTotal' <= TotalMax \div 4
  <2>1. /\ Queues!Bytes(queue[c]) \in Nat /\ Queues!Bytes(prestart[c]) \in Nat
        /\ bytes[c] = Queues!Bytes(queue[c])
        /\ total \in Nat /\ prestartTotal \in Nat /\ TotalMax \in Nat /\ TotalMax \div 4 \in Nat
        /\ total <= TotalMax /\ prestartTotal <= TotalMax \div 4
    BY CameraKnown
  <2> QED BY <1>1, <1>2, <2>1
<1>5. /\ queue' \in Lists /\ bytes' \in [QueueCameras -> Nat] /\ prestart' \in Lists
      /\ total' \in Nat /\ prestartTotal' \in Nat
      /\ Queues!BytesAccounted'
  <2>1. /\ queue' = [queue EXCEPT ![c] = queue[c]] /\ bytes' = [bytes EXCEPT ![c] = Queues!Bytes(queue[c])]
        /\ queue[c] \in Seq(JobSet) /\ CameraAccounted(Queues!Bytes(queue[c]), queue[c])
    BY <1>2, CameraKnown
  <2> QED BY <1>1, <1>2, <1>4, <2>1, Replaced DEF Replaces
<1>6. QueueTyped'
  BY <1>0, <1>2, <1>3, <1>5 DEF QueueTyped
<1> QED BY <1>5, <1>6 DEF QueueInv

LEMMA ReceiveAccounts ==
    ASSUME QueueConstants, QueueInv, NEW c \in QueueCameras, NEW s \in Queues!Streams,
           Queues!ReceivePacket(c, s)
    PROVE  QueueInv'
<1>1. QueueTyped
  BY DEF QueueInv
<1>2. PICK size \in IF s = "rgb" THEN RgbSizes ELSE DepthSizes :
          ingress' = [ingress EXCEPT ![c][s] =
              [stream |-> s, size |-> size, generation |-> input[c].generation]]
  BY DEF Queues!ReceivePacket
<1>3. [stream |-> s, size |-> size, generation |-> input[c].generation] \in JobSet
  BY <1>1, <1>2 DEF QueueTyped, QueueConstants, JobSet
<1>4. ingress' \in [QueueCameras -> [Queues!Streams -> JobSet \cup {Queues!NoJob}]]
  BY <1>1, <1>2, <1>3 DEF QueueTyped
<1>5. UNCHANGED <<input, queue, bytes, prestart, worker, total, prestartTotal>>
  BY DEF Queues!ReceivePacket
<1>6. QueueTyped'
  BY <1>1, <1>4, <1>5 DEF QueueTyped
<1> QED BY <1>5, <1>6, Elsewhere

LEMMA EnqueueAccounts ==
    ASSUME QueueConstants, QueueInv, NEW c \in QueueCameras, NEW s \in Queues!Streams, Queues!Enqueue(c, s)
    PROVE  QueueInv'
<1> DEFINE job == ingress[c][s]
<1>0. QueueTyped
  BY DEF QueueInv
<1>1. job \in JobSet /\ job.size \in Nat
  BY <1>0 DEF Queues!Enqueue, QueueTyped, JobSet
<1>2. ingress' \in [QueueCameras -> [Queues!Streams -> JobSet \cup {Queues!NoJob}]]
  BY <1>0 DEF Queues!Enqueue, QueueTyped
<1>3. UNCHANGED <<input, prestart, worker, prestartTotal>>
  BY DEF Queues!Enqueue
<1>4. CASE UNCHANGED <<queue, bytes, total>>
  <2>1. QueueTyped'
    BY <1>0, <1>2, <1>3, <1>4 DEF QueueTyped
  <2> QED BY <1>3, <1>4, <2>1, Elsewhere
<1>5. CASE /\ Queues!CameraHasRoom(c, job.size) /\ Queues!TotalHasRoom(job.size)
           /\ queue' = [queue EXCEPT ![c] = Append(@, job)]
           /\ bytes' = [bytes EXCEPT ![c] = @ + job.size]
           /\ total' = total + job.size
  <2> DEFINE more == Append(queue[c], job)
  <2> HIDE DEF job
  <2>1. more \in Seq(JobSet) /\ Len(more) = Len(queue[c]) + 1
    BY <1>1, AppendProperties, CameraKnown
  <2>2. Queues!Bytes(more) = Queues!Bytes(queue[c]) + job.size
    BY <1>1, CameraKnown, BytesOfMore
  <2>3. CameraAccounted(Queues!Bytes(more), more)
    <3>1. CASE queue[c] = <<>>
      BY <2>1, <3>1 DEF CameraAccounted
    <3>2. CASE bytes[c] <= CameraMax /\ job.size <= CameraMax - bytes[c]
      <4>1. bytes[c] = Queues!Bytes(queue[c]) /\ Queues!Bytes(queue[c]) \in Nat /\ CameraMax \in Nat
        BY CameraKnown
      <4> QED BY <1>1, <2>2, <3>2, <4>1 DEF CameraAccounted
    <3> QED BY <1>5, <3>1, <3>2 DEF Queues!CameraHasRoom
  <2>4. /\ queue' = [queue EXCEPT ![c] = more] /\ bytes' = [bytes EXCEPT ![c] = Queues!Bytes(more)]
        /\ prestart' = [prestart EXCEPT ![c] = prestart[c]]
    BY <1>3, <1>5, <2>2, CameraKnown
  <2>5. /\ total' = total - Queues!Bytes(queue[c]) - Queues!Bytes(prestart[c]) + Queues!Bytes(more) + Queues!Bytes(prestart[c])
        /\ prestartTotal' = prestartTotal - Queues!Bytes(prestart[c]) + Queues!Bytes(prestart[c])
        /\ total' <= TotalMax /\ prestartTotal' <= TotalMax \div 4
    <3>1. /\ total' = total + job.size /\ prestartTotal' = prestartTotal
          /\ job.size <= TotalMax - total
      BY <1>3, <1>5 DEF Queues!TotalHasRoom
    <3> QED BY SMTT(30), <1>1, <2>2, <3>1, CameraKnown
  <2>6. /\ queue' \in Lists /\ bytes' \in [QueueCameras -> Nat] /\ prestart' \in Lists
        /\ total' \in Nat /\ prestartTotal' \in Nat
        /\ Queues!BytesAccounted'
    <3>1. prestart[c] \in Seq(JobSet)
      BY CameraKnown
    <3> HIDE DEF more
    <3> QED BY <2>1, <2>3, <2>4, <2>5, <3>1, Replaced DEF Replaces
  <2>7. QueueTyped'
    BY <1>0, <1>2, <1>3, <2>6 DEF QueueTyped
  <2> QED BY <2>6, <2>7 DEF QueueInv
<1> QED BY <1>4, <1>5 DEF Queues!Enqueue

LEMMA TakeAccounts ==
    ASSUME QueueConstants, QueueInv, NEW c \in QueueCameras, Queues!TakeJob(c)
    PROVE  QueueInv'
<1> DEFINE job  == Head(queue[c])
           rest == Tail(queue[c])
<1>0. QueueTyped
  BY DEF QueueInv
<1>1. queue[c] \in Seq(JobSet) /\ queue[c] # <<>>
  BY CameraKnown DEF Queues!TakeJob
<1>2. /\ rest \in Seq(JobSet) /\ job \in JobSet /\ job.size <= Queues!Bytes(queue[c])
      /\ Queues!Bytes(rest) = Queues!Bytes(queue[c]) - job.size
  BY <1>1, BytesOfRest
<1>3. /\ worker' = [worker EXCEPT ![c] = job]
      /\ bytes' = [bytes EXCEPT ![c] = @ - job.size]
      /\ queue' = [queue EXCEPT ![c] = rest]
      /\ total' = total - job.size
      /\ UNCHANGED <<input, prestart, ingress, prestartTotal>>
  BY DEF Queues!TakeJob
<1>4. job.size \in Nat
  BY <1>2 DEF JobSet
<1>5. CameraAccounted(Queues!Bytes(rest), rest)
  <2>1. /\ Queues!Bytes(queue[c]) \in Nat /\ CameraMax \in Nat
        /\ CameraAccounted(Queues!Bytes(queue[c]), queue[c])
    BY CameraKnown
  <2>2. CASE Queues!Bytes(queue[c]) <= CameraMax
    <3> HIDE DEF job, rest
    <3> QED BY <1>2, <1>4, <2>1, <2>2 DEF CameraAccounted
  <2>3. CASE Len(queue[c]) = 1
    <3>1. Len(rest) = 0
      BY <1>1, <2>3, HeadTailProperties
    <3> HIDE DEF rest
    <3>2. rest = <<>>
      BY <1>2, <3>1, EmptySeq
    <3>3. Queues!Bytes(rest) = 0
      BY <3>2, NoBytes
    <3> QED BY <2>1, <3>3 DEF CameraAccounted
  <2> QED BY <2>1, <2>2, <2>3 DEF CameraAccounted
<1> HIDE DEF job, rest
<1>6. /\ bytes' = [bytes EXCEPT ![c] = Queues!Bytes(rest)]
      /\ prestart' = [prestart EXCEPT ![c] = prestart[c]]
  BY <1>2, <1>3, CameraKnown
<1>7. /\ total' = total - Queues!Bytes(queue[c]) - Queues!Bytes(prestart[c]) + Queues!Bytes(rest) + Queues!Bytes(prestart[c])
      /\ prestartTotal' = prestartTotal - Queues!Bytes(prestart[c]) + Queues!Bytes(prestart[c])
      /\ total' <= TotalMax /\ prestartTotal' <= TotalMax \div 4
  <2>1. /\ Queues!Bytes(queue[c]) \in Nat /\ Queues!Bytes(prestart[c]) \in Nat
        /\ total \in Nat /\ prestartTotal \in Nat /\ TotalMax \in Nat /\ TotalMax \div 4 \in Nat
        /\ total <= TotalMax /\ prestartTotal <= TotalMax \div 4
    BY CameraKnown
  <2> QED BY <1>2, <1>3, <1>4, <2>1
<1>8. /\ queue' \in Lists /\ bytes' \in [QueueCameras -> Nat] /\ prestart' \in Lists
      /\ total' \in Nat /\ prestartTotal' \in Nat
      /\ Queues!BytesAccounted'
  <2>1. prestart[c] \in Seq(JobSet)
    BY CameraKnown
  <2> QED BY <1>2, <1>3, <1>5, <1>6, <1>7, <2>1, Replaced DEF Replaces
<1>9. QueueTyped'
  BY <1>0, <1>2, <1>3, <1>8 DEF QueueTyped
<1> QED BY <1>8, <1>9 DEF QueueInv

LEMMA HoldAccounts ==
    ASSUME QueueConstants, QueueInv, NEW c \in QueueCameras, Queues!HoldDepth(c)
    PROVE  QueueInv'
<1> DEFINE job == worker[c]
<1>0. QueueTyped
  BY DEF QueueInv
<1>1. job \in JobSet /\ job.size \in Nat
  <2>1. job \in JobSet \cup {Queues!NoJob, Queues!Replay} /\ job.stream = "depth"
    BY <1>0 DEF Queues!HoldDepth, QueueTyped
  <2> QED BY <2>1 DEF Queues!NoJob, Queues!Replay, JobSet
<1>2. worker' \in [QueueCameras -> JobSet \cup {Queues!NoJob, Queues!Replay}]
  BY <1>0 DEF Queues!HoldDepth, QueueTyped
<1>3. UNCHANGED <<input, queue, bytes, ingress>>
  BY DEF Queues!HoldDepth
<1>4. CASE UNCHANGED <<prestart, prestartTotal, total>>
  <2>1. QueueTyped'
    BY <1>0, <1>2, <1>3, <1>4 DEF QueueTyped
  <2> QED BY <1>3, <1>4, <2>1, Elsewhere
<1>5. CASE /\ Queues!PrestartHasRoom(c, job.size)
           /\ prestart' = [prestart EXCEPT ![c] = Append(@, job)]
           /\ prestartTotal' = prestartTotal + job.size
           /\ total' = total + job.size
  <2> DEFINE more == Append(prestart[c], job)
  <2> HIDE DEF job
  <2>1. more \in Seq(JobSet)
    BY <1>1, AppendProperties, CameraKnown
  <2>2. Queues!Bytes(more) = Queues!Bytes(prestart[c]) + job.size
    BY <1>1, CameraKnown, BytesOfMore
  <2>3. /\ queue' = [queue EXCEPT ![c] = queue[c]] /\ bytes' = [bytes EXCEPT ![c] = Queues!Bytes(queue[c])]
        /\ prestart' = [prestart EXCEPT ![c] = more]
        /\ queue[c] \in Seq(JobSet) /\ CameraAccounted(Queues!Bytes(queue[c]), queue[c])
    BY <1>3, <1>5, CameraKnown
  <2>4. /\ total' = total - Queues!Bytes(queue[c]) - Queues!Bytes(prestart[c]) + Queues!Bytes(queue[c]) + Queues!Bytes(more)
        /\ prestartTotal' = prestartTotal - Queues!Bytes(prestart[c]) + Queues!Bytes(more)
        /\ total' <= TotalMax /\ prestartTotal' <= TotalMax \div 4
    <3>1. /\ total' = total + job.size /\ prestartTotal' = prestartTotal + job.size
          /\ job.size <= TotalMax - total /\ job.size <= TotalMax \div 4 - prestartTotal
      BY <1>5 DEF Queues!PrestartHasRoom
    <3>2. /\ Queues!Bytes(queue[c]) \in Nat /\ Queues!Bytes(prestart[c]) \in Nat
          /\ total \in Nat /\ prestartTotal \in Nat /\ TotalMax \in Nat /\ TotalMax \div 4 \in Nat
      BY CameraKnown
    <3> QED BY <1>1, <2>2, <3>1, <3>2
  <2>5. /\ queue' \in Lists /\ bytes' \in [QueueCameras -> Nat] /\ prestart' \in Lists
        /\ total' \in Nat /\ prestartTotal' \in Nat
        /\ Queues!BytesAccounted'
    <3> HIDE DEF more
    <3> QED BY <2>1, <2>3, <2>4, Replaced DEF Replaces
  <2>6. QueueTyped'
    BY <1>0, <1>2, <1>3, <2>5 DEF QueueTyped
  <2> QED BY <2>5, <2>6 DEF QueueInv
<1> QED BY <1>4, <1>5 DEF Queues!HoldDepth

LEMMA WriteAccounts ==
    ASSUME QueueConstants, QueueInv, NEW c \in QueueCameras, Queues!WriteJob(c) \/ Queues!EndReplay(c)
    PROVE  QueueInv'
<1>1. QueueTyped
  BY DEF QueueInv
<1>2. worker' \in [QueueCameras -> JobSet \cup {Queues!NoJob, Queues!Replay}]
  <2>1. CASE Queues!WriteJob(c)
    BY <1>1, <2>1 DEF Queues!WriteJob, QueueTyped
  <2>2. CASE Queues!EndReplay(c)
    BY <1>1, <2>2 DEF Queues!EndReplay, QueueTyped
  <2> QED BY <2>1, <2>2
<1>3. UNCHANGED <<input, queue, bytes, prestart, ingress, total, prestartTotal>>
  BY DEF Queues!WriteJob, Queues!EndReplay
<1>4. QueueTyped'
  BY <1>1, <1>2, <1>3 DEF QueueTyped
<1> QED BY <1>3, <1>4, Elsewhere

LEMMA ReplayAccounts ==
    ASSUME QueueConstants, QueueInv, NEW c \in QueueCameras, Queues!ReplayDepth(c)
    PROVE  QueueInv'
<1> DEFINE job  == Head(prestart[c])
           rest == Tail(prestart[c])
<1>0. QueueTyped
  BY DEF QueueInv
<1>1. worker' \in [QueueCameras -> JobSet \cup {Queues!NoJob, Queues!Replay}]
  BY <1>0 DEF Queues!ReplayDepth, QueueTyped
<1>2. UNCHANGED <<input, queue, bytes, ingress>>
  BY DEF Queues!ReplayDepth
<1>3. CASE prestart[c] = <<>>
  <2>1. UNCHANGED <<prestart, prestartTotal, total>>
    BY <1>3 DEF Queues!ReplayDepth
  <2>2. QueueTyped'
    BY <1>0, <1>1, <1>2, <2>1 DEF QueueTyped
  <2> QED BY <1>2, <2>1, <2>2, Elsewhere
<1>4. CASE prestart[c] # <<>>
  <2>1. /\ prestart' = [prestart EXCEPT ![c] = rest]
        /\ prestartTotal' = prestartTotal - job.size /\ total' = total - job.size
    BY <1>4 DEF Queues!ReplayDepth
  <2>2. /\ rest \in Seq(JobSet) /\ job \in JobSet /\ job.size <= Queues!Bytes(prestart[c])
        /\ Queues!Bytes(rest) = Queues!Bytes(prestart[c]) - job.size
    BY <1>4, CameraKnown, BytesOfRest
  <2>3. job.size \in Nat
    BY <2>2 DEF JobSet
  <2> HIDE DEF job, rest
  <2>4. /\ queue' = [queue EXCEPT ![c] = queue[c]] /\ bytes' = [bytes EXCEPT ![c] = Queues!Bytes(queue[c])]
        /\ queue[c] \in Seq(JobSet) /\ CameraAccounted(Queues!Bytes(queue[c]), queue[c])
    BY <1>2, CameraKnown
  <2>5. /\ total' = total - Queues!Bytes(queue[c]) - Queues!Bytes(prestart[c]) + Queues!Bytes(queue[c]) + Queues!Bytes(rest)
        /\ prestartTotal' = prestartTotal - Queues!Bytes(prestart[c]) + Queues!Bytes(rest)
        /\ total' <= TotalMax /\ prestartTotal' <= TotalMax \div 4
    <3>1. /\ Queues!Bytes(queue[c]) \in Nat /\ Queues!Bytes(prestart[c]) \in Nat
          /\ total \in Nat /\ prestartTotal \in Nat /\ TotalMax \in Nat /\ TotalMax \div 4 \in Nat
          /\ total <= TotalMax /\ prestartTotal <= TotalMax \div 4
      BY CameraKnown
    <3> QED BY <2>1, <2>2, <2>3, <3>1
  <2>6. /\ queue' \in Lists /\ bytes' \in [QueueCameras -> Nat] /\ prestart' \in Lists
        /\ total' \in Nat /\ prestartTotal' \in Nat
        /\ Queues!BytesAccounted'
    BY <2>1, <2>2, <2>4, <2>5, Replaced DEF Replaces
  <2>7. QueueTyped'
    BY <1>0, <1>1, <1>2, <2>6 DEF QueueTyped
  <2> QED BY <2>6, <2>7 DEF QueueInv
<1> QED BY <1>3, <1>4

LEMMA FailAccounts ==
    ASSUME QueueConstants, QueueInv, NEW c \in QueueCameras, Queues!FailWrite(c)
    PROVE  QueueInv'
<1>0. QueueTyped
  BY DEF QueueInv
<1>1. Queues!Bytes(<<>>) = 0 /\ <<>> \in Seq(JobSet) /\ CameraAccounted(Queues!Bytes(<<>>), <<>>)
  <2>1. CameraMax \in Nat
    BY CameraKnown
  <2> QED BY <2>1, NoBytes, EmptySeq DEF CameraAccounted
<1>2. /\ total' = total - bytes[c] - Queues!Bytes(prestart[c])
      /\ prestartTotal' = prestartTotal - Queues!Bytes(prestart[c])
      /\ queue' = [queue EXCEPT ![c] = <<>>] /\ bytes' = [bytes EXCEPT ![c] = Queues!Bytes(<<>>)]
      /\ prestart' = [prestart EXCEPT ![c] = <<>>]
      /\ ingress' = ingress
  <2>1. total' = total - (bytes[c] + Queues!Bytes(prestart[c]))
    BY DEF Queues!FailWrite, Queues!Discarded
  <2>2. total' = total - bytes[c] - Queues!Bytes(prestart[c])
    BY <2>1, CameraKnown
  <2> QED BY <1>1, <2>2 DEF Queues!FailWrite
<1>3. /\ input' \in [QueueCameras -> [accepting : BOOLEAN, generation : Nat, draining : BOOLEAN]]
      /\ worker' \in [QueueCameras -> JobSet \cup {Queues!NoJob, Queues!Replay}]
  <2>1. /\ input' = [input EXCEPT ![c].accepting = FALSE, ![c].generation = @ + 1]
        /\ worker' = [worker EXCEPT ![c] = Queues!NoJob]
    BY DEF Queues!FailWrite
  <2>2. /\ input \in [QueueCameras -> [accepting : BOOLEAN, generation : Nat, draining : BOOLEAN]]
        /\ worker \in [QueueCameras -> JobSet \cup {Queues!NoJob, Queues!Replay}]
    BY <1>0 DEF QueueTyped
  <2>3. input' \in [QueueCameras -> [accepting : BOOLEAN, generation : Nat, draining : BOOLEAN]]
    BY <2>1, <2>2
  <2>4. worker' \in [QueueCameras -> JobSet \cup {Queues!NoJob, Queues!Replay}]
    BY <2>1, <2>2
  <2> QED BY <2>3, <2>4
<1>4. /\ total' = total - Queues!Bytes(queue[c]) - Queues!Bytes(prestart[c]) + Queues!Bytes(<<>>) + Queues!Bytes(<<>>)
      /\ prestartTotal' = prestartTotal - Queues!Bytes(prestart[c]) + Queues!Bytes(<<>>)
      /\ total' <= TotalMax /\ prestartTotal' <= TotalMax \div 4
  <2>1. /\ Queues!Bytes(queue[c]) \in Nat /\ Queues!Bytes(prestart[c]) \in Nat
        /\ bytes[c] = Queues!Bytes(queue[c])
        /\ total \in Nat /\ prestartTotal \in Nat /\ TotalMax \in Nat /\ TotalMax \div 4 \in Nat
        /\ total <= TotalMax /\ prestartTotal <= TotalMax \div 4
    BY CameraKnown
  <2> QED BY <1>1, <1>2, <2>1
<1>5. /\ queue' \in Lists /\ bytes' \in [QueueCameras -> Nat] /\ prestart' \in Lists
      /\ total' \in Nat /\ prestartTotal' \in Nat
      /\ Queues!BytesAccounted'
  BY <1>1, <1>2, <1>4, Replaced DEF Replaces
<1>6. QueueTyped'
  BY <1>0, <1>2, <1>3, <1>5 DEF QueueTyped
<1> QED BY <1>5, <1>6 DEF QueueInv

\* The bytes are counted exactly and kept below their limits, for any number of
\* cameras, packets and requests and any sizes.
THEOREM QueuesAccounted ==
    ASSUME QueueConstants
    PROVE  Queues!Spec => []BytesAccounted
<1>1. Queues!Init => QueueInv
  BY InitAccounts
<1>2. QueueInv /\ [Queues!Next]_(Queues!vars) => QueueInv'
  <2> SUFFICES ASSUME QueueInv, [Queues!Next]_(Queues!vars) PROVE QueueInv'
    OBVIOUS
  <2>1. CASE UNCHANGED Queues!vars
    BY <2>1 DEF Queues!vars, QueueInv, QueueTyped, Queues!BytesAccounted
  <2>2. CASE Queues!Next
    <3>1. PICK c \in QueueCameras :
              \/ Queues!StartInput(c) \/ Queues!StopInput(c) \/ Queues!DetachWriter(c)
              \/ \E s \in Queues!Streams : Queues!ReceivePacket(c, s) \/ Queues!Enqueue(c, s)
              \/ Queues!Worker(c) \/ Queues!FailWrite(c)
      BY <2>2 DEF Queues!Next
    <3>2. CASE Queues!StartInput(c) \/ Queues!StopInput(c)
      BY <3>2, RequestsAccount
    <3>3. CASE Queues!DetachWriter(c)
      BY <3>3, DetachAccounts
    <3>4. CASE \E s \in Queues!Streams : Queues!ReceivePacket(c, s) \/ Queues!Enqueue(c, s)
      BY <3>4, ReceiveAccounts, EnqueueAccounts
    <3>5. CASE Queues!Worker(c)
      BY <3>5, TakeAccounts, HoldAccounts, WriteAccounts, ReplayAccounts DEF Queues!Worker
    <3>6. CASE Queues!FailWrite(c)
      BY <3>6, FailAccounts
    <3> QED BY <3>1, <3>2, <3>3, <3>4, <3>5, <3>6
  <2> QED BY <2>1, <2>2
<1>3. QueueInv => Queues!BytesAccounted
  BY DEF QueueInv
<1> QED BY <1>1, <1>2, <1>3, PTL DEF Queues!Spec, BytesAccounted

-----------------------------------------------------------------------------
(***************************************************************************)
(* The connections of a stream (MediaIngress).                                *)
(***************************************************************************)

IngressConstants == MaxSessions \in Nat

Packet == [frame : Nat, idr : BOOLEAN]

\* The thread of session s has a packet that it has read and not passed on yet.
InHand(s) == thread[s] \in {"shutting", "handling", "enqueuing"}

\* The packets of session s that may still be recorded.
Carries(s, p) ==
    \/ InHand(s) /\ p = packet[s]
    \/ \E i \in 1..Len(wire[s]) : p = wire[s][i]

LastFrame == recorded[Len(recorded)].frame

-----------------------------------------------------------------------------
\* The inductive invariant

Typed ==
    /\ wire \in [Ingress!Sessions -> Seq(Packet)]
    /\ link \in [Ingress!Sessions -> {"none", "open", "left", "shut"}]
    /\ thread \in [Ingress!Sessions -> {"none", "reading", "shutting", "handling", "enqueuing",
                                "closing", "done"}]
    /\ packet \in [Ingress!Sessions -> Packet]
    /\ owner = [session |-> owner.session, fd |-> owner.fd] /\ owner.session \in Nat
    /\ rgbIngress \in [session : Nat, waiting : BOOLEAN]
    /\ recorded \in Seq(Packet)
    /\ handled \subseteq Ingress!Sessions \X Nat
    /\ frames \in Nat

\* The sender has one connection after the other; only sessions that have claimed the
\* route pass packets on.
OneByOne ==
    /\ \A s \in Ingress!Sessions :
          /\ link[s] = "none" => thread[s] = "none" /\ wire[s] = <<>> /\ owner.session # s
          /\ link[s] # "none" => \A t \in Ingress!Sessions : t < s => link[t] = "left"
          /\ thread[s] \in {"closing", "done"} => link[s] # "open"
          /\ InHand(s) => s <= owner.session
    /\ rgbIngress.session <= owner.session
    /\ \A k \in handled : k[1] <= owner.session

\* On one connection no frame is missing.
Numbered ==
    \A s \in Ingress!Sessions :
        /\ \A p \in Packet : Carries(s, p) => p.frame <= frames
        /\ \A i \in 1..Len(wire[s]) : wire[s][i].frame = wire[s][1].frame + (i - 1)
        /\ InHand(s) /\ wire[s] # <<>> => wire[s][1].frame = packet[s].frame + 1
        /\ link[s] = "open" /\ wire[s] # <<>> => wire[s][Len(wire[s])].frame = frames
        /\ link[s] = "open" /\ wire[s] = <<>> /\ InHand(s) => packet[s].frame = frames

\* What an older connection carries is older.
Apart ==
    \A s, t \in Ingress!Sessions : s < t =>
        \A p, q \in Packet : Carries(s, p) /\ Carries(t, q) => p.frame < q.frame

\* What may still be recorded comes after what is.
Behind ==
    recorded # <<>> =>
        /\ LastFrame <= frames
        /\ \A s \in Ingress!Sessions : s >= owner.session =>
              \A p \in Packet : Carries(s, p) => LastFrame < p.frame

\* The next frame of session s is number n.
Follows(s, n) ==
    /\ InHand(s) => packet[s].frame = n
    /\ ~InHand(s) /\ wire[s] # <<>> => wire[s][1].frame = n
    /\ ~InHand(s) /\ wire[s] = <<>> /\ link[s] = "open" => frames + 1 = n

\* A session that owns the route and does not wait for an IDR goes on where the queue
\* ends; so does a P frame that has passed the check and is not in the queue yet.
Continued ==
    \A s \in Ingress!Sessions : owner.session = s =>
        /\ rgbIngress.session = s /\ ~rgbIngress.waiting /\ thread[s] # "enqueuing" =>
               recorded # <<>> /\ Follows(s, LastFrame + 1)
        /\ thread[s] = "enqueuing" /\ ~packet[s].idr =>
               recorded # <<>> /\ packet[s].frame = LastFrame + 1

IngressInv ==
    Typed /\ OneByOne /\ Numbered /\ Apart /\ Behind /\ Continued /\ Ingress!IngressInOrder

-----------------------------------------------------------------------------
LEMMA SessionsAreNumbers == ASSUME IngressConstants PROVE Ingress!Sessions \subseteq Nat \ {0}
BY DEF IngressConstants, Ingress!Sessions

LEMMA InitInv == ASSUME IngressConstants, Ingress!Init PROVE IngressInv
<1> USE SessionsAreNumbers DEF Ingress!Init
<1>1. Typed
  BY DEF Typed, Ingress!Nothing, Packet
<1>2. \A s \in Ingress!Sessions : ~InHand(s) /\ Len(wire[s]) = 0 /\ link[s] = "none"
  BY DEF InHand
<1>3. \A s \in Ingress!Sessions : \A p : ~Carries(s, p)
  BY <1>2 DEF Carries
<1>4. OneByOne
  BY <1>2 DEF OneByOne
<1>5. Numbered /\ Apart /\ Behind
  BY <1>2, <1>3 DEF Numbered, Apart, Behind
<1>6. Continued
  BY DEF Continued
<1>7. Ingress!IngressInOrder
  BY DEF Ingress!IngressInOrder
<1> QED
  BY <1>1, <1>4, <1>5, <1>6, <1>7 DEF IngressInv

\* The open session, and one that has been shut but not left, is the last one.
LEMMA OnlyOneOpen ==
    ASSUME IngressConstants, IngressInv, NEW s \in Ingress!Sessions, link[s] \in {"open", "shut"},
           NEW t \in Ingress!Sessions, t # s
    PROVE  link[t] \in {"left", "none"}
<1>1. s \in Nat /\ t \in Nat
  BY SessionsAreNumbers
<1>2. CASE t < s
  BY <1>2 DEF IngressInv, OneByOne
<1>3. CASE s < t
  BY <1>3 DEF IngressInv, OneByOne
<1> QED
  BY <1>1, <1>2, <1>3

\* The queue's end is a packet.
LEMMA LastIsPacket ==
    ASSUME IngressInv, recorded # <<>>
    PROVE  /\ Len(recorded) \in Nat \ {0} /\ recorded[Len(recorded)] \in Packet
           /\ LastFrame \in Nat
<1>1. recorded \in Seq(Packet)
  BY DEF IngressInv, Typed
<1>2. Len(recorded) \in Nat \ {0}
  BY <1>1, EmptySeq
<1>3. recorded[Len(recorded)] \in Packet
  BY <1>1, <1>2, ElementOfSeq
<1> QED
  BY <1>2, <1>3 DEF LastFrame, Packet

\* A step that brings no packet and records none keeps the packets in their order.
LEMMA NothingNew ==
    ASSUME IngressConstants, IngressInv, recorded' = recorded, frames' \in Nat, frames' >= frames,
           owner'.session \in Nat, owner'.session >= owner.session,
           \A s \in Ingress!Sessions : \A p \in Packet : Carries(s, p)' => Carries(s, p)
    PROVE  /\ Apart' /\ Behind'
           /\ \A s \in Ingress!Sessions : \A p \in Packet : Carries(s, p)' => p.frame <= frames'
<1>1. frames \in Nat /\ owner.session \in Nat /\ Ingress!Sessions \subseteq Nat
  BY SessionsAreNumbers DEF IngressInv, Typed
<1>2. Apart'
  BY DEF IngressInv, Apart
<1>3. ASSUME recorded # <<>>
      PROVE  /\ LastFrame' = LastFrame /\ LastFrame <= frames'
             /\ \A s \in Ingress!Sessions : s >= owner'.session =>
                   \A p \in Packet : Carries(s, p)' => LastFrame < p.frame
  <2>1. LastFrame \in Nat
    BY <1>3, LastIsPacket
  <2>2. LastFrame' = LastFrame
    BY DEF LastFrame
  <2>3. LastFrame <= frames'
    BY <1>1, <1>3, <2>1 DEF IngressInv, Behind
  <2>4. \A s \in Ingress!Sessions : s >= owner'.session => s >= owner.session
    BY <1>1
  <2> QED BY <1>3, <2>2, <2>3, <2>4 DEF IngressInv, Behind
<1>4. Behind'
  BY <1>3 DEF Behind
<1>5. ASSUME NEW s \in Ingress!Sessions, NEW p \in Packet, Carries(s, p)' PROVE p.frame <= frames'
  <2>1. p.frame <= frames /\ p.frame \in Nat
    BY <1>5 DEF IngressInv, Numbered, Packet
  <2> QED BY <1>1, <2>1
<1> QED
  BY <1>2, <1>4, <1>5

\* What was recorded in order stays so when nothing is recorded and the route's owner
\* is not replaced by an older one.
LEMMA OrderStays ==
    ASSUME IngressConstants, IngressInv, UNCHANGED <<recorded, handled>>,
           owner'.session \in Nat, owner'.session >= owner.session
    PROVE  Ingress!IngressInOrder' /\ \A k \in handled' : k[1] <= owner'.session
<1>1. owner.session \in Nat /\ \A k \in handled : k[1] \in Nat
  BY SessionsAreNumbers DEF IngressInv, Typed
<1>2. \A k \in handled : k[1] <= owner.session
  BY DEF IngressInv, OneByOne
<1>3. \A k \in handled : k[1] = owner'.session => k[1] = owner.session
  BY <1>1, <1>2
<1> QED
  BY <1>1, <1>2, <1>3 DEF IngressInv, Ingress!IngressInOrder

-----------------------------------------------------------------------------
\* The sender

LEMMA SendStep ==
    ASSUME IngressConstants, IngressInv, NEW s \in Ingress!Sessions, NEW idr \in BOOLEAN,
           Ingress!Send(s, idr)
    PROVE  IngressInv'
<1> DEFINE new == [frame |-> frames + 1, idr |-> idr]
<1>1. /\ link[s] = "open" /\ frames' = frames + 1
      /\ wire' = [wire EXCEPT ![s] = Append(@, new)]
      /\ UNCHANGED <<link, fd, thread, packet, victim, owner, rgbIngress, recorded, handled>>
  BY DEF Ingress!Send, Ingress!Thread, Ingress!Route
<1>2. frames \in Nat /\ new \in Packet /\ new.frame = frames + 1 /\ Ingress!Sessions \subseteq Nat
  BY SessionsAreNumbers DEF IngressInv, Typed, Packet
<1> HIDE DEF new
<1>3. /\ wire'[s] = Append(wire[s], new) /\ wire[s] \in Seq(Packet) /\ Len(wire[s]) \in Nat
      /\ \A t \in Ingress!Sessions : t # s => wire'[t] = wire[t]
  BY <1>1 DEF IngressInv, Typed
<1>4. /\ wire'[s] \in Seq(Packet) /\ Len(wire'[s]) = Len(wire[s]) + 1
      /\ \A i \in 1..Len(wire[s]) : wire'[s][i] = wire[s][i]
      /\ wire'[s][Len(wire[s]) + 1] = new
  BY <1>2, <1>3
<1>5. Typed'
  BY <1>1, <1>2 DEF IngressInv, Typed
<1>6. \A t \in Ingress!Sessions : t # s => link[t] \in {"left", "none"}
  BY <1>1, OnlyOneOpen
<1>7. \A t \in Ingress!Sessions : InHand(t)' <=> InHand(t)
  BY <1>1 DEF InHand
<1>8. OneByOne'
  BY <1>1, <1>3, <1>7 DEF IngressInv, OneByOne
<1>9. /\ \A t \in Ingress!Sessions : t # s => \A p \in Packet : Carries(t, p)' <=> Carries(t, p)
      /\ \A p \in Packet : Carries(s, p)' <=> Carries(s, p) \/ p = new
  BY <1>1, <1>2, <1>3, <1>4, <1>7 DEF Carries
<1>10. \A t \in Ingress!Sessions : \A p \in Packet : Carries(t, p) => p.frame \in Nat
           /\ p.frame <= frames
  BY DEF IngressInv, Numbered, Packet
<1>11. Numbered'
  <2>1. ASSUME NEW t \in Ingress!Sessions, t # s
        PROVE  /\ \A p \in Packet : Carries(t, p)' => p.frame <= frames'
               /\ \A i \in 1..Len(wire'[t]) : wire'[t][i].frame = wire'[t][1].frame + (i - 1)
               /\ InHand(t)' /\ wire'[t] # <<>> => wire'[t][1].frame = packet'[t].frame + 1
               /\ link'[t] # "open"
    <3>1. \A p \in Packet : Carries(t, p)' => p.frame <= frames'
      BY <1>1, <1>2, <1>9, <1>10, <2>1
    <3> QED BY <1>1, <1>3, <1>6, <1>7, <2>1, <3>1 DEF IngressInv, Numbered
  <2>2. \A p \in Packet : Carries(s, p)' => p.frame <= frames'
    BY <1>1, <1>2, <1>9, <1>10
  <2>3. CASE wire[s] = <<>>
    <3>1. Len(wire'[s]) = 1 /\ wire'[s][1] = new
      BY <1>4, <2>3
    <3>2. \A i \in 1..Len(wire'[s]) : wire'[s][i].frame = wire'[s][1].frame + (i - 1)
      BY <1>2, <3>1
    <3>3. InHand(s) => packet[s].frame = frames
      BY <1>1, <2>3 DEF IngressInv, Numbered
    <3> QED BY <1>1, <1>2, <1>7, <2>1, <2>2, <3>1, <3>2, <3>3 DEF Numbered
  <2>4. CASE wire[s] # <<>>
    <3>1. Len(wire[s]) >= 1
      BY <1>3, <2>4
    <3>2. /\ wire[s][Len(wire[s])].frame = frames
          /\ \A i \in 1..Len(wire[s]) : wire[s][i].frame = wire[s][1].frame + (i - 1)
          /\ InHand(s) => wire[s][1].frame = packet[s].frame + 1
      BY <1>1, <2>4 DEF IngressInv, Numbered
    <3>3. wire'[s][1] = wire[s][1] /\ wire[s][1].frame \in Nat
      <4>1. 1 \in 1..Len(wire[s])
        BY <1>3, <3>1
      <4>2. wire[s][1] \in Packet
        BY <1>3, <4>1, ElementOfSeq
      <4> QED BY <1>4, <4>1, <4>2 DEF Packet
    <3>4. frames = wire[s][1].frame + (Len(wire[s]) - 1)
      BY <1>3, <3>1, <3>2
    <3>5. \A i \in 1..Len(wire'[s]) : wire'[s][i].frame = wire'[s][1].frame + (i - 1)
      <4> SUFFICES ASSUME NEW i \in 1..Len(wire[s]) + 1
                   PROVE  wire'[s][i].frame = wire'[s][1].frame + (i - 1)
        BY <1>4
      <4>1. CASE i = Len(wire[s]) + 1
        BY <1>2, <1>3, <1>4, <3>3, <3>4, <4>1
      <4>2. CASE i \in 1..Len(wire[s])
        BY <1>4, <3>2, <3>3, <4>2
      <4> QED BY <1>3, <4>1, <4>2
    <3>6. wire'[s][Len(wire'[s])].frame = frames' /\ wire'[s] # <<>>
      BY <1>1, <1>2, <1>4, <3>1
    <3> QED BY <1>1, <1>7, <2>1, <2>2, <3>2, <3>3, <3>5, <3>6 DEF Numbered
  <2> QED BY <2>3, <2>4
<1>12. Apart'
  <2> SUFFICES ASSUME NEW t \in Ingress!Sessions, NEW u \in Ingress!Sessions, t < u,
                      NEW p \in Packet, NEW q \in Packet,
                      Carries(t, p)', Carries(u, q)'
               PROVE  p.frame < q.frame
    BY DEF Apart
  <2>1. CASE t = s
    <3>1. ~Carries(u, q)
      <4>1. link[u] = "none"
        BY <1>1, <1>2, <2>1 DEF IngressInv, OneByOne
      <4>2. ~InHand(u) /\ Len(wire[u]) = 0
        BY <4>1 DEF IngressInv, OneByOne, InHand
      <4> QED BY <4>2 DEF Carries
    <3> QED BY <1>2, <1>9, <2>1, <3>1
  <2>2. CASE t # s
    <3>1. Carries(t, p) /\ (Carries(u, q) \/ q = new)
      BY <1>9, <2>2
    <3>2. CASE Carries(u, q)
      BY <3>1, <3>2 DEF IngressInv, Apart
    <3>3. CASE q = new
      BY <1>2, <1>10, <3>1, <3>3
    <3> QED BY <3>1, <3>2, <3>3
  <2> QED BY <2>1, <2>2
<1>13. LastFrame' = LastFrame
  BY <1>1 DEF LastFrame
<1>14. Behind'
  <2> SUFFICES ASSUME recorded # <<>>
               PROVE  /\ LastFrame <= frames + 1
                      /\ \A t \in Ingress!Sessions : t >= owner.session =>
                            \A p \in Packet : Carries(t, p)' => LastFrame < p.frame
    BY <1>1, <1>13 DEF Behind
  <2>1. LastFrame \in Nat /\ LastFrame <= frames
    BY LastIsPacket DEF IngressInv, Behind
  <2> QED BY <1>2, <1>9, <2>1 DEF IngressInv, Behind
<1>15. Continued'
  <2> SUFFICES ASSUME NEW t \in Ingress!Sessions, owner.session = t
               PROVE  /\ rgbIngress.session = t /\ ~rgbIngress.waiting /\ thread[t] # "enqueuing" =>
                             recorded # <<>> /\ Follows(t, LastFrame + 1)'
                      /\ thread[t] = "enqueuing" /\ ~packet[t].idr =>
                             recorded # <<>> /\ packet[t].frame = LastFrame + 1
    BY <1>1, <1>13 DEF Continued
  <2>1. ASSUME NEW n, Follows(t, n), n = LastFrame + 1 PROVE Follows(t, LastFrame + 1)'
    <3>1. CASE t # s
      BY <1>1, <1>3, <1>6, <1>7, <1>13, <2>1, <3>1 DEF Follows
    <3>2. CASE t = s /\ wire[s] # <<>>
      <4>1. wire'[s][1] = wire[s][1] /\ wire'[s] # <<>>
        BY <1>3, <1>4, <3>2
      <4> QED BY <1>1, <1>7, <1>13, <2>1, <3>2, <4>1 DEF Follows
    <3>3. CASE t = s /\ wire[s] = <<>>
      <4>1. wire'[s][1] = new /\ wire'[s] # <<>>
        BY <1>4, <3>3
      <4> QED BY <1>1, <1>2, <1>7, <1>13, <2>1, <3>3, <4>1 DEF Follows
    <3> QED BY <3>1, <3>2, <3>3
  <2> QED BY <2>1 DEF IngressInv, Continued
<1>16. Ingress!IngressInOrder'
  BY <1>1, OrderStays DEF IngressInv, Typed
<1> QED
  BY <1>5, <1>8, <1>11, <1>12, <1>14, <1>15, <1>16 DEF IngressInv

LEMMA LeaveStep ==
    ASSUME IngressConstants, IngressInv, NEW s \in Ingress!Sessions, Ingress!Leave(s)
    PROVE  IngressInv'
<1>1. /\ link[s] \in {"open", "shut"} /\ link' = [link EXCEPT ![s] = "left"]
      /\ frames' \in {frames, frames + 1}
      /\ UNCHANGED <<wire, fd, thread, packet, victim, owner, rgbIngress, recorded, handled>>
  BY DEF Ingress!Leave, Ingress!Thread, Ingress!Route
<1>2. frames \in Nat /\ frames' \in Nat /\ frames' >= frames /\ owner.session \in Nat
  BY <1>1 DEF IngressInv, Typed
<1>3. Typed'
  BY <1>1, <1>2 DEF IngressInv, Typed
<1>4. \A t \in Ingress!Sessions : InHand(t)' <=> InHand(t)
  BY <1>1 DEF InHand
<1>5. \A t \in Ingress!Sessions : link'[t] # "open"
  BY <1>1, OnlyOneOpen DEF IngressInv, Typed
<1>6. \A t \in Ingress!Sessions : link'[t] = link[t] \/ (t = s /\ link'[t] = "left" /\ link[t] # "none")
  BY <1>1 DEF IngressInv, Typed
<1>7. OneByOne'
  BY <1>1, <1>4, <1>5, <1>6 DEF IngressInv, OneByOne
<1>8. \A t \in Ingress!Sessions : \A p \in Packet : Carries(t, p)' => Carries(t, p)
  BY <1>1, <1>4 DEF Carries
<1>9. /\ Apart' /\ Behind'
      /\ \A t \in Ingress!Sessions : \A p \in Packet : Carries(t, p)' => p.frame <= frames'
  BY <1>1, <1>2, <1>8, NothingNew
<1>10. Numbered'
  BY <1>1, <1>4, <1>5, <1>9 DEF IngressInv, Numbered
<1>11. LastFrame' = LastFrame
  BY <1>1 DEF LastFrame
<1>12. Continued'
  BY <1>1, <1>4, <1>5, <1>11 DEF IngressInv, Continued, Follows
<1>13. Ingress!IngressInOrder'
  BY <1>1, <1>2, OrderStays
<1> QED
  BY <1>3, <1>7, <1>9, <1>10, <1>12, <1>13 DEF IngressInv

LEMMA ConnectStep ==
    ASSUME IngressConstants, IngressInv, NEW s \in Ingress!Sessions, Ingress!Connect(s)
    PROVE  IngressInv'
<1>1. /\ link[s] = "none" /\ \A t \in Ingress!Sessions : t < s => link[t] = "left"
      /\ link' = [link EXCEPT ![s] = "open"]
      /\ thread' = [thread EXCEPT ![s] = "reading"]
      /\ UNCHANGED <<wire, packet, victim, frames, owner, rgbIngress, recorded, handled>>
  BY DEF Ingress!Connect, Ingress!Route
<1>2. frames \in Nat /\ owner.session \in Nat /\ Ingress!Sessions \subseteq Nat
  BY SessionsAreNumbers DEF IngressInv, Typed
<1>3. Typed'
  BY <1>1 DEF IngressInv, Typed
<1>4. wire[s] = <<>> /\ thread[s] = "none" /\ owner.session # s
  BY <1>1 DEF IngressInv, OneByOne
<1>5. /\ link'[s] = "open" /\ thread'[s] = "reading"
      /\ \A t \in Ingress!Sessions : t # s => link'[t] = link[t] /\ thread'[t] = thread[t]
  BY <1>1 DEF IngressInv, Typed
<1>6. \A t \in Ingress!Sessions : (InHand(t)' <=> InHand(t)) /\ (t = s => ~InHand(t))
  BY <1>4, <1>5 DEF InHand
<1>7. \A t \in Ingress!Sessions : t > s => link[t] = "none"
  BY <1>1, <1>2 DEF IngressInv, OneByOne
<1>8. OneByOne'
  BY <1>1, <1>2, <1>4, <1>5, <1>6, <1>7 DEF IngressInv, OneByOne
<1>9. \A t \in Ingress!Sessions : \A p \in Packet : Carries(t, p)' => Carries(t, p)
  BY <1>1, <1>6 DEF Carries
<1>10. /\ Apart' /\ Behind'
       /\ \A t \in Ingress!Sessions : \A p \in Packet : Carries(t, p)' => p.frame <= frames'
  BY <1>1, <1>2, <1>9, NothingNew
<1>11. Numbered'
  BY <1>1, <1>4, <1>5, <1>6, <1>10 DEF IngressInv, Numbered
<1>12. LastFrame' = LastFrame
  BY <1>1 DEF LastFrame
<1>13. Continued'
  BY <1>1, <1>4, <1>5, <1>6, <1>12 DEF IngressInv, Continued, Follows
<1>14. Ingress!IngressInOrder'
  BY <1>1, <1>2, OrderStays
<1> QED
  BY <1>3, <1>8, <1>10, <1>11, <1>13, <1>14 DEF IngressInv

-----------------------------------------------------------------------------
\* The receiver's threads

LEMMA ReadAndClaimStep ==
    ASSUME IngressConstants, IngressInv, NEW s \in Ingress!Sessions, Ingress!ReadAndClaim(s)
    PROVE  IngressInv'
<1>1. /\ thread[s] = "reading" /\ wire[s] # <<>>
      /\ wire' = [wire EXCEPT ![s] = Tail(@)]
      /\ UNCHANGED <<link, fd, rgbIngress, recorded, handled, frames>>
  BY DEF Ingress!ReadAndClaim
<1>2. /\ frames \in Nat /\ owner.session \in Nat /\ Ingress!Sessions \subseteq Nat
      /\ wire[s] \in Seq(Packet)
  BY SessionsAreNumbers DEF IngressInv, Typed
<1>3. /\ wire'[s] = Tail(wire[s]) /\ wire'[s] \in Seq(Packet)
      /\ Len(wire[s]) \in Nat \ {0} /\ Len(wire'[s]) = Len(wire[s]) - 1
      /\ \A i \in 1..Len(wire'[s]) : wire'[s][i] = wire[s][i + 1]
      /\ \A t \in Ingress!Sessions : t # s => wire'[t] = wire[t]
  BY <1>1, <1>2, HeadTailProperties, EmptySeq DEF IngressInv, Typed
<1>4. Head(wire[s]) = wire[s][1] /\ wire[s][1] \in Packet /\ wire[s][1].frame \in Nat
  <2>1. 1 \in 1..Len(wire[s])
    BY <1>3
  <2>2. wire[s][1] \in Packet
    BY <1>2, <2>1, ElementOfSeq
  <2> QED BY <1>1, <1>2, <2>2 DEF Packet
<1>5. link[s] # "none" /\ ~InHand(s)
  BY <1>1 DEF IngressInv, OneByOne, InHand
<1>6. \A i \in 1..Len(wire[s]) : wire[s][i].frame = wire[s][1].frame + (i - 1)
  BY DEF IngressInv, Numbered
<1>7. \A i \in 1..Len(wire'[s]) : wire'[s][i].frame = wire'[s][1].frame + (i - 1)
  <2> SUFFICES ASSUME NEW i \in 1..Len(wire'[s])
               PROVE  wire'[s][i].frame = wire'[s][1].frame + (i - 1)
    OBVIOUS
  <2>1. i + 1 \in 1..Len(wire[s]) /\ 2 \in 1..Len(wire[s]) /\ 1 \in 1..Len(wire'[s])
    BY <1>3
  <2>2. /\ wire'[s][i] = wire[s][i + 1] /\ wire'[s][1] = wire[s][2]
        /\ wire[s][i + 1].frame = wire[s][1].frame + i
        /\ wire[s][2].frame = wire[s][1].frame + 1
    BY <1>3, <1>6, <2>1
  <2> QED BY <1>4, <2>2
<1>8. wire'[s] # <<>> => /\ wire'[s][1].frame = wire[s][1].frame + 1
                         /\ wire'[s][Len(wire'[s])] = wire[s][Len(wire[s])]
  <2> SUFFICES ASSUME wire'[s] # <<>>
               PROVE  /\ wire'[s][1].frame = wire[s][1].frame + 1
                      /\ wire'[s][Len(wire'[s])] = wire[s][Len(wire[s])]
    OBVIOUS
  <2>1. Len(wire'[s]) \in Nat \ {0}
    BY <1>3, EmptySeq
  <2>2. /\ 2 \in 1..Len(wire[s]) /\ 1 \in 1..Len(wire'[s])
        /\ Len(wire'[s]) \in 1..Len(wire'[s]) /\ Len(wire'[s]) + 1 = Len(wire[s])
    BY <1>3, <2>1
  <2>3. wire'[s][1] = wire[s][2] /\ wire[s][2].frame = wire[s][1].frame + 1
    BY <1>3, <1>6, <2>2
  <2> QED BY <1>3, <2>2, <2>3
<1>9. LastFrame' = LastFrame
  BY <1>1 DEF LastFrame
<1>10. CASE Ingress!Stale(s)
  <2>1. UNCHANGED <<thread, packet, owner>> /\ owner.session # s
    BY <1>2, <1>10 DEF Ingress!ReadAndClaim, Ingress!Stale
  <2>2. Typed'
    BY <1>1, <1>2, <1>3, <2>1 DEF IngressInv, Typed
  <2>3. \A t \in Ingress!Sessions : InHand(t)' <=> InHand(t)
    BY <2>1 DEF InHand
  <2>4. OneByOne'
    BY <1>1, <1>3, <1>5, <2>1, <2>3 DEF IngressInv, OneByOne
  <2>5. \A t \in Ingress!Sessions : \A p \in Packet : Carries(t, p)' => Carries(t, p)
    <3>1. ASSUME NEW p \in Packet, Carries(s, p)' PROVE Carries(s, p)
      <4>1. PICK i \in 1..Len(wire'[s]) : p = wire'[s][i]
        BY <1>5, <2>3, <3>1 DEF Carries
      <4>2. p = wire[s][i + 1] /\ i + 1 \in 1..Len(wire[s])
        BY <1>3, <4>1
      <4> QED BY <4>2 DEF Carries
    <3>2. ASSUME NEW t \in Ingress!Sessions, t # s, NEW p \in Packet, Carries(t, p)' PROVE Carries(t, p)
      BY <1>3, <2>1, <2>3, <3>2 DEF Carries
    <3> QED BY <3>1, <3>2
  <2>6. /\ Apart' /\ Behind'
        /\ \A t \in Ingress!Sessions : \A p \in Packet : Carries(t, p)' => p.frame <= frames'
    BY <1>1, <1>2, <2>1, <2>5, NothingNew
  <2>7. Numbered'
    <3>1. link[s] = "open" /\ wire'[s] # <<>> => wire'[s][Len(wire'[s])].frame = frames
      BY <1>1, <1>8 DEF IngressInv, Numbered
    <3> QED BY <1>1, <1>3, <1>5, <1>7, <2>1, <2>3, <2>6, <3>1 DEF IngressInv, Numbered
  <2>8. Continued'
    BY <1>1, <1>3, <1>9, <2>1, <2>3 DEF IngressInv, Continued, Follows
  <2>9. Ingress!IngressInOrder'
    BY <1>1, <1>2, <2>1, OrderStays
  <2> QED BY <2>2, <2>4, <2>6, <2>7, <2>8, <2>9 DEF IngressInv
<1>11. CASE ~Ingress!Stale(s)
  <2>1. /\ packet' = [packet EXCEPT ![s] = wire[s][1]]
        /\ owner' = [session |-> s, fd |-> fd[s]]
        /\ thread' = [thread EXCEPT ![s] = "shutting"] \/ thread' = [thread EXCEPT ![s] = "handling"]
    BY <1>4, <1>11 DEF Ingress!ReadAndClaim
  <2>2. owner'.session = s /\ s >= owner.session
    BY <1>2, <1>11, <2>1 DEF Ingress!Stale
  <2>3. /\ packet'[s] = wire[s][1] /\ thread'[s] \in {"shutting", "handling"}
        /\ \A t \in Ingress!Sessions : t # s => packet'[t] = packet[t] /\ thread'[t] = thread[t]
    BY <2>1 DEF IngressInv, Typed
  <2>4. Typed'
    <3>1. packet' \in [Ingress!Sessions -> Packet]
      BY <1>4, <2>1 DEF IngressInv, Typed
    <3>2. thread' \in [Ingress!Sessions -> {"none", "reading", "shutting", "handling", "enqueuing",
                                    "closing", "done"}]
      BY <2>1 DEF IngressInv, Typed
    <3>3. wire' \in [Ingress!Sessions -> Seq(Packet)]
      BY <1>1, <1>3 DEF IngressInv, Typed
    <3>4. owner' = [session |-> owner'.session, fd |-> owner'.fd] /\ owner'.session \in Nat
      BY <1>2, <2>1
    <3> QED BY <1>1, <3>1, <3>2, <3>3, <3>4 DEF IngressInv, Typed
  <2>5. InHand(s)' /\ \A t \in Ingress!Sessions : t # s => (InHand(t)' <=> InHand(t))
    BY <2>3 DEF InHand
  <2>6. OneByOne'
    <3>1. ASSUME NEW t \in Ingress!Sessions, InHand(t)' PROVE t <= s
      <4>1. CASE t = s
        BY <1>2, <4>1
      <4>2. CASE t # s
        <5>1. t <= owner.session
          BY <2>5, <3>1, <4>2 DEF IngressInv, OneByOne
        <5> QED BY <1>2, <2>2, <5>1
      <4> QED BY <4>1, <4>2
    <3>2. rgbIngress.session <= s /\ \A k \in handled : k[1] <= s
      <4>1. rgbIngress.session \in Nat /\ \A k \in handled : k[1] \in Nat
        BY SessionsAreNumbers DEF IngressInv, Typed
      <4> QED BY <1>2, <2>2, <4>1 DEF IngressInv, OneByOne
    <3>3. ASSUME NEW t \in Ingress!Sessions
          PROVE  /\ link[t] = "none" => thread'[t] = "none" /\ wire'[t] = <<>> /\ s # t
                 /\ link[t] # "none" => \A u \in Ingress!Sessions : u < t => link[u] = "left"
                 /\ thread'[t] \in {"closing", "done"} => link[t] # "open"
      BY <1>3, <1>5, <2>3 DEF IngressInv, OneByOne
    <3> QED BY <1>1, <2>2, <3>1, <3>2, <3>3 DEF OneByOne
  <2>7. \A t \in Ingress!Sessions : \A p \in Packet : Carries(t, p)' => Carries(t, p)
    <3>1. ASSUME NEW p \in Packet, Carries(s, p)' PROVE Carries(s, p)
      <4>1. CASE p = packet'[s]
        <5>1. p = wire[s][1] /\ 1 \in 1..Len(wire[s])
          BY <1>3, <2>3, <4>1
        <5> QED BY <5>1 DEF Carries
      <4>2. ASSUME NEW i \in 1..Len(wire'[s]), p = wire'[s][i] PROVE Carries(s, p)
        <5>1. p = wire[s][i + 1] /\ i + 1 \in 1..Len(wire[s])
          BY <1>3, <4>2
        <5> QED BY <5>1 DEF Carries
      <4> QED BY <3>1, <4>1, <4>2 DEF Carries
    <3>2. ASSUME NEW t \in Ingress!Sessions, t # s, NEW p \in Packet, Carries(t, p)' PROVE Carries(t, p)
      BY <1>3, <2>3, <2>5, <3>2 DEF Carries
    <3> QED BY <3>1, <3>2
  <2>8. /\ Apart' /\ Behind'
        /\ \A t \in Ingress!Sessions : \A p \in Packet : Carries(t, p)' => p.frame <= frames'
    BY <1>1, <1>2, <2>2, <2>7, NothingNew
  <2>9. Numbered'
    <3>1. /\ link[s] = "open" /\ wire'[s] # <<>> => wire'[s][Len(wire'[s])].frame = frames
          /\ link[s] = "open" => wire[s][Len(wire[s])].frame = frames
      BY <1>1, <1>8 DEF IngressInv, Numbered
    <3>2. wire'[s] = <<>> => Len(wire[s]) = 1
      <4>1. wire'[s] = <<>> => Len(wire'[s]) = 0
        OBVIOUS
      <4>2. Len(wire[s]) \in Nat /\ Len(wire'[s]) = Len(wire[s]) - 1
        BY <1>3
      <4> QED BY <4>1, <4>2
    <3>3. link[s] = "open" /\ wire'[s] = <<>> => packet'[s].frame = frames
      BY <2>3, <3>1, <3>2
    <3>4. wire'[s] # <<>> => wire'[s][1].frame = packet'[s].frame + 1
      BY <1>8, <2>3
    <3>5. ASSUME NEW t \in Ingress!Sessions, t # s
          PROVE  /\ \A i \in 1..Len(wire'[t]) : wire'[t][i].frame = wire'[t][1].frame + (i - 1)
                 /\ InHand(t)' /\ wire'[t] # <<>> => wire'[t][1].frame = packet'[t].frame + 1
                 /\ link[t] = "open" /\ wire'[t] # <<>> => wire'[t][Len(wire'[t])].frame = frames
                 /\ link[t] = "open" /\ wire'[t] = <<>> /\ InHand(t)' => packet'[t].frame = frames
      BY <1>3, <2>3, <2>5, <3>5 DEF IngressInv, Numbered
    <3> QED BY <1>1, <1>7, <2>5, <2>8, <3>1, <3>3, <3>4, <3>5 DEF Numbered
  <2>10. Continued'
    <3>1. ASSUME rgbIngress.session = s, ~rgbIngress.waiting
          PROVE  recorded # <<>> /\ packet'[s].frame = LastFrame + 1
      <4>1. owner.session = s
        <5>1. s <= owner.session
          BY <3>1 DEF IngressInv, OneByOne
        <5> QED BY <1>2, <2>2, <5>1
      <4>2. recorded # <<>> /\ Follows(s, LastFrame + 1)
        BY <1>1, <3>1, <4>1 DEF IngressInv, Continued
      <4> QED BY <1>1, <1>5, <2>3, <4>2 DEF Follows
    <3>2. rgbIngress.session = s /\ ~rgbIngress.waiting => recorded # <<>> /\ Follows(s, LastFrame + 1)'
      BY <1>9, <2>5, <3>1 DEF Follows
    <3> QED BY <1>1, <2>2, <2>3, <3>2 DEF Continued
  <2>11. Ingress!IngressInOrder'
    BY <1>1, <1>2, <2>2, OrderStays
  <2> QED BY <2>4, <2>6, <2>8, <2>9, <2>10, <2>11 DEF IngressInv
<1> QED
  BY <1>10, <1>11

LEMMA ShutVictimStep ==
    ASSUME IngressConstants, IngressInv, NEW s \in Ingress!Sessions, Ingress!ShutVictim(s)
    PROVE  IngressInv'
<1>1. /\ thread[s] = "shutting" /\ thread' = [thread EXCEPT ![s] = "handling"]
      /\ \A t \in Ingress!Sessions : link'[t] = link[t] \/ (link[t] = "open" /\ link'[t] = "shut")
      /\ link' \in [Ingress!Sessions -> {"none", "open", "left", "shut"}]
      /\ UNCHANGED <<wire, fd, packet, frames, owner, rgbIngress, recorded, handled>>
  BY DEF Ingress!ShutVictim, Ingress!Route, IngressInv, Typed
<1>2. frames \in Nat /\ owner.session \in Nat
  BY DEF IngressInv, Typed
<1>3. thread'[s] = "handling" /\ \A t \in Ingress!Sessions : t # s => thread'[t] = thread[t]
  BY <1>1 DEF IngressInv, Typed
<1>4. Typed'
  BY <1>1 DEF IngressInv, Typed
<1>5. \A t \in Ingress!Sessions : InHand(t)' <=> InHand(t)
  BY <1>1, <1>3 DEF InHand
<1>6. OneByOne'
  BY <1>1, <1>3, <1>5 DEF IngressInv, OneByOne
<1>7. \A t \in Ingress!Sessions : \A p \in Packet : Carries(t, p)' => Carries(t, p)
  BY <1>1, <1>5 DEF Carries
<1>8. /\ Apart' /\ Behind'
      /\ \A t \in Ingress!Sessions : \A p \in Packet : Carries(t, p)' => p.frame <= frames'
  BY <1>1, <1>2, <1>7, NothingNew
<1>9. Numbered'
  BY <1>1, <1>5, <1>8 DEF IngressInv, Numbered
<1>10. LastFrame' = LastFrame
  BY <1>1 DEF LastFrame
<1>11. Continued'
  BY <1>1, <1>3, <1>5, <1>10 DEF IngressInv, Continued, Follows
<1>12. Ingress!IngressInOrder'
  BY <1>1, <1>2, OrderStays
<1> QED
  BY <1>4, <1>6, <1>8, <1>9, <1>11, <1>12 DEF IngressInv

LEMMA HandleStep ==
    ASSUME IngressConstants, IngressInv, NEW s \in Ingress!Sessions, Ingress!Handle(s)
    PROVE  IngressInv'
<1> DEFINE drop == Ingress!WaitsForIdr(s) /\ ~packet[s].idr
<1>1. /\ thread[s] = "handling"
      /\ rgbIngress' = [session |-> s, waiting |-> drop]
      /\ thread' = [thread EXCEPT ![s] = IF drop THEN "reading" ELSE "enqueuing"]
      /\ UNCHANGED <<wire, link, fd, packet, victim, owner, recorded, handled, frames>>
  BY DEF Ingress!Handle
<1>2. frames \in Nat /\ owner.session \in Nat /\ packet[s].idr \in BOOLEAN
          /\ Ingress!Sessions \subseteq Nat
  BY SessionsAreNumbers DEF IngressInv, Typed, Packet
<1>3. drop \in BOOLEAN
  OBVIOUS
<1>4. ~drop /\ ~packet[s].idr => rgbIngress.session = s /\ ~rgbIngress.waiting
  BY DEF Ingress!WaitsForIdr
<1> HIDE DEF drop
<1>5. /\ thread'[s] = (IF drop THEN "reading" ELSE "enqueuing")
      /\ \A t \in Ingress!Sessions : t # s => thread'[t] = thread[t]
  BY <1>1 DEF IngressInv, Typed
<1>6. Typed'
  <2>1. rgbIngress' \in [session : Nat, waiting : BOOLEAN]
    BY <1>1, <1>2, <1>3
  <2> QED BY <1>1, <2>1 DEF IngressInv, Typed
<1>7. \A t \in Ingress!Sessions : InHand(t)' => InHand(t)
  BY <1>1, <1>5 DEF InHand
<1>8. InHand(s) /\ s <= owner.session
  BY <1>1 DEF IngressInv, OneByOne, InHand
<1>9. link[s] # "none"
  BY <1>1 DEF IngressInv, OneByOne
<1>10. OneByOne'
  <2>1. thread'[s] \notin {"closing", "done"}
    BY <1>5
  <2> QED BY <1>1, <1>5, <1>7, <1>8, <1>9, <2>1 DEF IngressInv, OneByOne
<1>11. \A t \in Ingress!Sessions : \A p \in Packet : Carries(t, p)' => Carries(t, p)
  BY <1>1, <1>7 DEF Carries
<1>12. /\ Apart' /\ Behind'
       /\ \A t \in Ingress!Sessions : \A p \in Packet : Carries(t, p)' => p.frame <= frames'
  BY <1>1, <1>2, <1>11, NothingNew
<1>13. Numbered'
  BY <1>1, <1>7, <1>12 DEF IngressInv, Numbered
<1>14. LastFrame' = LastFrame
  BY <1>1 DEF LastFrame
<1>15. Continued'
  <2>1. ASSUME ~drop, ~packet[s].idr, owner.session = s
        PROVE  recorded # <<>> /\ packet[s].frame = LastFrame + 1
    BY <1>1, <1>4, <1>8, <2>1 DEF IngressInv, Continued, Follows
  <2>2. ASSUME NEW t \in Ingress!Sessions, owner.session = t, rgbIngress'.session = t,
               ~rgbIngress'.waiting,
               thread'[t] # "enqueuing"
        PROVE  FALSE
    BY <1>1, <1>5, <2>2
  <2>3. ASSUME NEW t \in Ingress!Sessions, owner.session = t, thread'[t] = "enqueuing", ~packet[t].idr
        PROVE  recorded # <<>> /\ packet[t].frame = LastFrame + 1
    <3>1. CASE t = s
      BY <1>5, <2>1, <2>3, <3>1
    <3>2. CASE t # s
      BY <1>5, <2>3, <3>2 DEF IngressInv, Continued
    <3> QED BY <3>1, <3>2
  <2> QED BY <1>1, <1>14, <2>2, <2>3 DEF Continued
<1>16. Ingress!IngressInOrder'
  BY <1>1, <1>2, OrderStays
<1> QED
  BY <1>6, <1>10, <1>12, <1>13, <1>15, <1>16 DEF IngressInv

LEMMA ReadFailsStep ==
    ASSUME IngressConstants, IngressInv, NEW s \in Ingress!Sessions, Ingress!ReadFails(s)
    PROVE  IngressInv'
<1>1. /\ thread[s] = "reading" /\ link[s] \in {"shut", "left"}
      /\ thread' = [thread EXCEPT ![s] = "closing"]
      /\ UNCHANGED <<wire, link, fd, packet, victim, rgbIngress, recorded, handled, frames>>
  BY DEF Ingress!ReadFails
<1>2. /\ owner' = [session |-> owner'.session, fd |-> owner'.fd]
      /\ owner'.session = owner.session
  <2>1. owner = [session |-> owner.session, fd |-> owner.fd]
    BY DEF IngressInv, Typed
  <2> QED BY <2>1 DEF Ingress!ReadFails
<1>3. frames \in Nat /\ owner.session \in Nat
  BY DEF IngressInv, Typed
<1>4. thread'[s] = "closing" /\ \A t \in Ingress!Sessions : t # s => thread'[t] = thread[t]
  BY <1>1 DEF IngressInv, Typed
<1>5. Typed'
  BY <1>1, <1>2, <1>3 DEF IngressInv, Typed
<1>6. \A t \in Ingress!Sessions : InHand(t)' <=> InHand(t)
  BY <1>1, <1>4 DEF InHand
<1>7. OneByOne'
  BY <1>1, <1>2, <1>4, <1>6 DEF IngressInv, OneByOne
<1>8. \A t \in Ingress!Sessions : \A p \in Packet : Carries(t, p)' => Carries(t, p)
  BY <1>1, <1>6 DEF Carries
<1>9. /\ Apart' /\ Behind'
      /\ \A t \in Ingress!Sessions : \A p \in Packet : Carries(t, p)' => p.frame <= frames'
  BY <1>1, <1>2, <1>3, <1>8, NothingNew
<1>10. Numbered'
  BY <1>1, <1>6, <1>9 DEF IngressInv, Numbered
<1>11. LastFrame' = LastFrame
  BY <1>1 DEF LastFrame
<1>12. Continued'
  BY <1>1, <1>2, <1>4, <1>6, <1>11 DEF IngressInv, Continued, Follows
<1>13. Ingress!IngressInOrder'
  BY <1>1, <1>2, <1>3, OrderStays
<1> QED
  BY <1>5, <1>7, <1>9, <1>10, <1>12, <1>13 DEF IngressInv

LEMMA CloseStep ==
    ASSUME IngressConstants, IngressInv, NEW s \in Ingress!Sessions, Ingress!Close(s)
    PROVE  IngressInv'
<1>1. /\ thread[s] = "closing" /\ thread' = [thread EXCEPT ![s] = "done"]
      /\ link' = [link EXCEPT ![s] = IF @ = "open" THEN "shut" ELSE @]
      /\ wire' = [wire EXCEPT ![s] = <<>>] /\ packet' = [packet EXCEPT ![s] = Ingress!Nothing]
      /\ UNCHANGED <<fd, victim, frames, owner, rgbIngress, recorded, handled>>
  BY DEF Ingress!Close, Ingress!Route
<1>2. link[s] # "open" /\ link[s] # "none" /\ ~InHand(s)
  BY <1>1 DEF IngressInv, OneByOne, InHand
<1>3. link' = link
  BY <1>1, <1>2 DEF IngressInv, Typed
<1>4. frames \in Nat /\ owner.session \in Nat
  BY DEF IngressInv, Typed
<1>5. /\ thread'[s] = "done" /\ wire'[s] = <<>> /\ Len(wire'[s]) = 0
      /\ \A t \in Ingress!Sessions : t # s =>
            thread'[t] = thread[t] /\ wire'[t] = wire[t] /\ packet'[t] = packet[t]
  BY <1>1 DEF IngressInv, Typed
<1>6. Typed'
  BY <1>1, <1>3 DEF IngressInv, Typed, Ingress!Nothing, Packet
<1>7. ~InHand(s)' /\ \A t \in Ingress!Sessions : InHand(t)' <=> InHand(t)
  BY <1>2, <1>5 DEF InHand
<1>8. OneByOne'
  BY <1>1, <1>2, <1>3, <1>5, <1>7 DEF IngressInv, OneByOne
<1>9. \A t \in Ingress!Sessions : \A p \in Packet : Carries(t, p)' => Carries(t, p)
  BY <1>5, <1>7 DEF Carries
<1>10. /\ Apart' /\ Behind'
       /\ \A t \in Ingress!Sessions : \A p \in Packet : Carries(t, p)' => p.frame <= frames'
  BY <1>1, <1>4, <1>9, NothingNew
<1>11. Numbered'
  BY <1>1, <1>2, <1>3, <1>5, <1>7, <1>10 DEF IngressInv, Numbered
<1>12. LastFrame' = LastFrame
  BY <1>1 DEF LastFrame
<1>13. Continued'
  BY <1>1, <1>2, <1>3, <1>5, <1>7, <1>12 DEF IngressInv, Continued, Follows
<1>14. Ingress!IngressInOrder'
  BY <1>1, <1>4, OrderStays
<1> QED
  BY <1>6, <1>8, <1>10, <1>11, <1>13, <1>14 DEF IngressInv

-----------------------------------------------------------------------------
\* Recording

LEMMA EnqueueStep ==
    ASSUME IngressConstants, IngressInv, NEW s \in Ingress!Sessions, Ingress!Enqueue(s)
    PROVE  IngressInv'
<1> DEFINE p0 == packet[s]
<1>1. /\ thread[s] = "enqueuing" /\ thread' = [thread EXCEPT ![s] = "reading"]
      /\ recorded' = IF Ingress!Current(s) THEN Append(recorded, p0) ELSE recorded
      /\ handled' = IF p0.idr THEN handled \cup {<<s, p0.frame>>} ELSE handled
      /\ UNCHANGED <<wire, link, fd, packet, victim, owner, rgbIngress, frames>>
  BY DEF Ingress!Enqueue
<1>2. /\ frames \in Nat /\ owner.session \in Nat /\ Ingress!Sessions \subseteq Nat
      /\ p0 \in Packet /\ p0.frame \in Nat /\ recorded \in Seq(Packet) /\ Len(recorded) \in Nat
  BY SessionsAreNumbers DEF IngressInv, Typed, Packet
<1>3. /\ thread'[s] = "reading" /\ \A t \in Ingress!Sessions : t # s => thread'[t] = thread[t]
  BY <1>1 DEF IngressInv, Typed
<1>4. InHand(s) /\ ~InHand(s)' /\ \A t \in Ingress!Sessions : t # s => (InHand(t)' <=> InHand(t))
  BY <1>1, <1>3 DEF InHand
<1>5. /\ link[s] # "none" /\ s <= owner.session /\ p0.frame <= frames
  <2>1. Carries(s, p0)
    BY <1>4 DEF Carries
  <2> QED BY <1>1, <1>2, <1>4, <2>1 DEF IngressInv, OneByOne, Numbered
<1>6. Carries(s, p0)
  BY <1>4 DEF Carries
<1> HIDE DEF p0
<1>7. handled' \subseteq Ingress!Sessions \X Nat /\ \A k \in handled' : k[1] <= owner.session
  BY <1>1, <1>2, <1>5 DEF IngressInv, Typed, OneByOne
<1>8. \A t \in Ingress!Sessions : \A p \in Packet : Carries(t, p)' => Carries(t, p)
  BY <1>1, <1>4 DEF Carries
<1>9. OneByOne'
  BY <1>1, <1>3, <1>4, <1>5, <1>7 DEF IngressInv, OneByOne
<1>10. Numbered'
  BY <1>1, <1>4, <1>8 DEF IngressInv, Numbered
<1>11. Apart'
  BY <1>8 DEF IngressInv, Apart
<1>12. CASE ~Ingress!Current(s)
  <2>1. recorded' = recorded /\ LastFrame' = LastFrame /\ owner.session # s
    BY <1>1, <1>12 DEF LastFrame, Ingress!Current
  <2>2. Typed'
    BY <1>1, <1>7, <2>1 DEF IngressInv, Typed
  <2>3. Behind'
    BY <1>1, <1>8, <2>1 DEF IngressInv, Behind
  <2>4. Continued'
    BY <1>1, <1>3, <1>4, <2>1 DEF IngressInv, Continued, Follows
  <2>5. Ingress!IngressInOrder'
    BY <1>1, <2>1 DEF IngressInv, Ingress!IngressInOrder
  <2> QED BY <1>9, <1>10, <1>11, <2>2, <2>3, <2>4, <2>5 DEF IngressInv
<1>13. CASE Ingress!Current(s)
  <2>1. owner.session = s /\ recorded' = Append(recorded, p0)
    BY <1>1, <1>13 DEF Ingress!Current
  <2>2. /\ recorded' \in Seq(Packet) /\ Len(recorded') = Len(recorded) + 1 /\ recorded' # <<>>
        /\ \A i \in 1..Len(recorded) : recorded'[i] = recorded[i]
        /\ recorded'[Len(recorded) + 1] = p0
    BY <1>2, <2>1
  <2>3. LastFrame' = p0.frame
    BY <2>2 DEF LastFrame
  <2>4. Typed'
    BY <1>1, <1>7, <2>2 DEF IngressInv, Typed
  <2>5. \A i \in 1..Len(wire[s]) : p0.frame < wire[s][i].frame
    <3> SUFFICES ASSUME NEW i \in 1..Len(wire[s]) PROVE p0.frame < wire[s][i].frame
      OBVIOUS
    <3>1. /\ wire[s][i].frame = wire[s][1].frame + (i - 1)
          /\ wire[s][1].frame = p0.frame + 1
      <4>1. wire[s] # <<>>
        OBVIOUS
      <4> QED BY <1>4, <4>1 DEF p0, IngressInv, Numbered
    <3> QED BY <1>2, <3>1
  <2>6. Behind'
    <3> SUFFICES ASSUME NEW t \in Ingress!Sessions, t >= s, NEW p \in Packet, Carries(t, p)'
                 PROVE  p0.frame < p.frame
      BY <1>1, <1>5, <2>1, <2>3 DEF Behind
    <3>1. CASE t = s
      BY <1>1, <1>4, <2>5, <3>1 DEF Carries
    <3>2. CASE t # s
      <4>1. s < t /\ Carries(t, p)
        BY <1>2, <1>8, <3>2
      <4> QED BY <1>2, <1>6, <4>1 DEF IngressInv, Apart
    <3> QED BY <3>1, <3>2
  <2>7. Continued'
    <3>1. Follows(s, LastFrame + 1)'
      <4>1. wire[s] # <<>> => wire[s][1].frame = p0.frame + 1
        BY <1>4 DEF p0, IngressInv, Numbered
      <4>2. wire[s] = <<>> /\ link[s] = "open" => p0.frame = frames
        BY <1>4 DEF p0, IngressInv, Numbered
      <4> QED BY <1>1, <1>4, <2>3, <4>1, <4>2 DEF Follows
    <3> QED BY <1>1, <1>3, <2>1, <2>2, <3>1 DEF Continued
  <2>8. Ingress!IngressInOrder'
    <3>1. ASSUME NEW i \in 2..Len(recorded')
          PROVE  IF recorded'[i].idr THEN recorded'[i].frame > recorded'[i - 1].frame
                 ELSE recorded'[i].frame = recorded'[i - 1].frame + 1
      <4>1. CASE i \in 2..Len(recorded)
        <5>1. recorded'[i] = recorded[i] /\ recorded'[i - 1] = recorded[i - 1]
          BY <1>2, <2>2, <4>1
        <5> QED BY <4>1, <5>1 DEF IngressInv, Ingress!IngressInOrder
      <4>2. CASE i = Len(recorded) + 1
        <5>1. recorded # <<>> /\ Len(recorded) \in 1..Len(recorded)
          BY <1>2, <3>1, <4>2
        <5>2. recorded'[i] = p0 /\ recorded'[i - 1] = recorded[Len(recorded)]
          BY <1>2, <2>2, <4>2, <5>1
        <5>3. LastFrame < p0.frame /\ LastFrame \in Nat
          BY <1>2, <1>6, <2>1, <5>1, LastIsPacket DEF IngressInv, Behind
        <5>4. ~p0.idr => p0.frame = LastFrame + 1
          BY <1>1, <2>1 DEF p0, IngressInv, Continued
        <5> QED BY <1>2, <5>2, <5>3, <5>4 DEF LastFrame
      <4> QED BY <1>2, <2>2, <3>1, <4>1, <4>2
    <3>2. recorded'[1].idr
      <4>1. CASE recorded = <<>>
        <5>1. p0.idr
          BY <1>1, <2>1, <4>1 DEF p0, IngressInv, Continued
        <5> QED BY <2>2, <4>1, <5>1
      <4>2. CASE recorded # <<>>
        <5>1. 1 \in 1..Len(recorded) /\ Len(recorded) > 0
          BY <1>2, <4>2
        <5> QED BY <2>2, <5>1 DEF IngressInv, Ingress!IngressInOrder
      <4> QED BY <4>1, <4>2
    <3>3. ASSUME NEW k \in handled', k[1] = owner.session
          PROVE  \E i \in 1..Len(recorded') : recorded'[i].frame = k[2]
      <4>1. CASE k \in handled
        <5>1. PICK i \in 1..Len(recorded) : recorded[i].frame = k[2]
          BY <3>3, <4>1 DEF IngressInv, Ingress!IngressInOrder
        <5>2. i \in 1..Len(recorded') /\ recorded'[i].frame = k[2]
          BY <1>2, <2>2, <5>1
        <5> QED BY <5>2
      <4>2. CASE k = <<s, p0.frame>>
        <5>1. Len(recorded) + 1 \in 1..Len(recorded') /\ recorded'[Len(recorded) + 1].frame = k[2]
          BY <1>2, <2>2, <4>2
        <5> QED BY <5>1
      <4> QED BY <1>1, <3>3, <4>1, <4>2
    <3> QED BY <1>1, <3>1, <3>2, <3>3 DEF Ingress!IngressInOrder
  <2> QED BY <1>9, <1>10, <1>11, <2>4, <2>6, <2>7, <2>8 DEF IngressInv
<1> QED
  BY <1>12, <1>13

-----------------------------------------------------------------------------
LEMMA IngressStep == ASSUME IngressConstants, IngressInv, [Ingress!Next]_Ingress!vars PROVE IngressInv'
<1>1. CASE UNCHANGED Ingress!vars
  BY <1>1 DEF Ingress!vars, IngressInv, Typed, OneByOne, Numbered, Apart, Behind, Continued,
       Follows,
              Ingress!IngressInOrder, InHand, Carries, LastFrame
<1>2. CASE Ingress!Next
  <2>1. PICK s \in Ingress!Sessions :
            \/ (\E idr \in BOOLEAN : Ingress!Send(s, idr)) \/ Ingress!Leave(s) \/ Ingress!Connect(s)
            \/ Ingress!ReadAndClaim(s) \/ Ingress!ShutVictim(s) \/ Ingress!Handle(s)
                   \/ Ingress!Enqueue(s) \/ Ingress!ReadFails(s) \/ Ingress!Close(s)
    BY <1>2 DEF Ingress!Next
  <2> QED BY <2>1, SendStep, LeaveStep, ConnectStep, ReadAndClaimStep, ShutVictimStep,
             HandleStep, EnqueueStep, ReadFailsStep, CloseStep
<1> QED
  BY <1>1, <1>2

\* However the threads of old and new connections overtake each other, and whichever
\* socket a superseded session's descriptor belongs to by now, the record queue
\* (claim_media_ingress, handle_media_packet, enqueue_record_job) is in the order of the
\* frames, every frame of it is a keyframe or follows the one before, and the session
\* that owns the route has lost no keyframe.
THEOREM InOrder == ASSUME IngressConstants PROVE Ingress!Spec => []IngressInOrder
<1>1. Ingress!Init => IngressInv
  BY InitInv
<1>2. IngressInv /\ [Ingress!Next]_Ingress!vars => IngressInv'
  BY IngressStep
<1>3. IngressInv => Ingress!IngressInOrder
  BY DEF IngressInv
<1> QED
  BY <1>1, <1>2, <1>3, PTL DEF Ingress!Spec, IngressInOrder

-----------------------------------------------------------------------------
(***************************************************************************)
(* Packets put together from fragments (UdpReassembly).                       *)
(***************************************************************************)

\* A packet is what the headers of its fragments say of it: the receiver cannot tell two
\* of one endpoint with the same number, length and count of fragments apart.
UdpConstants ==
    /\ \A p \in Packets : p.size \in Nat /\ p.chunks \in Nat
    /\ \A p, q \in Packets : p.key = q.key /\ p.size = q.size /\ p.chunks = q.chunks => p = q
    /\ Packets # {}
    /\ MaxAssemblies \in Nat \ {0} /\ MaxBytes \in Nat

\* (UdpReassembly has its own instance of FiniteSets.)
LEMMA UdpCardinality == \A S : Udp!Cardinality(S) = Cardinality(S)
BY DEF Udp!Cardinality, Cardinality

\* A set of natural numbers has a smallest one.
LEMMA SmallestOf ==
    ASSUME NEW T, T \subseteq Nat, T # {}
    PROVE  \E x \in T : \A y \in T : x <= y
<1>1. PICK x \in T : \A y \in T : ~(<<y, x>> \in OpToRel(<, Nat))
  BY NatLessThanWellFounded, WFMin, Zenon
<1>2. ASSUME NEW y \in T PROVE x <= y
  <2>1. x \in Nat /\ y \in Nat
    OBVIOUS
  <2>2. ~(y < x)
    BY <1>1, <2>1 DEF OpToRel
  <2> QED BY <2>1, <2>2
<1> QED BY <1>2

Assembly == [size : Nat, chunks : Nat, got : SUBSET (Nat \X Packets), layout : BOOLEAN,
             age : Nat, turn : Nat]
Counts == [valid : Nat, duplicates : Nat, started : Nat, completed : Nat, expired : Nat,
           evicted : Nat, missing : Nat, invalid : Nat]

\* The fragments of an assembly are all of one packet, the one its key and length name.
Pure(k, a) ==
    \A f \in a.got : /\ f[1] \in 1..a.chunks /\ f[2] \in Packets
                     /\ f[2].key = k /\ f[2].size = a.size /\ f[2].chunks = a.chunks
Sound(as) ==
    /\ IsFiniteSet(DOMAIN as) /\ as \in [DOMAIN as -> Assembly]
    /\ \A k \in DOMAIN as : Pure(k, as[k])
\* n assemblies are under way.
Balanced(st, n) ==
    st \in Counts /\ st.started = st.completed + st.expired + st.evicted + n

\* How many assemblies there are
Number(as) == Cardinality(DOMAIN as)

\* Each assembly is of one packet, and the counts balance.
ReassemblyInv ==
    /\ Sound(assemblies) /\ Balanced(stats, Number(assemblies)) /\ datagrams \in Nat
    /\ delivered \in Seq([packet : Packets, fragments : SUBSET (Nat \X Packets)])
    /\ Udp!ReassemblyAccounted

-----------------------------------------------------------------------------
\* The assemblies and their bytes

\* The bytes each of them takes
Allotted(as) == [k \in DOMAIN as |-> 1..as[k].size]

\* Their bytes are the size of a union of finite parts, one for each assembly.
LEMMA UdpBytes ==
    ASSUME NEW as, Sound(as)
    PROVE  /\ \A k \in DOMAIN as : IsFiniteSet(Allotted(as)[k])
           /\ IsFiniteSet(Spread(DOMAIN as, Allotted(as)))
           /\ Udp!Bytes(as) = Cardinality(Spread(DOMAIN as, Allotted(as)))
           /\ Udp!Bytes(as) \in Nat /\ Number(as) \in Nat
<1>1. ASSUME NEW k \in DOMAIN as PROVE IsFiniteSet(Allotted(as)[k])
  <2>1. as[k].size \in Nat
    BY DEF Sound, Assembly
  <2> QED BY <2>1, UpTo DEF Allotted
<1>2. IsFiniteSet(Spread(DOMAIN as, Allotted(as)))
  BY <1>1, SpreadFinite DEF Sound
<1>3. Udp!Bytes(as) = Cardinality(Spread(DOMAIN as, Allotted(as)))
  <2>1. UNION {{k} \X (1..as[k].size) : k \in DOMAIN as} = Spread(DOMAIN as, Allotted(as))
    BY DEF Spread, Allotted
  <2> QED BY <2>1, UdpCardinality DEF Udp!Bytes
<1>4. Udp!Bytes(as) \in Nat /\ Number(as) \in Nat
  BY <1>2, <1>3, FS_CardinalityType DEF Sound, Number
<1> QED BY <1>1, <1>2, <1>3, <1>4

\* Fewer assemblies: a number and bytes that are not more
LEMMA UdpFewer ==
    ASSUME NEW as, Sound(as), NEW S, S \subseteq DOMAIN as
    PROVE  /\ Sound(Udp!Restrict(as, S)) /\ DOMAIN Udp!Restrict(as, S) = S
           /\ \A k \in S : Udp!Restrict(as, S)[k] = as[k]
           /\ Number(Udp!Restrict(as, S)) <= Number(as)
           /\ Udp!Bytes(Udp!Restrict(as, S)) <= Udp!Bytes(as)
           /\ S = {} => Number(Udp!Restrict(as, S)) = 0 /\ Udp!Bytes(Udp!Restrict(as, S)) = 0
<1> DEFINE some == Udp!Restrict(as, S)
<1>1. DOMAIN some = S /\ \A k \in S : some[k] = as[k]
  BY DEF Udp!Restrict
<1>2. IsFiniteSet(S) /\ Cardinality(S) <= Cardinality(DOMAIN as)
  BY FS_Subset DEF Sound
<1>3. Sound(some)
  <2>1. some \in [S -> Assembly]
    BY DEF Udp!Restrict, Sound
  <2> HIDE DEF some
  <2> QED BY <1>1, <1>2, <2>1 DEF Sound
<1> HIDE DEF some
<1>4. Number(some) <= Number(as)
  BY <1>1, <1>2 DEF Number
<1>5. Spread(S, Allotted(some)) \subseteq Spread(DOMAIN as, Allotted(as))
  BY <1>1 DEF Spread, Allotted
<1>6. Udp!Bytes(some) <= Udp!Bytes(as)
  <2>1. IsFiniteSet(Spread(DOMAIN as, Allotted(as)))
    BY UdpBytes
  <2>2. Cardinality(Spread(S, Allotted(some))) <= Cardinality(Spread(DOMAIN as, Allotted(as)))
    BY <1>5, <2>1, FS_Subset
  <2>3. /\ Udp!Bytes(some) = Cardinality(Spread(S, Allotted(some)))
        /\ Udp!Bytes(as) = Cardinality(Spread(DOMAIN as, Allotted(as)))
    BY <1>1, <1>3, UdpBytes
  <2> QED BY <2>2, <2>3
<1>7. ASSUME S = {} PROVE Number(some) = 0 /\ Udp!Bytes(some) = 0
  <2>1. Spread(S, Allotted(some)) = {}
    BY <1>7 DEF Spread
  <2>2. Udp!Bytes(some) = Cardinality(Spread(S, Allotted(some)))
    BY <1>1, <1>3, UdpBytes
  <2> QED BY <1>1, <1>7, <2>1, <2>2, FS_EmptySet DEF Number
<1> QED BY <1>1, <1>3, <1>4, <1>6, <1>7 DEF some

\* Some are gone.
LEMMA UdpRest ==
    ASSUME NEW as, Sound(as), NEW gone, gone \subseteq DOMAIN as
    PROVE  /\ Sound(Udp!Rest(as, gone)) /\ DOMAIN Udp!Rest(as, gone) = DOMAIN as \ gone
           /\ \A k \in DOMAIN as \ gone : Udp!Rest(as, gone)[k] = as[k]
           /\ Cardinality(gone) \in Nat
           /\ Number(Udp!Rest(as, gone)) = Number(as) - Cardinality(gone)
           /\ Udp!Bytes(Udp!Rest(as, gone)) <= Udp!Bytes(as)
<1>1. /\ Sound(Udp!Rest(as, gone)) /\ DOMAIN Udp!Rest(as, gone) = DOMAIN as \ gone
      /\ \A k \in DOMAIN as \ gone : Udp!Rest(as, gone)[k] = as[k]
      /\ Udp!Bytes(Udp!Rest(as, gone)) <= Udp!Bytes(as)
  BY UdpFewer DEF Udp!Rest
<1>2. IsFiniteSet(DOMAIN as) /\ IsFiniteSet(gone)
  BY FS_Subset DEF Sound
<1>3. Cardinality(DOMAIN as \ gone) = Cardinality(DOMAIN as) - Cardinality(DOMAIN as \cap gone)
  BY <1>2, FS_Difference
<1>4. DOMAIN as \cap gone = gone
  OBVIOUS
<1>5. Cardinality(gone) \in Nat
  BY <1>2, FS_CardinalityType
<1> QED BY <1>1, <1>3, <1>4, <1>5 DEF Number

\* One is put in or replaced.
Put(as, key, a, more) ==
    /\ Sound(more) /\ key \in DOMAIN more /\ more[key] = a
    /\ Number(more) = IF key \in DOMAIN as THEN Number(as) ELSE Number(as) + 1
    /\ Udp!Bytes(more) <= Udp!Bytes(as) + a.size
    /\ key \in DOMAIN as /\ as[key].size = a.size => Udp!Bytes(more) = Udp!Bytes(as)

LEMMA UdpWith ==
    ASSUME NEW as, NEW key, NEW a, Sound(as) /\ a \in Assembly /\ Pure(key, a)
    PROVE  Put(as, key, a, Udp!With(as, key, a))
<1> DEFINE more == Udp!With(as, key, a)
<1>1. DOMAIN more = DOMAIN as \cup {key} /\ more[key] = a
          /\ \A k \in DOMAIN as \ {key} : more[k] = as[k]
  BY DEF Udp!With
<1>2. IsFiniteSet(DOMAIN more) /\ Number(more) = IF key \in DOMAIN as THEN Number(as)
          ELSE Number(as) + 1
  BY ZenonT(30), <1>1, FS_AddElement DEF Sound, Number
<1>3. Sound(more)
  <2>1. more \in [DOMAIN more -> Assembly]
    BY <1>1 DEF Udp!With, Sound
  <2> HIDE DEF more
  <2> QED BY <1>1, <1>2, <2>1 DEF Sound
<1> HIDE DEF more
<1>4. /\ Udp!Bytes(more) = Cardinality(Spread(DOMAIN more, Allotted(more)))
      /\ Udp!Bytes(as) = Cardinality(Spread(DOMAIN as, Allotted(as)))
      /\ IsFiniteSet(Spread(DOMAIN as, Allotted(as)))
      /\ Udp!Bytes(as) \in Nat /\ Udp!Bytes(more) \in Nat
  BY <1>3, UdpBytes
<1> DEFINE part == {key} \X (1..a.size)
<1>5. IsFiniteSet(part) /\ Cardinality(part) = a.size /\ a.size \in Nat
  <2>1. a.size \in Nat
    BY DEF Assembly
  <2>2. IsFiniteSet(1..a.size) /\ Cardinality(1..a.size) = a.size
    BY <2>1, UpTo
  <2>3. IsFiniteSet({key}) /\ Cardinality({key}) = 1
    BY FS_Singleton
  <2>4. IsFiniteSet(part) /\ Cardinality(part) = 1 * a.size
    BY ZenonT(30), <2>2, <2>3, FS_Product
  <2> HIDE DEF part
  <2> QED BY <2>1, <2>4
<1>6. Spread(DOMAIN more, Allotted(more)) \subseteq Spread(DOMAIN as, Allotted(as)) \cup part
  BY <1>1 DEF Spread, Allotted
<1> HIDE DEF part
<1>7. Udp!Bytes(more) <= Udp!Bytes(as) + a.size
  <2> DEFINE B == Spread(DOMAIN as, Allotted(as))
  <2> HIDE DEF B
  <2>1. IsFiniteSet(B) /\ IsFiniteSet(part)
    BY <1>4, <1>5 DEF B
  <2>2. /\ IsFiniteSet(B \cup part)
        /\ Cardinality(B \cup part) = Cardinality(B) + Cardinality(part) - Cardinality(B \cap part)
    BY <2>1, FS_Union
  <2>3. Cardinality(B \cap part) \in Nat
    <3>1. IsFiniteSet(B \cap part)
      BY <2>1, FS_Subset
    <3> QED BY <3>1, FS_CardinalityType
  <2>4. Cardinality(Spread(DOMAIN more, Allotted(more))) <= Cardinality(B \cup part)
    BY <1>6, <2>2, FS_Subset DEF B
  <2>5. Cardinality(B) = Udp!Bytes(as)
    BY <1>4 DEF B
  <2> DEFINE n == Cardinality(B)
             m == Cardinality(B \cap part)
             all == Cardinality(B \cup part)
  <2>6. n \in Nat /\ m \in Nat /\ all = n + a.size - m /\ a.size \in Nat
    BY <1>4, <1>5, <2>2, <2>3, <2>5
  <2>7. all <= n + a.size
    <3> HIDE DEF n, m, all
    <3> QED BY <2>6
  <2>8. Udp!Bytes(more) <= all /\ Udp!Bytes(as) = n
    BY <1>4, <2>4, <2>5
  <2> HIDE DEF n, m, all
  <2>9. all \in Int /\ n + a.size \in Int /\ Udp!Bytes(more) \in Int
    BY <1>4, <2>6
  <2>10. Udp!Bytes(more) <= n + a.size
    BY <2>7, <2>8, <2>9
  <2> QED BY <2>8, <2>10
<1>8. ASSUME key \in DOMAIN as, as[key].size = a.size PROVE Udp!Bytes(more) = Udp!Bytes(as)
  <2>1. DOMAIN more = DOMAIN as /\ \A k \in DOMAIN as : more[k].size = as[k].size
    BY <1>1, <1>8
  <2>2. Allotted(more) = Allotted(as)
    BY <2>1 DEF Allotted
  <2> QED BY <1>4, <2>1, <2>2
<1> QED BY <1>1, <1>2, <1>3, <1>7, <1>8 DEF more, Put

\* Eviction stops when nothing is left or the rest fits.
LEMMA UdpEvict ==
    ASSUME NEW as, Sound(as), NEW most \in Int, NEW bytes0 \in Int
    PROVE  LET gone == Udp!Evicted(as, most, bytes0)
               rest == Udp!Rest(as, gone)
           IN  /\ gone \subseteq DOMAIN as
               /\ DOMAIN rest = {} \/ (Number(rest) <= most /\ Udp!Bytes(rest) <= bytes0)
<1> DEFINE gone == Udp!Evicted(as, most, bytes0)
           rest == Udp!Rest(as, gone)
<1>1. gone \subseteq DOMAIN as
  BY DEF Udp!Evicted
<1>2. Sound(rest) /\ DOMAIN rest = DOMAIN as \ gone /\ \A k \in DOMAIN rest : rest[k] = as[k]
  <2>1. Sound(rest) /\ DOMAIN rest = DOMAIN as \ gone /\ \A k \in DOMAIN as \ gone : rest[k] = as[k]
    <3> HIDE DEF gone
    <3> QED BY <1>1, UdpRest
  <2> HIDE DEF gone, rest
  <2> QED BY <2>1
<1>3. ASSUME DOMAIN rest # {} PROVE Number(rest) <= most /\ Udp!Bytes(rest) <= bytes0
  <2> DEFINE turns == {as[k].turn : k \in DOMAIN rest}
  <2>1. turns \subseteq Nat /\ turns # {}
    <3>1. \A k \in DOMAIN as : as[k].turn \in Nat
      BY DEF Sound, Assembly
    <3> HIDE DEF rest
    <3> QED BY <1>2, <1>3, <3>1
  <2>2. PICK t \in turns : \A u \in turns : t <= u
    BY <2>1, SmallestOf
  <2>3. PICK k \in DOMAIN rest : t = as[k].turn
    BY <2>2
  <2> DEFINE S == {j \in DOMAIN as : as[j].turn >= as[k].turn}
             since == Udp!Restrict(as, S)
  <2>4. k \in DOMAIN as /\ ~(k \in gone)
    BY <1>2, <2>3
  <2>5. Udp!Fits(since, most, bytes0)
    BY <2>4 DEF Udp!Evicted, Udp!Since
  <2>6. Number(since) <= most /\ Udp!Bytes(since) <= bytes0
    BY <2>5, UdpCardinality DEF Udp!Fits, Number
  <2>7. \A j \in DOMAIN rest : j \in S
    <3> SUFFICES ASSUME NEW j \in DOMAIN rest PROVE j \in S
      OBVIOUS
    <3>1. as[j].turn \in turns /\ j \in DOMAIN as
      BY <1>2
    <3>2. as[k].turn <= as[j].turn /\ as[j].turn \in Nat /\ as[k].turn \in Nat
      BY <2>1, <2>2, <2>3, <3>1
    <3> QED BY <3>1, <3>2
  <2>8. Sound(since) /\ DOMAIN since = S /\ \A j \in S : since[j] = as[j]
    <3>1. S \subseteq DOMAIN as
      OBVIOUS
    <3> HIDE DEF S
    <3> QED BY <3>1, UdpFewer
  <2>9. rest = Udp!Restrict(since, DOMAIN rest)
    <3>1. rest = [j \in DOMAIN rest |-> rest[j]]
      BY <1>2 DEF Sound
    <3> HIDE DEF rest, since, S
    <3>2. Udp!Restrict(since, DOMAIN rest) = [j \in DOMAIN rest |-> rest[j]]
      BY <1>2, <2>7, <2>8 DEF Udp!Restrict
    <3> QED BY <3>1, <3>2
  <2> HIDE DEF rest, since, S, turns
  <2>10. DOMAIN rest \subseteq DOMAIN since
    BY <2>7, <2>8
  <2>11. Number(rest) <= Number(since) /\ Udp!Bytes(rest) <= Udp!Bytes(since)
    BY <2>8, <2>9, <2>10, UdpFewer
  <2>12. /\ Number(rest) \in Nat /\ Number(since) \in Nat
         /\ Udp!Bytes(rest) \in Nat /\ Udp!Bytes(since) \in Nat
    BY <1>2, <2>8, UdpBytes
  <2> QED BY <2>6, <2>11, <2>12
<1> QED BY <1>1, <1>3

-----------------------------------------------------------------------------
\* Those that go are counted.
LEMMA UdpAccount ==
    ASSUME NEW as, Sound(as), NEW gone, gone \subseteq DOMAIN as, NEW n \in Nat, NEW st,
           Balanced(st, n),
           NEW kind \in {"expired", "evicted"}
    PROVE  Balanced(Udp!Account(st, as, gone, kind), n - Cardinality(gone))
<1> DEFINE lost == Cardinality(UNION {{k} \X Udp!Lacking(as[k]) : k \in gone})
           c == Cardinality(gone)
<1>1. IsFiniteSet(gone) /\ c \in Nat
  <2>1. IsFiniteSet(gone)
    BY FS_Subset DEF Sound
  <2> QED BY <2>1, FS_CardinalityType
<1>2. lost \in Nat
  <2> DEFINE f == [k \in gone |-> Udp!Lacking(as[k])]
  <2>1. ASSUME NEW k \in gone PROVE IsFiniteSet(f[k])
    <3>1. as[k].chunks \in Nat
      BY DEF Sound, Assembly
    <3>2. IsFiniteSet(1..as[k].chunks)
      BY <3>1, UpTo
    <3>3. f[k] \subseteq 1..as[k].chunks
      BY DEF Udp!Lacking
    <3> QED BY <3>2, <3>3, FS_Subset
  <2>2. UNION {{k} \X Udp!Lacking(as[k]) : k \in gone} = Spread(gone, f)
    BY DEF Spread
  <2> HIDE DEF f
  <2>3. IsFiniteSet(Spread(gone, f))
    BY <1>1, <2>1, SpreadFinite
  <2> QED BY <2>2, <2>3, FS_CardinalityType
<1>3. Udp!Account(st, as, gone, kind) = [st EXCEPT ![kind] = @ + c, !.missing = @ + lost]
  BY UdpCardinality DEF Udp!Account
<1> HIDE DEF lost, c
<1>4. st \in Counts /\ st.started = st.completed + st.expired + st.evicted + n
  BY DEF Balanced
<1>5. CASE kind = "expired"
  <2> DEFINE new == [st EXCEPT !.expired = @ + c, !.missing = @ + lost]
  <2>1. new \in Counts
    <3>1. st.expired + c \in Nat /\ st.missing + lost \in Nat
      <4>1. st.expired \in Nat /\ st.missing \in Nat
        BY <1>4 DEF Counts
      <4> QED BY <1>1, <1>2, <4>1
    <3>2. new = [st EXCEPT !.expired = st.expired + c, !.missing = st.missing + lost]
      BY <1>4 DEF Counts
    <3> HIDE DEF new
    <3> QED BY <1>4, <3>1, <3>2 DEF Counts
  <2>2. /\ new.started = st.started /\ new.completed = st.completed /\ new.evicted = st.evicted
        /\ new.expired = st.expired + c
    BY <1>4 DEF Counts
  <2>3. Udp!Account(st, as, gone, kind) = new
    BY <1>3, <1>5
  <2> HIDE DEF new
  <2>4. st.completed \in Nat /\ st.expired \in Nat /\ st.evicted \in Nat
    BY <1>4 DEF Counts
  <2>5. new.started = new.completed + new.expired + new.evicted + (n - c)
    BY <1>1, <1>4, <2>2, <2>4
  <2> QED BY <2>1, <2>3, <2>5 DEF Balanced, c
<1>6. CASE kind = "evicted"
  <2> DEFINE new == [st EXCEPT !.evicted = @ + c, !.missing = @ + lost]
  <2>1. new \in Counts
    <3>1. st.evicted + c \in Nat /\ st.missing + lost \in Nat
      <4>1. st.evicted \in Nat /\ st.missing \in Nat
        BY <1>4 DEF Counts
      <4> QED BY <1>1, <1>2, <4>1
    <3>2. new = [st EXCEPT !.evicted = st.evicted + c, !.missing = st.missing + lost]
      BY <1>4 DEF Counts
    <3> HIDE DEF new
    <3> QED BY <1>4, <3>1, <3>2 DEF Counts
  <2>2. /\ new.started = st.started /\ new.completed = st.completed /\ new.expired = st.expired
        /\ new.evicted = st.evicted + c
    BY <1>4 DEF Counts
  <2>3. Udp!Account(st, as, gone, kind) = new
    BY <1>3, <1>6
  <2> HIDE DEF new
  <2>4. st.completed \in Nat /\ st.expired \in Nat /\ st.evicted \in Nat
    BY <1>4 DEF Counts
  <2>5. new.started = new.completed + new.expired + new.evicted + (n - c)
    BY <1>1, <1>4, <2>2, <2>4
  <2> QED BY <2>1, <2>3, <2>5 DEF Balanced, c
<1> QED BY <1>5, <1>6

\* An assembly more is begun.
LEMMA UdpBegun ==
    ASSUME NEW n \in Int, NEW st, Balanced(st, n)
    PROVE  Balanced([st EXCEPT !.started = @ + 1], n + 1)
<1>1. st \in Counts /\ st.started = st.completed + st.expired + st.evicted + n
  BY DEF Balanced
<1> DEFINE new == [st EXCEPT !.started = @ + 1]
<1>2. new \in Counts
  BY <1>1 DEF Counts
<1>3. /\ new.started = st.started + 1 /\ new.completed = st.completed
      /\ new.evicted = st.evicted /\ new.expired = st.expired
  BY <1>1 DEF Counts
<1> HIDE DEF new
<1>4. st.completed \in Nat /\ st.expired \in Nat /\ st.evicted \in Nat
  BY <1>1 DEF Counts
<1>5. new.started = new.completed + new.expired + new.evicted + (n + 1)
  BY <1>1, <1>3, <1>4
<1> QED BY <1>2, <1>5 DEF Balanced, new

\* Eviction, with its account
LEMMA UdpEvicts ==
    ASSUME NEW as, Sound(as), NEW st, Balanced(st, Number(as)), NEW most \in Int, NEW bytes0 \in Int
    PROVE  LET gone == Udp!Evicted(as, most, bytes0)
               rest == Udp!Rest(as, gone)
           IN  /\ Sound(rest) /\ DOMAIN rest \subseteq DOMAIN as
               /\ Balanced(Udp!Account(st, as, gone, "evicted"), Number(rest))
               /\ \/ Number(rest) = 0 /\ Udp!Bytes(rest) = 0
                  \/ Number(rest) <= most /\ Udp!Bytes(rest) <= bytes0
<1> DEFINE gone == Udp!Evicted(as, most, bytes0)
           rest == Udp!Rest(as, gone)
<1>1. /\ gone \subseteq DOMAIN as
      /\ DOMAIN rest = {} \/ (Number(rest) <= most /\ Udp!Bytes(rest) <= bytes0)
  BY UdpEvict
<1> HIDE DEF gone
<1>2. /\ Sound(rest) /\ DOMAIN rest = DOMAIN as \ gone
      /\ Number(rest) = Number(as) - Cardinality(gone)
  BY <1>1, UdpRest
<1>3. Balanced(Udp!Account(st, as, gone, "evicted"), Number(rest))
  <2>1. Number(as) \in Nat
    BY UdpBytes
  <2>2. Balanced(Udp!Account(st, as, gone, "evicted"), Number(as) - Cardinality(gone))
    BY <1>1, <2>1, UdpAccount
  <2> QED BY <1>2, <2>2
<1>4. ASSUME DOMAIN rest = {} PROVE Number(rest) = 0 /\ Udp!Bytes(rest) = 0
  <2>1. DOMAIN as \ gone = {}
    BY <1>2, <1>4
  <2> QED BY <2>1, UdpFewer DEF Udp!Rest, rest
<1> QED BY <1>1, <1>2, <1>3, <1>4 DEF gone

\* What has expired goes, and the oldest until the rest fits.
LEMMA UdpCleaned ==
    ASSUME UdpConstants, NEW s, Sound(s.as), Balanced(s.st, Number(s.as))
    PROVE  LET c == Udp!Cleaned(s)
           IN  /\ Sound(c.as) /\ Balanced(c.st, Number(c.as))
               /\ Number(c.as) <= MaxAssemblies /\ Udp!Bytes(c.as) <= MaxBytes
<1> DEFINE expired == {k \in DOMAIN s.as : s.as[k].age = Udp!Expired}
           live == Udp!Rest(s.as, expired)
           st == Udp!Account(s.st, s.as, expired, "expired")
           gone == Udp!Evicted(live, MaxAssemblies, MaxBytes)
           rest == Udp!Rest(live, gone)
           last == Udp!Account(st, live, gone, "evicted")
<1>1. Udp!Cleaned(s) = [as |-> rest, st |-> last]
  BY DEF Udp!Cleaned
<1>2. expired \subseteq DOMAIN s.as
  OBVIOUS
<1> HIDE DEF expired
<1>3. Sound(live) /\ Number(live) = Number(s.as) - Cardinality(expired)
  BY <1>2, UdpRest
<1>4. Balanced(st, Number(live))
  <2>1. Number(s.as) \in Nat
    BY UdpBytes
  <2>2. Balanced(st, Number(s.as) - Cardinality(expired))
    BY <1>2, <2>1, UdpAccount
  <2> QED BY <1>3, <2>2
<1> HIDE DEF live, st
<1>5. MaxAssemblies \in Int /\ MaxBytes \in Int /\ 0 <= MaxAssemblies /\ 0 <= MaxBytes
  BY DEF UdpConstants
<1>6. /\ Sound(rest) /\ Balanced(last, Number(rest))
      /\ \/ Number(rest) = 0 /\ Udp!Bytes(rest) = 0
         \/ Number(rest) <= MaxAssemblies /\ Udp!Bytes(rest) <= MaxBytes
  BY <1>3, <1>4, <1>5, UdpEvicts
<1> HIDE DEF rest, last
<1> QED BY <1>1, <1>5, <1>6

\* The assembly a fragment goes into: with it the bytes may pass the limit by one packet,
\* when one of another length is begun again.
LEMMA UdpOpened ==
    ASSUME UdpConstants, NEW s, Sound(s.as), Balanced(s.st, Number(s.as)),
           Number(s.as) <= MaxAssemblies, Udp!Bytes(s.as) <= MaxBytes, NEW p \in Packets
    PROVE  LET o == Udp!Opened(s, p)
           IN  /\ Sound(o.as) /\ Balanced(o.st, Number(o.as))
               /\ Number(o.as) <= MaxAssemblies /\ Udp!Bytes(o.as) <= MaxBytes + p.size
               /\ p.key \in DOMAIN o.as
               /\ o.as[p.key].size = p.size /\ o.as[p.key].chunks = p.chunks
<1> DEFINE o == Udp!Opened(s, p)
           new == Udp!New(p)
<1>1. new \in Assembly /\ Pure(p.key, new) /\ new.size = p.size /\ new.chunks = p.chunks
  BY DEF Udp!New, Assembly, Pure, UdpConstants
<1> HIDE DEF new
<1>2. /\ p.size \in Nat /\ MaxAssemblies \in Nat /\ MaxAssemblies > 0 /\ MaxBytes \in Nat
      /\ Number(s.as) \in Nat /\ Udp!Bytes(s.as) \in Nat
  BY UdpBytes DEF UdpConstants
<1>3. CASE p.key \notin DOMAIN s.as
  <2> DEFINE room == Udp!Reserved(s, p.size)
             gone == Udp!Evicted(s.as, MaxAssemblies - 1, MaxBytes - p.size)
  <2>1. /\ Sound(room.as) /\ DOMAIN room.as \subseteq DOMAIN s.as
        /\ Balanced(room.st, Number(room.as))
        /\ \/ Number(room.as) = 0 /\ Udp!Bytes(room.as) = 0
           \/ Number(room.as) <= MaxAssemblies - 1 /\ Udp!Bytes(room.as) <= MaxBytes - p.size
    <3>1. /\ room.as = Udp!Rest(s.as, gone)
          /\ room.st = Udp!Account(s.st, s.as, gone, "evicted")
      BY DEF Udp!Reserved
    <3>2. MaxAssemblies - 1 \in Int /\ MaxBytes - p.size \in Int
      BY <1>2
    <3> HIDE DEF room
    <3> QED BY <3>1, <3>2, UdpEvicts
  <2>2. o.as = Udp!With(room.as, p.key, new) /\ o.st = [room.st EXCEPT !.started = @ + 1]
    BY <1>3 DEF Udp!Opened, new
  <2> HIDE DEF room, o, gone
  <2>3. p.key \notin DOMAIN room.as
    BY <1>3, <2>1
  <2>4. /\ Sound(o.as) /\ p.key \in DOMAIN o.as /\ o.as[p.key] = new
        /\ Number(o.as) = Number(room.as) + 1
        /\ Udp!Bytes(o.as) <= Udp!Bytes(room.as) + new.size
    <3>1. Put(room.as, p.key, new, o.as)
      BY <1>1, <2>1, <2>2, UdpWith
    <3> QED BY <2>3, <3>1 DEF Put
  <2>5. Number(room.as) \in Nat /\ Udp!Bytes(room.as) \in Nat
    BY <2>1, UdpBytes
  <2>6. Balanced(o.st, Number(o.as))
    BY <2>1, <2>2, <2>4, <2>5, UdpBegun
  <2>7. Udp!Bytes(o.as) \in Nat
    BY <2>4, UdpBytes
  <2>8. Number(o.as) <= MaxAssemblies /\ Udp!Bytes(o.as) <= MaxBytes + p.size
    BY <1>1, <1>2, <2>1, <2>4, <2>5, <2>7
  <2> QED BY <1>1, <2>4, <2>6, <2>8 DEF o
<1>4. CASE p.key \in DOMAIN s.as /\ Udp!Same(s.as[p.key], p)
  <2>1. o = s
    BY <1>4 DEF Udp!Opened
  <2> HIDE DEF o
  <2> QED BY <1>2, <1>4, <2>1 DEF Udp!Same, o
<1>5. CASE p.key \in DOMAIN s.as /\ ~Udp!Same(s.as[p.key], p)
  <2> DEFINE st == Udp!Account(s.st, s.as, {p.key}, "evicted")
  <2>1. o.as = Udp!With(s.as, p.key, new) /\ o.st = [st EXCEPT !.started = @ + 1]
    BY <1>5 DEF Udp!Opened, new
  <2>2. Balanced(st, Number(s.as) - 1)
    <3>1. {p.key} \subseteq DOMAIN s.as /\ Cardinality({p.key}) = 1
      BY <1>5, FS_Singleton
    <3>2. Balanced(st, Number(s.as) - Cardinality({p.key}))
      BY <1>2, <3>1, UdpAccount
    <3> QED BY <3>1, <3>2
  <2> HIDE DEF st, o
  <2>3. /\ Sound(o.as) /\ p.key \in DOMAIN o.as /\ o.as[p.key] = new
        /\ Number(o.as) = Number(s.as)
        /\ Udp!Bytes(o.as) <= Udp!Bytes(s.as) + new.size
    <3>1. Put(s.as, p.key, new, o.as)
      BY <1>1, <2>1, UdpWith
    <3> QED BY <1>5, <3>1 DEF Put
  <2>4. Balanced(o.st, Number(o.as))
    <3>1. Number(s.as) - 1 \in Int /\ (Number(s.as) - 1) + 1 = Number(s.as)
      BY <1>2
    <3>2. Balanced([st EXCEPT !.started = @ + 1], (Number(s.as) - 1) + 1)
      BY <2>2, <3>1, UdpBegun
    <3> QED BY <2>1, <2>3, <3>1, <3>2
  <2>5. Udp!Bytes(o.as) \in Nat
    BY <2>3, UdpBytes
  <2>6. Udp!Bytes(o.as) <= MaxBytes + p.size
    BY <1>1, <1>2, <2>3, <2>5
  <2> QED BY <1>1, <2>3, <2>4, <2>6 DEF o
<1> QED BY <1>3, <1>4, <1>5
\* What else a step counts
Arrived(st, again) == [st EXCEPT !.valid = @ + 1, !.duplicates = IF again THEN @ + 1 ELSE @]

LEMMA UdpArrived ==
    ASSUME NEW n \in Int, NEW st, Balanced(st, n), NEW again \in BOOLEAN
    PROVE  Balanced(Arrived(st, again), n)
<1>1. st \in Counts /\ st.started = st.completed + st.expired + st.evicted + n
  BY DEF Balanced
<1>2. st.completed \in Nat /\ st.expired \in Nat /\ st.evicted \in Nat
  BY <1>1 DEF Counts
<1> DEFINE new == [st EXCEPT !.valid = @ + 1, !.duplicates = IF again THEN @ + 1 ELSE @]
<1>3. new \in Counts
  <2> DEFINE x == st.valid + 1
             y == IF again THEN st.duplicates + 1 ELSE st.duplicates
  <2>1. x \in Nat /\ y \in Nat
    BY <1>1 DEF Counts
  <2>2. new = [st EXCEPT !.valid = x, !.duplicates = y]
    BY <1>1 DEF Counts
  <2> HIDE DEF x, y, new
  <2> QED BY <1>1, <2>1, <2>2 DEF Counts
<1>4. /\ new.started = st.started /\ new.completed = st.completed
      /\ new.evicted = st.evicted /\ new.expired = st.expired
  BY <1>1 DEF Counts
<1> HIDE DEF new
<1>5. new.started = new.completed + new.expired + new.evicted + (n)
  BY <1>1, <1>2, <1>4
<1> QED BY <1>3, <1>5 DEF Balanced, new, Arrived

LEMMA UdpCompletes ==
    ASSUME NEW n \in Int, NEW st, Balanced(st, n)
    PROVE  Balanced([st EXCEPT !.completed = @ + 1], n - 1)
<1>1. st \in Counts /\ st.started = st.completed + st.expired + st.evicted + n
  BY DEF Balanced
<1>2. st.completed \in Nat /\ st.expired \in Nat /\ st.evicted \in Nat
  BY <1>1 DEF Counts
<1> DEFINE new == [st EXCEPT !.completed = @ + 1]
<1>3. new \in Counts
  BY <1>1 DEF Counts
<1>4. /\ new.started = st.started /\ new.completed = st.completed + 1
      /\ new.evicted = st.evicted /\ new.expired = st.expired
  BY <1>1 DEF Counts
<1> HIDE DEF new
<1>5. new.started = new.completed + new.expired + new.evicted + (n - 1)
  BY <1>1, <1>2, <1>4
<1> QED BY <1>3, <1>5 DEF Balanced, new

LEMMA UdpGivenUp ==
    ASSUME NEW n \in Int, NEW st, Balanced(st, n)
    PROVE  Balanced([st EXCEPT !.evicted = @ + 1, !.invalid = @ + 1], n - 1)
<1>1. st \in Counts /\ st.started = st.completed + st.expired + st.evicted + n
  BY DEF Balanced
<1>2. st.completed \in Nat /\ st.expired \in Nat /\ st.evicted \in Nat
  BY <1>1 DEF Counts
<1> DEFINE new == [st EXCEPT !.evicted = @ + 1, !.invalid = @ + 1]
<1>3. new \in Counts
  <2> DEFINE x == st.evicted + 1
             y == st.invalid + 1
  <2>1. x \in Nat /\ y \in Nat
    BY <1>1 DEF Counts
  <2>2. new = [st EXCEPT !.evicted = x, !.invalid = y]
    BY <1>1 DEF Counts
  <2> HIDE DEF x, y, new
  <2> QED BY <1>1, <2>1, <2>2 DEF Counts
<1>4. /\ new.started = st.started /\ new.completed = st.completed
      /\ new.evicted = st.evicted + 1 /\ new.expired = st.expired
  BY <1>1 DEF Counts
<1> HIDE DEF new
<1>5. new.started = new.completed + new.expired + new.evicted + (n - 1)
  BY <1>1, <1>2, <1>4
<1> QED BY <1>3, <1>5 DEF Balanced, new

LEMMA UdpIsInvalid ==
    ASSUME NEW n \in Int, NEW st, Balanced(st, n)
    PROVE  Balanced([st EXCEPT !.invalid = @ + 1], n)
<1>1. st \in Counts /\ st.started = st.completed + st.expired + st.evicted + n
  BY DEF Balanced
<1>2. st.completed \in Nat /\ st.expired \in Nat /\ st.evicted \in Nat
  BY <1>1 DEF Counts
<1> DEFINE new == [st EXCEPT !.invalid = @ + 1]
<1>3. new \in Counts
  BY <1>1 DEF Counts
<1>4. /\ new.started = st.started /\ new.completed = st.completed
      /\ new.evicted = st.evicted /\ new.expired = st.expired
  BY <1>1 DEF Counts
<1> HIDE DEF new
<1>5. new.started = new.completed + new.expired + new.evicted + (n)
  BY <1>1, <1>2, <1>4
<1> QED BY <1>3, <1>5 DEF Balanced, new

\* A fragment goes to the other fragments of its packet; with the last one they are
\* the fragments of that packet.
LEMMA UdpFilled ==
    ASSUME UdpConstants, datagrams \in Nat, NEW p \in Packets, NEW index \in 1..p.chunks,
           NEW placed \in BOOLEAN, NEW a \in Assembly, Pure(p.key, a), a.size = p.size,
           a.chunks = p.chunks
    PROVE  LET new == Udp!Filled(a, p, index, placed)
           IN  /\ new \in Assembly /\ Pure(p.key, new) /\ new.size = p.size
               /\ Udp!Lacking(new) = {} => new.got = (1..p.chunks) \X {p}
<1> DEFINE new == Udp!Filled(a, p, index, placed)
<1>1. p.chunks \in Nat /\ index \in Nat /\ index \in 1..a.chunks
  BY DEF UdpConstants
<1>2. /\ new \in Assembly /\ new.size = p.size /\ new.chunks = a.chunks
      /\ new.got = a.got \/ new.got = a.got \cup {<<index, p>>}
  <2>1. CASE Udp!Has(a, index)
    <3>1. new = [a EXCEPT !.age = 0, !.turn = datagrams + 1]
      BY <2>1 DEF Udp!Filled
    <3>2. datagrams + 1 \in Nat
      OBVIOUS
    <3> HIDE DEF new
    <3> QED BY <3>1, <3>2 DEF Assembly
  <2>2. CASE ~Udp!Has(a, index)
    <3>1. new = [a EXCEPT !.age = 0, !.turn = datagrams + 1, !.got = @ \cup {<<index, p>>},
                          !.layout = @ /\ placed]
      BY <2>2 DEF Udp!Filled
    <3>2. <<index, p>> \in Nat \X Packets
      BY <1>1
    <3>3. a.got \cup {<<index, p>>} \in SUBSET (Nat \X Packets)
      BY <3>2 DEF Assembly
    <3>4. (a.layout /\ placed) \in BOOLEAN
      OBVIOUS
    <3>5. datagrams + 1 \in Nat
      OBVIOUS
    <3> DEFINE turn == datagrams + 1
               got == a.got \cup {<<index, p>>}
               layout == a.layout /\ placed
    <3>6. new = [a EXCEPT !.age = 0, !.turn = turn, !.got = got, !.layout = layout]
      BY <3>1
    <3>7. turn \in Nat /\ got \in SUBSET (Nat \X Packets) /\ layout \in BOOLEAN
      BY <3>3, <3>4, <3>5
    <3> HIDE DEF turn, got, layout, new
    <3>8. /\ new \in Assembly /\ new.size = a.size /\ new.chunks = a.chunks /\ new.got = got
      BY <3>6, <3>7 DEF Assembly
    <3> QED BY <3>8 DEF got
  <2> QED BY <2>1, <2>2
<1> HIDE DEF new
<1>3. Pure(p.key, new)
  <2> SUFFICES ASSUME NEW f \in new.got
               PROVE  /\ f[1] \in 1..new.chunks /\ f[2] \in Packets
                      /\ f[2].key = p.key /\ f[2].size = new.size /\ f[2].chunks = new.chunks
    BY DEF Pure
  <2>1. CASE f \in a.got
    BY <1>2, <2>1 DEF Pure
  <2>2. CASE f = <<index, p>>
    BY <1>1, <1>2, <2>2
  <2> QED BY <1>2, <2>1, <2>2
<1>4. ASSUME NEW f \in new.got PROVE f[1] \in 1..p.chunks /\ f = <<f[1], p>>
  <2>1. f \in Nat \X Packets
    BY <1>2 DEF Assembly
  <2>2. f[1] \in 1..p.chunks /\ f[2] \in Packets /\ f[2].key = p.key /\ f[2].size = p.size
            /\ f[2].chunks = p.chunks
    BY <1>2, <1>3 DEF Pure
  <2>3. f[2] = p
    BY <2>2 DEF UdpConstants
  <2> QED BY <2>1, <2>2, <2>3
<1>5. ASSUME Udp!Lacking(new) = {} PROVE new.got = (1..p.chunks) \X {p}
  <2>1. ASSUME NEW i \in 1..p.chunks PROVE <<i, p>> \in new.got
    <3>1. Udp!Has(new, i)
      BY <1>2, <1>5 DEF Udp!Lacking
    <3>2. PICK f \in new.got : f[1] = i
      BY <3>1 DEF Udp!Has
    <3> QED BY <1>4, <3>2
  <2>2. ASSUME NEW f \in new.got PROVE f \in (1..p.chunks) \X {p}
    BY <1>4
  <2>3. ASSUME NEW f \in (1..p.chunks) \X {p} PROVE f \in new.got
    <3>1. f = <<f[1], p>> /\ f[1] \in 1..p.chunks
      OBVIOUS
    <3> QED BY <2>1, <3>1
  <2> QED BY <2>2, <2>3
<1> QED BY <1>2, <1>3, <1>5 DEF new

\* A packet handed on
LEMMA UdpHandedOn ==
    ASSUME UdpConstants, ReassemblyInv, NEW p \in Packets,
           delivered' = Append(delivered, [packet |-> p, fragments |-> (1..p.chunks) \X {p}])
    PROVE  /\ delivered' \in Seq([packet : Packets, fragments : SUBSET (Nat \X Packets)])
           /\ \A i \in DOMAIN delivered' :
                 LET q == delivered'[i].packet IN delivered'[i].fragments = (1..q.chunks) \X {q}
<1> DEFINE r == [packet |-> p, fragments |-> (1..p.chunks) \X {p}]
           Handed == [packet : Packets, fragments : SUBSET (Nat \X Packets)]
<1>1. r \in Handed
  <2>1. (1..p.chunks) \X {p} \in SUBSET (Nat \X Packets)
    OBVIOUS
  <2> QED BY <2>1
<1>2. r.fragments = (1..r.packet.chunks) \X {r.packet}
  OBVIOUS
<1>3. delivered \in Seq(Handed) /\ delivered' = Append(delivered, r)
  BY DEF ReassemblyInv
<1>4. \A i \in DOMAIN delivered :
         LET q == delivered[i].packet IN delivered[i].fragments = (1..q.chunks) \X {q}
  BY DEF ReassemblyInv, Udp!ReassemblyAccounted
<1> HIDE DEF r, Handed
<1>5. delivered' \in Seq(Handed)
  BY <1>1, <1>3
<1>6. /\ DOMAIN delivered' = 1..(Len(delivered) + 1) /\ DOMAIN delivered = 1..Len(delivered)
      /\ \A i \in 1..Len(delivered) : delivered'[i] = delivered[i]
      /\ delivered'[Len(delivered) + 1] = r
  BY <1>1, <1>3
<1>7. ASSUME NEW i \in DOMAIN delivered'
      PROVE  LET q == delivered'[i].packet IN delivered'[i].fragments = (1..q.chunks) \X {q}
  <2>1. i \in 1..Len(delivered) \/ i = Len(delivered) + 1
    <3>1. Len(delivered) \in Nat
      BY <1>3
    <3> QED BY <1>6, <3>1
  <2>2. CASE i \in 1..Len(delivered)
    BY <1>4, <1>6, <2>2
  <2>3. CASE i = Len(delivered) + 1
    BY <1>2, <1>6, <2>3
  <2> QED BY <2>1, <2>2, <2>3
<1> QED BY <1>5, <1>7 DEF Handed

\* The invariant, of assemblies and counts that keep within the limits
LEMMA UdpKept ==
    ASSUME UdpConstants, datagrams' \in Nat,
           Sound(assemblies'), Balanced(stats', Number(assemblies')),
           Number(assemblies') <= MaxAssemblies,
           NEW p \in Packets, Udp!Bytes(assemblies') <= MaxBytes + p.size,
           delivered' \in Seq([packet : Packets, fragments : SUBSET (Nat \X Packets)]),
           \A i \in DOMAIN delivered' :
              LET q == delivered'[i].packet IN delivered'[i].fragments = (1..q.chunks) \X {q}
    PROVE  ReassemblyInv'
<1>1. Udp!Cardinality(DOMAIN assemblies') = Number(assemblies')
  BY UdpCardinality DEF Number
<1>2. stats'.started = stats'.completed + stats'.expired + stats'.evicted + Number(assemblies')
  BY DEF Balanced
<1>3. Udp!Bytes(assemblies)' = Udp!Bytes(assemblies')
  BY DEF Udp!Bytes
<1>4. Udp!ReassemblyAccounted'
  BY <1>1, <1>2, <1>3 DEF Udp!ReassemblyAccounted
<1> QED BY <1>4 DEF ReassemblyInv, Sound, Balanced, Number

\* A fragment: its assembly stays incomplete, is complete, or is given up.
LEMMA UdpDatagram ==
    ASSUME UdpConstants, ReassemblyInv, NEW p \in Packets, NEW index \in 1..p.chunks,
           NEW placed \in BOOLEAN,
           Udp!Datagram(p, index, placed)
    PROVE  ReassemblyInv'
<1> DEFINE cleaned == Udp!Cleaned([as |-> assemblies, st |-> stats])
           open == Udp!Opened(cleaned, p)
           a == open.as[p.key]
           new == Udp!Filled(a, p, index, placed)
           st == [open.st EXCEPT !.valid = @ + 1, !.duplicates = IF Udp!Has(a, index) THEN @ + 1 ELSE @]
<1>1. /\ Sound(cleaned.as) /\ Balanced(cleaned.st, Number(cleaned.as))
      /\ Number(cleaned.as) <= MaxAssemblies /\ Udp!Bytes(cleaned.as) <= MaxBytes
  <2> DEFINE s == [as |-> assemblies, st |-> stats]
  <2>1. Sound(s.as) /\ Balanced(s.st, Number(s.as))
    BY DEF ReassemblyInv
  <2> HIDE DEF s
  <2>2. LET c == Udp!Cleaned(s)
        IN  /\ Sound(c.as) /\ Balanced(c.st, Number(c.as))
            /\ Number(c.as) <= MaxAssemblies /\ Udp!Bytes(c.as) <= MaxBytes
    BY <2>1, UdpCleaned
  <2> QED BY <2>2 DEF s
<1>2. /\ datagrams' = datagrams + 1
      /\ \/ /\ Udp!Lacking(new) # {} /\ assemblies' = Udp!With(open.as, p.key, new)
            /\ stats' = st /\ UNCHANGED delivered
         \/ /\ Udp!Lacking(new) = {} /\ assemblies' = Udp!Rest(open.as, {p.key})
            /\ stats' = [st EXCEPT !.completed = @ + 1]
            /\ delivered' = Append(delivered, [packet |-> p, fragments |-> new.got])
         \/ /\ Udp!Lacking(new) = {} /\ assemblies' = Udp!Rest(open.as, {p.key})
            /\ stats' = [st EXCEPT !.evicted = @ + 1, !.invalid = @ + 1]
            /\ UNCHANGED delivered
  BY DEF Udp!Datagram
<1> HIDE DEF cleaned
<1>3. /\ Sound(open.as) /\ Balanced(open.st, Number(open.as))
      /\ Number(open.as) <= MaxAssemblies /\ Udp!Bytes(open.as) <= MaxBytes + p.size
      /\ p.key \in DOMAIN open.as /\ a.size = p.size /\ a.chunks = p.chunks
  BY <1>1, UdpOpened
<1> HIDE DEF open
<1>4. a \in Assembly /\ Pure(p.key, a)
  BY <1>3 DEF Sound
<1>5. datagrams \in Nat /\ datagrams' \in Nat
  BY <1>2 DEF ReassemblyInv
<1>6. /\ new \in Assembly /\ Pure(p.key, new) /\ new.size = p.size
      /\ Udp!Lacking(new) = {} => new.got = (1..p.chunks) \X {p}
  <2> HIDE DEF a
  <2> QED BY <1>3, <1>4, <1>5, UdpFilled
<1>7. Number(open.as) \in Nat /\ Udp!Bytes(open.as) \in Nat /\ p.size \in Nat
          /\ MaxAssemblies \in Nat /\ MaxBytes \in Nat
  BY <1>3, UdpBytes DEF UdpConstants
<1>8. Balanced(st, Number(open.as))
  <2> DEFINE again == Udp!Has(a, index)
  <2>1. again \in BOOLEAN
    BY DEF Udp!Has
  <2>2. st = Arrived(open.st, again)
    BY DEF Arrived
  <2> HIDE DEF again, st, new, a
  <2>3. Number(open.as) \in Int /\ Balanced(open.st, Number(open.as))
    BY <1>3, <1>7
  <2>4. Balanced(Arrived(open.st, again), Number(open.as))
    BY <2>1, <2>3, UdpArrived
  <2> QED BY <2>2, <2>4
<1> HIDE DEF st, new
<1>9. /\ delivered \in Seq([packet : Packets, fragments : SUBSET (Nat \X Packets)])
      /\ \A i \in DOMAIN delivered :
            LET q == delivered[i].packet IN delivered[i].fragments = (1..q.chunks) \X {q}
  BY DEF ReassemblyInv, Udp!ReassemblyAccounted
<1>10. CASE /\ assemblies' = Udp!With(open.as, p.key, new)
            /\ stats' = st /\ UNCHANGED delivered
  <2>1. Put(open.as, p.key, new, assemblies')
    BY <1>3, <1>6, <1>10, UdpWith
  <2>2. /\ Sound(assemblies') /\ Number(assemblies') = Number(open.as)
        /\ Udp!Bytes(assemblies') = Udp!Bytes(open.as)
    BY <1>3, <1>6, <2>1 DEF Put
  <2> QED BY <1>3, <1>5, <1>8, <1>9, <1>10, <2>2, UdpKept
<1>11. ASSUME assemblies' = Udp!Rest(open.as, {p.key})
       PROVE  /\ Sound(assemblies') /\ Number(assemblies') = Number(open.as) - 1
              /\ Number(assemblies') <= MaxAssemblies /\ Udp!Bytes(assemblies') <= MaxBytes + p.size
  <2> DEFINE gone == {p.key}
  <2>1. gone \subseteq DOMAIN open.as /\ Cardinality(gone) = 1
    BY <1>3, FS_Singleton
  <2>2. assemblies' = Udp!Rest(open.as, gone)
    BY <1>11
  <2> HIDE DEF gone
  <2>3. /\ Sound(assemblies') /\ Number(assemblies') = Number(open.as) - 1
        /\ Udp!Bytes(assemblies') <= Udp!Bytes(open.as)
    <3> DEFINE as == open.as
    <3>1. Sound(as) /\ gone \subseteq DOMAIN as
      BY <1>3, <2>1
    <3> HIDE DEF as
    <3>2. /\ Sound(Udp!Rest(as, gone)) /\ Number(Udp!Rest(as, gone)) = Number(as) - Cardinality(gone)
          /\ Udp!Bytes(Udp!Rest(as, gone)) <= Udp!Bytes(as)
      BY <3>1, UdpRest
    <3> QED BY <2>1, <2>2, <3>2 DEF as
  <2>4. Udp!Bytes(assemblies') \in Nat
    BY <2>3, UdpBytes
  <2> QED BY <1>3, <1>7, <2>3, <2>4
<1>12. CASE /\ Udp!Lacking(new) = {} /\ assemblies' = Udp!Rest(open.as, {p.key})
            /\ stats' = [st EXCEPT !.completed = @ + 1]
            /\ delivered' = Append(delivered, [packet |-> p, fragments |-> new.got])
  <2>1. Balanced(stats', Number(open.as) - 1)
    <3> DEFINE n == Number(open.as)
    <3>1. n \in Int /\ Balanced(st, n)
      BY <1>7, <1>8
    <3> HIDE DEF n
    <3>2. Balanced([st EXCEPT !.completed = @ + 1], n - 1)
      BY <3>1, UdpCompletes
    <3> QED BY <1>12, <3>2 DEF n
  <2>2. delivered' = Append(delivered, [packet |-> p, fragments |-> (1..p.chunks) \X {p}])
    BY <1>6, <1>12
  <2>3. /\ delivered' \in Seq([packet : Packets, fragments : SUBSET (Nat \X Packets)])
        /\ \A i \in DOMAIN delivered' :
              LET q == delivered'[i].packet IN delivered'[i].fragments = (1..q.chunks) \X {q}
    BY <2>2, UdpHandedOn
  <2>4. Balanced(stats', Number(assemblies'))
    BY <1>11, <1>12, <2>1
  <2> QED BY <1>5, <1>11, <1>12, <2>3, <2>4, UdpKept
<1>13. CASE /\ assemblies' = Udp!Rest(open.as, {p.key})
            /\ stats' = [st EXCEPT !.evicted = @ + 1, !.invalid = @ + 1]
            /\ UNCHANGED delivered
  <2>1. Balanced(stats', Number(open.as) - 1)
    <3> DEFINE n == Number(open.as)
    <3>1. n \in Int /\ Balanced(st, n)
      BY <1>7, <1>8
    <3> HIDE DEF n
    <3>2. Balanced([st EXCEPT !.evicted = @ + 1, !.invalid = @ + 1], n - 1)
      BY <3>1, UdpGivenUp
    <3> QED BY <1>13, <3>2 DEF n
  <2>2. Balanced(stats', Number(assemblies'))
    BY <1>11, <1>13, <2>1
  <2> QED BY <1>5, <1>9, <1>11, <1>13, <2>2, UdpKept
<1> QED BY <1>2, <1>10, <1>12, <1>13

\* A datagram that is no fragment
LEMMA UdpInvalid ==
    ASSUME UdpConstants, ReassemblyInv, Udp!Invalid
    PROVE  ReassemblyInv'
<1>1. /\ datagrams' = datagrams + 1 /\ stats' = [stats EXCEPT !.invalid = @ + 1]
      /\ assemblies' = assemblies /\ delivered' = delivered
  BY DEF Udp!Invalid
<1>2. /\ Sound(assemblies) /\ Balanced(stats, Number(assemblies)) /\ datagrams \in Nat
      /\ delivered \in Seq([packet : Packets, fragments : SUBSET (Nat \X Packets)])
  BY DEF ReassemblyInv
<1>3. /\ \A i \in DOMAIN delivered :
            LET q == delivered[i].packet IN delivered[i].fragments = (1..q.chunks) \X {q}
      /\ Number(assemblies) <= MaxAssemblies
  BY UdpCardinality DEF ReassemblyInv, Udp!ReassemblyAccounted, Number
<1>4. PICK p \in Packets : Udp!Bytes(assemblies) <= MaxBytes + p.size
  BY DEF ReassemblyInv, Udp!ReassemblyAccounted
<1>5. Number(assemblies) \in Int
  BY <1>2, UdpBytes
<1>6. Balanced(stats', Number(assemblies))
  BY <1>1, <1>2, <1>5, UdpIsInvalid
<1>7. datagrams' \in Nat
  BY <1>1, <1>2
<1> QED BY <1>1, <1>2, <1>3, <1>4, <1>6, <1>7, UdpKept

\* The assemblies grow older; nothing else about them changes.
LEMMA UdpTimePasses ==
    ASSUME UdpConstants, ReassemblyInv, Udp!TimePasses
    PROVE  ReassemblyInv'
<1>1. /\ assemblies' = [k \in DOMAIN assemblies |->
                          [assemblies[k] EXCEPT !.age = IF @ = Udp!Expired THEN Udp!Expired ELSE @ + 1]]
      /\ stats' = stats /\ delivered' = delivered /\ datagrams' = datagrams
  BY DEF Udp!TimePasses
<1>2. /\ Sound(assemblies) /\ Balanced(stats, Number(assemblies)) /\ datagrams \in Nat
      /\ delivered \in Seq([packet : Packets, fragments : SUBSET (Nat \X Packets)])
  BY DEF ReassemblyInv
<1>3. /\ \A i \in DOMAIN delivered :
            LET q == delivered[i].packet IN delivered[i].fragments = (1..q.chunks) \X {q}
      /\ Number(assemblies) <= MaxAssemblies
  BY UdpCardinality DEF ReassemblyInv, Udp!ReassemblyAccounted, Number
<1>4. PICK p \in Packets : Udp!Bytes(assemblies) <= MaxBytes + p.size
  BY DEF ReassemblyInv, Udp!ReassemblyAccounted
<1> DEFINE old == assemblies
<1>5. DOMAIN assemblies' = DOMAIN old
  BY <1>1
<1>6. ASSUME NEW k \in DOMAIN old
      PROVE  /\ assemblies'[k] \in Assembly /\ Pure(k, assemblies'[k])
             /\ assemblies'[k].size = old[k].size
  <2>1. old[k] \in Assembly /\ Pure(k, old[k])
    BY <1>2 DEF Sound
  <2> DEFINE age == IF old[k].age = Udp!Expired THEN Udp!Expired ELSE old[k].age + 1
  <2>2. assemblies'[k] = [old[k] EXCEPT !.age = age]
    BY <1>1
  <2>3. age \in Nat
    BY <2>1 DEF Assembly, Udp!Expired
  <2> HIDE DEF age, old
  <2>4. /\ assemblies'[k] \in Assembly /\ assemblies'[k].size = old[k].size
        /\ assemblies'[k].chunks = old[k].chunks /\ assemblies'[k].got = old[k].got
    BY <2>1, <2>2, <2>3 DEF Assembly
  <2> QED BY <2>1, <2>4 DEF Pure
<1>7. Sound(assemblies')
  <2>1. assemblies' \in [DOMAIN old -> Assembly]
    BY <1>1, <1>6
  <2> QED BY <1>2, <1>5, <1>6, <2>1 DEF Sound
<1>8. Number(assemblies') = Number(old)
  BY <1>5 DEF Number
<1>9. Udp!Bytes(assemblies') = Udp!Bytes(old)
  <2>1. Allotted(assemblies') = Allotted(old)
    BY <1>5, <1>6 DEF Allotted
  <2>2. /\ Udp!Bytes(assemblies') = Cardinality(Spread(DOMAIN assemblies', Allotted(assemblies')))
        /\ Udp!Bytes(old) = Cardinality(Spread(DOMAIN old, Allotted(old)))
    BY <1>2, <1>7, UdpBytes
  <2> QED BY <1>5, <2>1, <2>2
<1> QED BY <1>1, <1>2, <1>3, <1>4, <1>7, <1>8, <1>9, UdpKept

\* Nothing is under way in the beginning.
LEMMA UdpInit ==
    ASSUME UdpConstants, Udp!Init
    PROVE  ReassemblyInv
<1>1. assemblies = <<>> /\ stats = Udp!NoStats /\ delivered = <<>> /\ datagrams = 0
  BY DEF Udp!Init
<1>2. DOMAIN assemblies = {} /\ DOMAIN delivered = {}
  BY <1>1
<1>3. Number(assemblies) = 0 /\ IsFiniteSet(DOMAIN assemblies)
  BY <1>2, FS_EmptySet DEF Number
<1>4. Sound(assemblies)
  <2>1. assemblies \in [{} -> Assembly]
    BY <1>1, <1>2
  <2> QED BY <1>2, <1>3, <2>1 DEF Sound
<1>5. Balanced(stats, 0)
  BY <1>1 DEF Balanced, Counts, Udp!NoStats
<1>6. Udp!Bytes(assemblies) = 0
  <2>1. Spread(DOMAIN assemblies, Allotted(assemblies)) = {}
    BY <1>2 DEF Spread
  <2> QED BY <1>4, <2>1, UdpBytes, FS_EmptySet
<1>7. PICK p \in Packets : p.size \in Nat
  BY DEF UdpConstants
<1>8. Udp!Bytes(assemblies) <= MaxBytes + p.size /\ Number(assemblies) <= MaxAssemblies
  BY <1>3, <1>6, <1>7 DEF UdpConstants
<1>9. Udp!ReassemblyAccounted
  <2>1. Udp!Cardinality(DOMAIN assemblies) = 0
    BY <1>3, UdpCardinality DEF Number
  <2> QED BY <1>2, <1>3, <1>5, <1>8, <2>1 DEF Udp!ReassemblyAccounted, Balanced
<1> QED BY <1>1, <1>3, <1>4, <1>5, <1>9 DEF ReassemblyInv

\* However the fragments of packets arrive, late, twice, in any order or not at all, and
\* whatever expires or is pushed out, a packet is handed on with all its fragments and no
\* other, every assembly begun is accounted for, and the limits hold but for one packet
\* (UdpReassembly: ReassemblyAccounted, of any packets and any limits).
THEOREM Reassembled == ASSUME UdpConstants PROVE Udp!Spec => []ReassemblyAccounted
<1>1. Udp!Init => ReassemblyInv
  BY UdpInit
<1>2. ReassemblyInv /\ [Udp!Next]_(Udp!vars) => ReassemblyInv'
  <2> SUFFICES ASSUME ReassemblyInv, [Udp!Next]_(Udp!vars)
               PROVE  ReassemblyInv'
    OBVIOUS
  <2>1. CASE Udp!Invalid
    BY <2>1, UdpInvalid
  <2>2. CASE Udp!TimePasses
    BY <2>2, UdpTimePasses
  <2>3. CASE \E p \in Packets : \E index \in 1..p.chunks,
                 placed \in BOOLEAN : Udp!Datagram(p, index, placed)
    <3>1. PICK p \in Packets : \E index \in 1..p.chunks,
              placed \in BOOLEAN : Udp!Datagram(p, index, placed)
      BY <2>3
    <3>2. PICK index \in 1..p.chunks, placed \in BOOLEAN : Udp!Datagram(p, index, placed)
      BY <3>1
    <3> QED BY <3>2, UdpDatagram
  <2>4. CASE UNCHANGED Udp!vars
    BY <2>4 DEF Udp!vars, ReassemblyInv, Udp!ReassemblyAccounted, Sound, Balanced, Number, Udp!Bytes
  <2> QED BY <2>1, <2>2, <2>3, <2>4 DEF Udp!Next
<1>3. ReassemblyInv => Udp!ReassemblyAccounted
  BY DEF ReassemblyInv
<1> QED BY <1>1, <1>2, <1>3, PTL DEF Udp!Spec, ReassemblyAccounted
=============================================================================
