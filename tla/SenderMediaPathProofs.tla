----------------------- MODULE SenderMediaPathProofs -----------------------
(***************************************************************************)
(* Proofs about SenderMediaPath for every stream, queue capacity and set of   *)
(* packet sizes: variables keep to their types, the loop holds the packet the *)
(* transport is in the middle of, the bytes on a connection are framed, what   *)
(* the kernel takes is in encoder order, the path implements MediaStream,      *)
(* losses are counted within a slotful each (exactly, with one frame per slot),*)
(* only a frame lost in the queue or before it can make RGB undecodable, and   *)
(* with one frame per slot an overwrite leaves the guard on.                   *)
(***************************************************************************)
EXTENDS SenderMediaPath, FiniteSetTheorems, SequenceTheorems, TLAPS

\* The queue never discards more than it holds.
LEMMA EvictCountBound ==
    ASSUME NEW jobs \in Seq(Packet), NEW packet
    PROVE  EvictCount(jobs, packet) \in 0..Len(jobs)
<1> DEFINE blocked == {m \in 1..Len(jobs) : \A k \in 0..(m - 1) : ~Fits(Behind(jobs, k), packet)}
<1>1. Len(jobs) \in Nat
  BY LenProperties
<1>2. IsFiniteSet(1..Len(jobs)) /\ Cardinality(1..Len(jobs)) = Len(jobs)
  BY <1>1, FS_Interval
<1>3. blocked \in SUBSET (1..Len(jobs))
  OBVIOUS
<1>4. IsFiniteSet(blocked) /\ Cardinality(blocked) <= Len(jobs)
  BY <1>2, <1>3, FS_Subset
<1>5. Cardinality(blocked) \in Nat
  BY <1>4, FS_CardinalityType
<1> QED
  BY <1>1, <1>4, <1>5 DEF EvictCount

\* A slot stays a sequence of packets when one is published.
LEMMA PublishType ==
    ASSUME NEW jobs \in Seq(Packet), NEW packet \in Packet, NEW reject \in BOOLEAN
    PROVE  JobsAfterPublish(jobs, packet, reject) \in Seq(Packet)
<1> DEFINE n == EvictCount(jobs, packet)
<1>1. n \in 0..Len(jobs) /\ Len(jobs) \in Nat
  BY EvictCountBound, LenProperties
<1>2. \A i \in (n + 1)..Len(jobs) : jobs[i] \in Packet
  BY <1>1, ElementOfSeq
<1>3. Behind(jobs, n) \in Seq(Packet)
  <2> HIDE DEF n
  <2> QED BY <1>1, <1>2, SubSeqProperties DEF Behind
<1>4. Append(Behind(jobs, n), packet) \in Seq(Packet)
  <2> HIDE DEF n
  <2> QED BY <1>3, AppendProperties
<1>5. CASE Rejected(jobs, packet, reject)
  BY <1>5 DEF JobsAfterPublish
<1>6. CASE ~Rejected(jobs, packet, reject)
  BY <1>4, <1>6 DEF JobsAfterPublish
<1> QED
  BY <1>5, <1>6

-----------------------------------------------------------------------------
\* The end of a wire on which `from` chunks of the packet `id` are written: a
\* packet boundary when `from` is 0.
EndsAt(chunks, id, from) ==
    IF from = 0
    THEN chunks = <<>> \/ IsLast(chunks[Len(chunks)])
    ELSE /\ chunks # <<>>
         /\ chunks[Len(chunks)].id = id
         /\ chunks[Len(chunks)].n = from
         /\ ~IsLast(chunks[Len(chunks)])

LEMMA ChunksType ==
    ASSUME NEW packet \in Packet, NEW from \in Nat, NEW count \in Nat,
           packet.size \in Nat
    PROVE  /\ Chunks(packet, from, count) \in Seq(Chunk)
           /\ Len(Chunks(packet, from, count)) = count
           /\ \A i \in 1..count :
                Chunks(packet, from, count)[i]
                  = [id |-> packet.id, n |-> from + i, of |-> packet.size]
<1>1. packet.id \in Nat \ {0}
  BY DEF Packet
<1>2. \A i \in 1..count : [id |-> packet.id, n |-> from + i, of |-> packet.size] \in Chunk
  BY <1>1 DEF Chunk
<1>3. Chunks(packet, from, count) \in [1..count -> Chunk]
  BY <1>2 DEF Chunks
<1>4. Chunks(packet, from, count) \in Seq(Chunk)
  BY <1>3, SeqDef
<1>5. Len(Chunks(packet, from, count)) = count
  BY <1>3, <1>4, LenProperties
<1> QED
  BY <1>4, <1>5 DEF Chunks

\* Writing the next chunks of the packet in progress keeps the wire framed.
LEMMA WireExtends ==
    ASSUME NEW chunks \in Seq(Chunk), NEW packet \in Packet,
           NEW from \in Nat, NEW count \in Nat,
           packet.size \in Nat, from < packet.size, from + count <= packet.size,
           WellFramed(chunks), EndsAt(chunks, packet.id, from)
    PROVE  LET longer == chunks \o Chunks(packet, from, count)
           IN  /\ longer \in Seq(Chunk)
               /\ WellFramed(longer)
               /\ EndsAt(longer, packet.id,
                         IF from + count = packet.size THEN 0 ELSE from + count)
<1> DEFINE new == Chunks(packet, from, count)
           longer == chunks \o new
           L == Len(chunks)
<1>1. /\ new \in Seq(Chunk) /\ Len(new) = count
      /\ \A i \in 1..count : new[i] = [id |-> packet.id, n |-> from + i, of |-> packet.size]
  BY ChunksType
<1>2. L \in Nat
  BY LenProperties
<1> HIDE DEF new
<1>3. /\ longer \in Seq(Chunk) /\ Len(longer) = L + count
      /\ \A i \in 1..(L + count) : longer[i] = IF i <= L THEN chunks[i] ELSE new[i - L]
  BY <1>1, ConcatProperties
<1> HIDE DEF longer
<1>4. WellFramed(longer)
  <2> SUFFICES ASSUME NEW i \in 1..(L + count)
               PROVE  IF longer[i].n = 1
                      THEN i = 1 \/ IsLast(longer[i - 1])
                      ELSE /\ i > 1
                           /\ ~IsLast(longer[i - 1])
                           /\ longer[i - 1].id = longer[i].id
                           /\ longer[i - 1].n = longer[i].n - 1
    BY <1>2, <1>3 DEF WellFramed
  <2>1. CASE i <= L
    <3>1. longer[i] = chunks[i] /\ (i > 1 => longer[i - 1] = chunks[i - 1])
      BY <1>2, <1>3, <2>1
    <3> QED
      BY <1>2, <2>1, <3>1 DEF WellFramed, IsLast
  <2>2. CASE i = L + 1
    <3>1. longer[i] = new[1] /\ new[1].n = from + 1 /\ new[1].id = packet.id
      BY <1>1, <1>2, <1>3, <2>2
    <3>2. i > 1 => longer[i - 1] = chunks[L]
      BY <1>2, <1>3, <2>2
    <3>3. i = 1 <=> chunks = <<>>
      BY <1>2, <2>2, EmptySeq
    <3> QED
      BY <1>2, <2>2, <3>1, <3>2, <3>3 DEF EndsAt, IsLast
  <2>3. CASE i > L + 1
    <3>1. longer[i] = new[i - L] /\ longer[i - 1] = new[i - L - 1]
      BY <1>2, <1>3, <2>3
    <3>2. i - L \in 1..count /\ i - L - 1 \in 1..count /\ i - L - 1 < count
      BY <1>2, <2>3
    <3>3. /\ new[i - L] = [id |-> packet.id, n |-> from + (i - L), of |-> packet.size]
          /\ new[i - L - 1] = [id |-> packet.id, n |-> from + (i - L - 1), of |-> packet.size]
      BY <1>1, <3>2
    <3> QED
      BY <1>2, <2>3, <3>1, <3>2, <3>3 DEF IsLast
  <2> QED
    BY <1>2, <2>1, <2>2, <2>3
<1>5. EndsAt(longer, packet.id, IF from + count = packet.size THEN 0 ELSE from + count)
  <2>1. CASE count = 0
    <3>1. longer = chunks
      BY <1>2, <1>3, <2>1, SeqEqual
    <3> QED
      BY <2>1, <3>1 DEF EndsAt, IsLast
  <2>2. CASE count > 0
    <3>1. longer[Len(longer)] = new[count]
      BY <1>2, <1>3, <2>2
    <3>2. new[count] = [id |-> packet.id, n |-> from + count, of |-> packet.size]
      BY <1>1, <2>2
    <3>3. longer # <<>>
      BY <1>2, <1>3, <2>2, EmptySeq
    <3>4. CASE from + count = packet.size
      BY <3>1, <3>2, <3>3, <3>4 DEF EndsAt, IsLast
    <3>5. CASE from + count # packet.size
      BY <2>2, <3>1, <3>2, <3>3, <3>5 DEF EndsAt, IsLast
    <3> QED
      BY <3>4, <3>5
  <2> QED
    BY <2>1, <2>2
<1> QED
  BY <1>3, <1>4, <1>5 DEF longer, new

-----------------------------------------------------------------------------
(***************************************************************************)
(* The inductive invariant.  WireWellFramed alone is not inductive: what the  *)
(* next write does to the wire depends on the offset the transport kept, and  *)
(* that offset is about the packet the loop holds.                          *)
(***************************************************************************)
JobHeld == pc \in {"decide", "send", "result"} => job \in Packet

PendingInv ==
    pending # NoPending =>
        /\ RecordingBuffer
        /\ pending.packet = job
        /\ pending.offset < job.size
        /\ pc = "result" => outcome = "retained"

WireInv == WellFramed(wire) /\ EndsAt(wire, job.id, Offset)

IInv == TypeOK /\ JobHeld /\ PendingInv /\ WireInv

LEMMA NoJobIsNoPacket == NoJob \notin Packet
BY DEF NoJob, Packet

LEMMA EmptyWire ==
    /\ <<>> \in Seq(Chunk)
    /\ WellFramed(<<>>)
    /\ \A id : EndsAt(<<>>, id, 0)
<1>1. <<>> \in Seq(Chunk) /\ Len(<<>>) = 0
  BY EmptySeq
<1> QED
  BY <1>1 DEF WellFramed, EndsAt

LEMMA InitIInv == Init => IInv
<1> SUFFICES ASSUME Init PROVE IInv
  OBVIOUS
<1>1. TypeOK
  <2>1. <<>> \in Seq(Packet) /\ <<>> \in Seq(Chunk)
    BY EmptySeq
    <2>2. queue \in Seq(Packet) /\ wire \in Seq(Chunk) /\ accepted \in Seq(Packet)
    BY <2>1, Zenon DEF Init
  <2>3. fresh \in BOOLEAN /\ nextId \in Nat \ {0} /\ dropped \in Nat /\ drops \in Nat
    BY DEF Init
  <2> QED BY <2>2, <2>3, Zenon DEF Init, TypeOK
<1>2. JobHeld /\ PendingInv
  BY DEF Init, JobHeld, PendingInv
<1>3. WireInv
  BY EmptyWire DEF Init, WireInv, Offset
<1> QED
  BY <1>1, <1>2, <1>3 DEF IInv

\* What every call of send_media starts from.
LEMMA AtSend ==
    ASSUME IInv, pc = "send"
    PROVE  /\ job \in Packet
           /\ job.id \in Nat \ {0} /\ job.size \in Nat \ {0}
           /\ Offset \in Nat /\ Offset < job.size
           /\ ~RecordingBuffer => pending = NoPending
           /\ Opens => pending = NoPending /\ Offset = 0
<1>1. job \in Packet
  BY DEF IInv, JobHeld
<1>2. job.id \in Nat \ {0} /\ job.size \in Nat \ {0}
  BY <1>1, PathAssumption DEF Packet
<1>3. Offset \in Nat /\ Offset < job.size
  <2>1. CASE pending = NoPending
    BY <1>2, <2>1 DEF Offset
  <2>2. CASE pending # NoPending
    BY <2>2 DEF Offset, IInv, PendingInv, TypeOK
  <2> QED BY <2>1, <2>2
<1>4. ~RecordingBuffer => pending = NoPending
  BY DEF IInv, PendingInv
<1> QED
  BY <1>1, <1>2, <1>3, <1>4 DEF Opens, Offset

\* A write of send_all on whichever connection it finds or opens.
LEMMA WriteOnWire ==
    ASSUME IInv, pc = "send", Usable \/ Opens,
           NEW count \in Nat, Offset + count <= job.size
    PROVE  /\ WireBefore \o NextChunks(count) \in Seq(Chunk)
           /\ WellFramed(WireBefore \o NextChunks(count))
           /\ Offset + count = job.size => EndsAt(WireBefore \o NextChunks(count), job.id, 0)
           /\ Offset + count # job.size => EndsAt(WireBefore \o NextChunks(count), job.id, Offset + count)
<1>1. /\ job \in Packet /\ job.size \in Nat
      /\ Offset \in Nat /\ Offset < job.size
      /\ Opens => Offset = 0
  BY AtSend
<1>2. WireBefore \in Seq(Chunk) /\ WellFramed(WireBefore) /\ EndsAt(WireBefore, job.id, Offset)
  <2>1. CASE Usable
    BY <2>1 DEF WireBefore, IInv, TypeOK, WireInv
  <2>2. CASE ~Usable
    BY <1>1, <2>2, EmptyWire DEF WireBefore
  <2> QED BY <2>1, <2>2
<1> QED
  BY <1>1, <1>2, WireExtends DEF NextChunks

\* Steps that leave the transport alone, and the job too unless no packet is
\* pending, keep the parts of the invariant that relate them.
LEMMA Undisturbed ==
    ASSUME IInv, UNCHANGED <<pending, wire>>,
           \/ UNCHANGED job
           \/ pending = NoPending,
           pc' = "result" => UNCHANGED <<pc, outcome>>
    PROVE  PendingInv' /\ WireInv'
<1>1. Offset' = Offset
  BY DEF Offset
<1>2. CASE UNCHANGED job
  BY <1>1, <1>2 DEF IInv, PendingInv, WireInv
<1>3. CASE pending = NoPending
  BY <1>1, <1>3 DEF IInv, PendingInv, WireInv, Offset, EndsAt
<1> QED
  BY <1>2, <1>3

LEMMA ProducerStep ==
    ASSUME IInv, Producer
    PROVE  IInv'
<1> USE DEF producerVars, guardVars, loopVars, connVars, transportVars
<1>1. TypeOK /\ JobHeld
  BY DEF IInv
<1>2. CASE PublishFrame
  <2>1. queue' \in Seq(Packet)
    <3>1. PICK isKey \in BOOLEAN, size \in Sizes :
            LET packet == [id |-> nextId, key |-> isKey, size |-> size]
            IN  queue' = JobsAfterPublish(queue, packet, RejectIfOccupied(packet))
      BY <1>2 DEF PublishFrame
    <3> DEFINE packet == [id |-> nextId, key |-> isKey, size |-> size]
    <3>2. packet \in Packet
      BY <1>1 DEF TypeOK, Packet
    <3>3. RejectIfOccupied(packet) \in BOOLEAN
      BY <3>2 DEF RejectIfOccupied, IsRgb, Packet
    <3> HIDE DEF packet
    <3>4. JobsAfterPublish(queue, packet, RejectIfOccupied(packet)) \in Seq(Packet)
      BY <1>1, <3>2, <3>3, PublishType DEF TypeOK
    <3> QED BY <3>1, <3>4 DEF packet
  <2>2. overwrite' \in BOOLEAN
    BY <1>2 DEF PublishFrame, ArmsGuard
  <2>3. /\ producer' \in {"encode", "overwrite"} /\ fresh' \in BOOLEAN
        /\ nextId' = nextId + 1 /\ keyframeRequested' \in BOOLEAN
        /\ UNCHANGED <<running, waiting, dropped, loopVars, transportVars>>
    BY <1>2 DEF PublishFrame, FrameLeavesEncoder
  <2>4. TypeOK' /\ JobHeld'
    BY <1>1, <2>1, <2>2, <2>3 DEF TypeOK, JobHeld
  <2> QED
    BY <2>3, <2>4, Undisturbed DEF IInv
<1>6. CASE DropRegressedFrame
  <2>1. /\ producer' = "overwrite" /\ overwrite' \in BOOLEAN /\ fresh' \in BOOLEAN
        /\ nextId' = nextId + 1 /\ keyframeRequested' \in BOOLEAN
        /\ UNCHANGED <<running, queue, waiting, dropped, loopVars, transportVars>>
    BY <1>6 DEF DropRegressedFrame, FrameLeavesEncoder
  <2>2. TypeOK' /\ JobHeld'
    BY <1>1, <2>1 DEF TypeOK, JobHeld
  <2> QED
    BY <2>1, <2>2, Undisturbed DEF IInv
<1>7. CASE ResetLaggingEncoder
  <2>1. /\ fresh' \in BOOLEAN /\ nextId' = nextId + 1 /\ dropped' = dropped + 1
        /\ keyframeRequested' \in BOOLEAN
        /\ UNCHANGED <<running, producer, overwrite, queue, waiting, loopVars, transportVars>>
    BY <1>7 DEF ResetLaggingEncoder, FrameLeavesEncoder
  <2>2. TypeOK' /\ JobHeld'
    BY <1>1, <2>1 DEF TypeOK, JobHeld
  <2> QED
    BY <2>1, <2>2, Undisturbed DEF IInv
<1>3. CASE RecordOverwrite
  <2>1. /\ waiting' \in BOOLEAN /\ overwrite' \in BOOLEAN
        /\ producer' = "encode" /\ dropped' = dropped + 1
        /\ UNCHANGED <<running, fresh, nextId, queue, keyframeRequested, loopVars, transportVars>>
    BY <1>3 DEF RecordOverwrite
  <2>2. TypeOK' /\ JobHeld'
    BY <1>1, <2>1 DEF TypeOK, JobHeld
  <2> QED
    BY <1>3, <2>2, Undisturbed DEF RecordOverwrite, IInv
<1>4. CASE JoinProducers
  BY <1>1, <1>4, Undisturbed DEF JoinProducers, TypeOK, JobHeld, IInv
<1>5. CASE StopPath
  <2>2. /\ running' \in BOOLEAN
        /\ UNCHANGED <<producerVars, queue, guardVars, dropped, loopVars, transportVars>>
    BY <1>5 DEF StopPath
  <2>1. TypeOK' /\ JobHeld'
    BY <1>1, <2>2 DEF TypeOK, JobHeld
  <2> QED
    BY <1>5, <2>1, Undisturbed DEF StopPath, IInv
<1> QED
  BY <1>2, <1>3, <1>4, <1>5, <1>6, <1>7 DEF Producer

LEMMA EnvironmentStep ==
    ASSUME IInv, Environment
    PROVE  IInv'
<1> USE DEF producerVars, guardVars, loopVars, connVars, transportVars
<1>1. TypeOK /\ JobHeld
  BY DEF IInv
<1>2. CASE TargetChanges
  BY <1>1, <1>2, Undisturbed DEF TargetChanges, TypeOK, JobHeld, IInv
<1>3. CASE PeerCloses
  BY <1>1, <1>3, Undisturbed DEF PeerCloses, TypeOK, JobHeld, IInv
<1>4. CASE DrainDeadlinePasses
  BY <1>1, <1>4, Undisturbed DEF DrainDeadlinePasses, TypeOK, JobHeld, IInv
<1> QED
  BY <1>2, <1>3, <1>4 DEF Environment

\* Closing the connection leaves nothing pending and nothing half written.
LEMMA DisconnectEffect ==
    ASSUME IInv, Disconnect
    PROVE  /\ connected' = FALSE /\ stale' = FALSE /\ peerClosed' = FALSE
           /\ pending' = NoPending
           /\ wire' \in Seq(Chunk)
           /\ PendingInv' /\ WireInv'
BY EmptyWire DEF Disconnect, PendingInv, WireInv, Offset

LEMMA TakingStep ==
    ASSUME IInv, CheckRunning \/ TakeRetryJob \/ PopQueue \/ IdleCheck \/ DecideSend
    PROVE  IInv'
<1> USE DEF producerVars, guardVars, loopVars, connVars, transportVars
<1>1. TypeOK /\ JobHeld /\ PendingInv
  BY DEF IInv
<1>2. CASE CheckRunning
  BY <1>1, <1>2, Undisturbed DEF CheckRunning, TypeOK, JobHeld, IInv
<1>3. CASE TakeRetryJob
  <2>1. JobHeld'
    BY <1>1, <1>3 DEF TakeRetryJob, TypeOK, JobHeld
  <2> QED
    BY <1>1, <1>3, <2>1, Undisturbed DEF TakeRetryJob, TypeOK, IInv
<1>4. CASE PopQueue
  <2>1. Head(queue) \in Packet /\ Tail(queue) \in Seq(Packet)
    BY <1>1, <1>4, HeadTailProperties DEF PopQueue, TypeOK
  <2>2. pending = NoPending
    BY <1>1, <1>4, NoJobIsNoPacket DEF PopQueue, PendingInv, TypeOK
  <2>3. TypeOK' /\ JobHeld'
    BY <1>1, <1>4, <2>1 DEF PopQueue, TypeOK, JobHeld
  <2> QED
    BY <1>4, <2>2, <2>3, Undisturbed DEF PopQueue, IInv
<1>5. CASE IdleCheck
  <2>1. CASE connected /\ peerClosed
    <3>1. Disconnect
      BY <1>5, <2>1 DEF IdleCheck
    <3>2. TypeOK' /\ JobHeld'
      BY <1>1, <1>5, <3>1, DisconnectEffect DEF IdleCheck, TypeOK, JobHeld
    <3> QED
      BY <3>1, <3>2, DisconnectEffect DEF IInv
  <2>2. CASE ~(connected /\ peerClosed)
    BY <1>1, <1>5, <2>2, Undisturbed DEF IdleCheck, TypeOK, JobHeld, IInv
  <2> QED BY <2>1, <2>2
<1>6. CASE DecideSend
  <2>1. job \in Packet
    BY <1>1, <1>6 DEF DecideSend, JobHeld
  <2>2. CASE GuardDrops
    <3>2. /\ job' = NoJob /\ dropped' = dropped + 1 /\ pc' = "check"
          /\ keyframeRequested' \in BOOLEAN
          /\ UNCHANGED <<running, producerVars, queue, waiting, outcome, drain, transportVars>>
      BY <1>1, <1>6, <2>2 DEF DecideSend, TypeOK
    <3>1. TypeOK' /\ JobHeld'
      BY <1>1, <3>2 DEF TypeOK, JobHeld
    <3> QED
      BY <1>6, <2>2, <3>1, Undisturbed DEF DecideSend, GuardDrops, IInv
  <2>3. CASE ~GuardDrops
    BY <1>1, <1>6, <2>1, <2>3, Undisturbed DEF DecideSend, TypeOK, JobHeld, IInv
  <2> QED BY <2>2, <2>3
<1> QED
  BY <1>2, <1>3, <1>4, <1>5, <1>6

LEMMA SendStep ==
    ASSUME IInv, SendMedia
    PROVE  IInv'
<1> USE DEF producerVars, guardVars, loopVars, connVars, transportVars
<1> DEFINE Rest == UNCHANGED <<running, producerVars, queue, guardVars, dropped, job, drain>>
<1>1. TypeOK /\ JobHeld /\ PendingInv
  BY DEF IInv
<1>2. pc = "send"
  BY DEF SendMedia, SendInterrupted, ConnectFails, DropBeforeWrite, SendCompletes, SendYields, SendBreaks
<1>3. /\ job \in Packet /\ job.size \in Nat \ {0}
      /\ Offset \in Nat /\ Offset < job.size
      /\ ~RecordingBuffer => pending = NoPending
      /\ Opens => pending = NoPending /\ Offset = 0
  BY <1>2, AtSend
<1>4. Rest
  BY DEF SendMedia, SendInterrupted, ConnectFails, DropBeforeWrite, SendCompletes, SendYields, SendBreaks
\* A call that fails by closing the connection.
<1>5. ASSUME Disconnect, Outcome("failed"), drops' \in Nat, UNCHANGED accepted
      PROVE  IInv'
  <2>1. /\ connected' \in BOOLEAN /\ stale' \in BOOLEAN /\ peerClosed' \in BOOLEAN
        /\ pending' = NoPending /\ wire' \in Seq(Chunk)
        /\ PendingInv' /\ WireInv'
    BY <1>5, DisconnectEffect
  <2>2. pc' = "result" /\ outcome' = "failed"
    BY <1>5 DEF Outcome
  <2>3. TypeOK' /\ JobHeld'
    BY <1>1, <1>3, <1>4, <1>5, <2>1, <2>2 DEF TypeOK, JobHeld
  <2> QED
    BY <2>1, <2>3 DEF IInv
<1>6. CASE SendInterrupted
  BY <1>1, <1>5, <1>6 DEF SendInterrupted, TypeOK
<1>7. CASE ConnectFails
  BY <1>1, <1>5, <1>7 DEF ConnectFails, TypeOK
<1>8. CASE SendBreaks
  BY <1>5, <1>8 DEF SendBreaks
<1>9. CASE DropBeforeWrite
  <2>1. CASE Disconnect /\ drops' = 0
    BY <1>5, <1>9, <2>1 DEF DropBeforeWrite
  <2>2. CASE drops' = drops + 1 /\ UNCHANGED <<connVars, pending, wire>>
    <3>1. pc' = "result" /\ outcome' = "failed" /\ UNCHANGED accepted /\ pending = NoPending
      BY <1>3, <1>9 DEF DropBeforeWrite, Outcome
    <3>2. TypeOK' /\ JobHeld'
      BY <1>1, <1>3, <1>4, <2>2, <3>1 DEF TypeOK, JobHeld
    <3>3. PendingInv' /\ WireInv'
      BY <1>4, <2>2, <3>1 DEF IInv, PendingInv, WireInv, Offset
    <3> QED
      BY <3>2, <3>3 DEF IInv
  <2> QED
    BY <1>9, <2>1, <2>2 DEF DropBeforeWrite
<1>10. CASE SendCompletes
  <2>1. /\ Usable \/ Opens
        /\ connected' \in BOOLEAN /\ stale' \in BOOLEAN /\ peerClosed' \in BOOLEAN
    BY <1>10 DEF SendCompletes, OnConnection
  <2>2. /\ wire' = WireBefore \o NextChunks(job.size - Offset)
        /\ pending' = NoPending /\ drops' = 0
        /\ accepted' = Append(accepted, job)
        /\ pc' = "result" /\ outcome' = "sent"
    BY <1>10 DEF SendCompletes, Outcome
  <2>3. job.size - Offset \in Nat /\ Offset + (job.size - Offset) = job.size
    BY <1>3
  <2>4. wire' \in Seq(Chunk) /\ WellFramed(wire') /\ EndsAt(wire', job.id, 0)
    <3> DEFINE count == job.size - Offset
    <3>1. count \in Nat /\ Offset + count = job.size /\ Offset + count <= job.size
      BY <1>3, <2>3
    <3> HIDE DEF count
    <3>2. /\ WireBefore \o NextChunks(count) \in Seq(Chunk)
          /\ WellFramed(WireBefore \o NextChunks(count))
          /\ EndsAt(WireBefore \o NextChunks(count), job.id, 0)
      BY <1>2, <2>1, <3>1, WriteOnWire
    <3> QED
      BY <2>2, <3>2 DEF count
  <2>5. accepted' \in Seq(Packet)
    BY <1>1, <1>3, <2>2, AppendProperties DEF TypeOK
  <2>6. TypeOK' /\ JobHeld'
    <3>1. drops' \in Nat
      BY <2>2
    <3>2. wire' \in Seq(Chunk)
      BY <2>4
    <3> QED
      BY <1>1, <1>3, <1>4, <2>1, <2>2, <3>1, <3>2, <2>5 DEF TypeOK, JobHeld
  <2>7. PendingInv' /\ WireInv'
    BY <1>4, <2>2, <2>4 DEF PendingInv, WireInv, Offset
  <2> QED
    BY <2>6, <2>7 DEF IInv
<1>11. CASE SendYields
  <2>1. /\ Usable \/ Opens
        /\ connected' \in BOOLEAN /\ stale' \in BOOLEAN /\ peerClosed' \in BOOLEAN
        /\ pc' = "result" /\ UNCHANGED <<drops, accepted>>
    BY <1>11 DEF SendYields, OnConnection, Outcome
  <2>2. CASE RecordingBuffer
    <3>1. PICK written \in 0..(job.size - Offset - 1) :
             /\ wire' = WireBefore \o NextChunks(written)
             /\ pending' = PendingAfterYield(written)
             /\ outcome' = "retained"
      BY <1>11, <2>2 DEF SendYields, Outcome
    <3>2. /\ written \in Nat /\ Offset + written \in Nat
          /\ Offset + written < job.size
      BY <1>3
    <3>3. wire' \in Seq(Chunk) /\ WellFramed(wire') /\ EndsAt(wire', job.id, Offset + written)
      <4>1. Offset + written <= job.size /\ Offset + written # job.size
        BY <1>3, <3>2
      <4>2. /\ WireBefore \o NextChunks(written) \in Seq(Chunk)
            /\ WellFramed(WireBefore \o NextChunks(written))
            /\ EndsAt(WireBefore \o NextChunks(written), job.id, Offset + written)
        BY <1>2, <2>1, <3>2, <4>1, WriteOnWire
      <4> QED
        BY <3>1, <4>2
    <3>4. pending' \in [packet : Packet, offset : Nat] /\ pending'.packet = job
          /\ pending'.offset = Offset + written
      BY <1>3, <3>1, <3>2 DEF PendingAfterYield
    <3>5. pending' # NoPending
      BY <1>3, <3>4, NoJobIsNoPacket DEF NoPending
    <3>6. TypeOK' /\ JobHeld'
      <4>1. wire' \in Seq(Chunk) /\ pending' \in [packet : Packet, offset : Nat] \cup {NoPending}
        BY <3>3, <3>4
      <4> HIDE <3>1
      <4>2. outcome' = "retained"
        BY <3>1
      <4> QED
        BY <1>1, <1>3, <1>4, <2>1, <4>1, <4>2 DEF TypeOK, JobHeld
    <3>7. PendingInv'
      BY <1>4, <2>2, <3>1, <3>2, <3>4 DEF PendingInv
    <3>8. WireInv'
      BY <1>4, <3>3, <3>4, <3>5 DEF WireInv, Offset
    <3> QED
      BY <3>6, <3>7, <3>8 DEF IInv
  <2>3. CASE ~RecordingBuffer
    <3>1. wire' = WireBefore /\ UNCHANGED pending /\ outcome' = "failed" /\ pending = NoPending
      BY <1>3, <1>11, <2>3 DEF SendYields, Outcome
    <3>2. wire' \in Seq(Chunk) /\ WellFramed(wire') /\ EndsAt(wire', job.id, 0)
      <4>1. CASE Usable
        BY <3>1, <4>1 DEF IInv, TypeOK, WireInv, WireBefore, Offset
      <4>2. CASE ~Usable
        BY <3>1, <4>2, EmptyWire DEF WireBefore
      <4> QED BY <4>1, <4>2
    <3>3. TypeOK' /\ JobHeld'
      BY <1>1, <1>3, <1>4, <2>1, <3>1, <3>2 DEF TypeOK, JobHeld
    <3>4. PendingInv' /\ WireInv'
      BY <1>4, <3>1, <3>2 DEF PendingInv, WireInv, Offset
    <3> QED
      BY <3>3, <3>4 DEF IInv
  <2> QED BY <2>2, <2>3
<1> QED
  BY <1>6, <1>7, <1>8, <1>9, <1>10, <1>11 DEF SendMedia

LEMMA ResultStep ==
    ASSUME IInv, RetainJob \/ FinishJob \/ FailJob
    PROVE  IInv'
<1> USE DEF producerVars, guardVars, loopVars, connVars, transportVars
<1>1. TypeOK /\ JobHeld /\ PendingInv
  BY DEF IInv
<1>2. CASE RetainJob
  BY <1>1, <1>2, Undisturbed DEF RetainJob, TypeOK, JobHeld, IInv
<1>3. CASE FinishJob
  <2>1. /\ pending = NoPending
        /\ waiting' \in BOOLEAN /\ job' = NoJob /\ pc' = "check" /\ outcome' = "none"
        /\ UNCHANGED <<running, producerVars, queue, keyframeRequested, dropped, drain, transportVars>>
    BY <1>1, <1>3 DEF FinishJob, PendingInv
  <2>2. TypeOK' /\ JobHeld'
    BY <1>1, <2>1 DEF TypeOK, JobHeld
  <2> QED
    BY <2>1, <2>2, Undisturbed DEF IInv
<1>4. CASE FailJob
  <2>1. /\ pending = NoPending
        /\ waiting' \in BOOLEAN /\ keyframeRequested' \in BOOLEAN
        /\ job' \in {job, NoJob} /\ dropped' \in {dropped, dropped + 1}
        /\ pc' = "check" /\ outcome' = "none"
        /\ UNCHANGED <<running, producerVars, queue, drain, transportVars>>
    BY <1>1, <1>4 DEF FailJob, PendingInv, TypeOK
  <2>2. TypeOK' /\ JobHeld'
    BY <1>1, <2>1 DEF TypeOK, JobHeld
  <2> QED
    BY <2>1, <2>2, Undisturbed DEF IInv
<1> QED
  BY <1>2, <1>3, <1>4

-----------------------------------------------------------------------------
\* The inductive invariant holds of every behaviour.
THEOREM Invariance == Spec => []IInv
<1>1. IInv /\ [Next]_vars => IInv'
  <2> SUFFICES ASSUME IInv, [Next]_vars PROVE IInv'
    OBVIOUS
  <2>1. CASE UNCHANGED vars
    BY <2>1 DEF vars, producerVars, guardVars, loopVars, connVars, transportVars,
                IInv, TypeOK, JobHeld, PendingInv, WireInv, Offset
  <2>2. CASE Loop
    BY <2>2, TakingStep, SendStep, ResultStep DEF Loop
  <2> QED
    BY <2>1, <2>2, ProducerStep, EnvironmentStep DEF Next, Stopped
<1> QED
  BY <1>1, InitIInv, PTL DEF Spec

\* Every variable of the path keeps to its type.
THEOREM TypeCorrect == Spec => []TypeOK
BY Invariance, PTL DEF IInv

\* The contract of Transport::send_media is kept by media_sender_loop: while a packet is
\* pending in the transport, the loop holds that packet.  So whatever is retried,
\* interrupted or reconnected, the receiver reads whole packets: the chunks on a
\* connection are well framed.
THEOREM RetriedWhole == Spec => []RetriesResume
<1>1. IInv => PendingIsHeld
  BY DEF IInv, PendingInv, PendingIsHeld
<1>2. IInv => WireWellFramed
  BY DEF IInv, WireInv, WireWellFramed
<1> QED
  BY <1>1, <1>2, Invariance, PTL DEF RetriesResume

-----------------------------------------------------------------------------
(***************************************************************************)
(* Order.  That the accepted packets are in encoder order is not inductive:   *)
(* what is accepted next comes from the loop's hand, what comes into its hand *)
(* from the queue, and what comes into the queue from the encoder.  OrderInv  *)
(* strings the four together: accepted < job < queue < nextId.                *)
(***************************************************************************)
Increasing(packets) ==
    \A i, j \in 1..Len(packets) : i < j => packets[i].id < packets[j].id
Below(packets, bound) == \A i \in 1..Len(packets) : packets[i].id < bound
JustSent == pc = "result" /\ outcome = "sent"

OrderInv ==
    /\ Increasing(accepted) /\ Increasing(queue)
    /\ Below(accepted, nextId) /\ Below(queue, nextId)
    /\ \A i \in 1..Len(queue) : Below(accepted, queue[i].id)
    /\ job # NoJob =>
        /\ job.id < nextId
        /\ \A i \in 1..Len(queue) : job.id < queue[i].id
        /\ ~JustSent => Below(accepted, job.id)

\* Publishing drops packets from the front of a slot and adds the new one, if
\* anything, at its end: the slot stays in encoder order.
LEMMA PublishOrder ==
    ASSUME NEW jobs \in Seq(Packet), NEW packet \in Packet, NEW reject,
           Increasing(jobs), Below(jobs, packet.id)
    PROVE  LET after == JobsAfterPublish(jobs, packet, reject)
           IN  /\ Increasing(after)
               /\ \A i \in 1..Len(after) :
                    after[i] = packet \/ \E k \in 1..Len(jobs) : after[i] = jobs[k]
<1> DEFINE n == EvictCount(jobs, packet)
           rest == Behind(jobs, n)
           longer == Append(rest, packet)
<1>1. n \in 0..Len(jobs) /\ Len(jobs) \in Nat
  BY EvictCountBound, LenProperties
<1>2. \A i \in (n + 1)..Len(jobs) : jobs[i] \in Packet
  BY <1>1, ElementOfSeq
<1> HIDE DEF n
<1>3. /\ rest \in Seq(Packet) /\ Len(rest) = Len(jobs) - n
      /\ \A i \in 1..Len(rest) : rest[i] = jobs[n + i]
  BY <1>1, <1>2, SubSeqProperties DEF Behind
<1> HIDE DEF rest
<1>4. /\ Len(longer) = Len(rest) + 1
      /\ \A i \in 1..Len(rest) : longer[i] = rest[i]
      /\ longer[Len(rest) + 1] = packet
  BY <1>3, AppendProperties
<1> HIDE DEF longer
<1>5. \A i \in 1..Len(rest) : n + i \in 1..Len(jobs) /\ longer[i] = jobs[n + i]
  BY <1>1, <1>3, <1>4
<1>6. Len(rest) \in Nat
  BY <1>1, <1>3
<1>7. \A i \in 1..Len(longer) :
        longer[i] = packet \/ \E k \in 1..Len(jobs) : longer[i] = jobs[k]
  <2> SUFFICES ASSUME NEW i \in 1..Len(longer), longer[i] # packet
               PROVE  \E k \in 1..Len(jobs) : longer[i] = jobs[k]
    OBVIOUS
  <2>1. i \in 1..Len(rest)
    BY <1>4, <1>6
  <2> QED
    BY <1>5, <2>1
<1>8. Increasing(longer)
  <2> SUFFICES ASSUME NEW i \in 1..Len(longer), NEW j \in 1..Len(longer), i < j
               PROVE  longer[i].id < longer[j].id
    BY DEF Increasing
  <2>1. i \in 1..Len(rest) /\ n + i \in 1..Len(jobs) /\ longer[i] = jobs[n + i]
    BY <1>4, <1>5, <1>6
  <2>2. CASE j = Len(rest) + 1
    BY <1>4, <2>1, <2>2 DEF Below
  <2>3. CASE j # Len(rest) + 1
    <3>1. n + j \in 1..Len(jobs) /\ longer[j] = jobs[n + j] /\ n + i < n + j
      BY <1>1, <1>4, <1>5, <1>6, <2>3
    <3> QED
      BY <2>1, <3>1 DEF Increasing
  <2> QED
    BY <2>2, <2>3
<1>9. CASE Rejected(jobs, packet, reject)
  BY <1>9 DEF JobsAfterPublish
<1>10. CASE ~Rejected(jobs, packet, reject)
  <2>1. JobsAfterPublish(jobs, packet, reject) = longer
    BY <1>10 DEF JobsAfterPublish, longer, rest, n
  <2> QED
    BY <1>7, <1>8, <2>1
<1> QED
  BY <1>9, <1>10

\* Packets and the empty hand have ids that are numbers.
LEMMA PacketIds ==
    /\ \A packets \in Seq(Packet) : \A i \in 1..Len(packets) : packets[i].id \in Nat
    /\ \A packet \in Packet \cup {NoJob} : packet.id \in Nat
<1>1. \A packet \in Packet : packet.id \in Nat
  BY DEF Packet
<1>2. \A packets \in Seq(Packet) : \A i \in 1..Len(packets) : packets[i] \in Packet
  BY ElementOfSeq
<1> QED
  BY <1>1, <1>2 DEF NoJob

\* A step that only moves the loop on, or lets the job go, keeps the order.
LEMMA OrderKept ==
    ASSUME IInv, OrderInv, UNCHANGED <<queue, accepted>>,
           nextId' \in {nextId, nextId + 1}, job' \in {job, NoJob},
           ~JustSent \/ JustSent' \/ job' = NoJob
    PROVE  OrderInv'
<1>1. nextId \in Nat /\ queue \in Seq(Packet) /\ accepted \in Seq(Packet) /\ job \in Packet \cup {NoJob}
  BY DEF IInv, TypeOK
<1>2. /\ \A i \in 1..Len(queue) : queue[i].id \in Nat
      /\ \A i \in 1..Len(accepted) : accepted[i].id \in Nat
      /\ job.id \in Nat
  BY <1>1, PacketIds
<1>3. Increasing(accepted)' /\ Increasing(queue)'
  BY DEF OrderInv, Increasing
<1>4. Below(accepted, nextId)' /\ Below(queue, nextId)'
  BY <1>1, <1>2 DEF OrderInv, Below
<1>5. (\A i \in 1..Len(queue) : Below(accepted, queue[i].id))'
  BY DEF OrderInv, Below
<1>6. ASSUME job' # NoJob
      PROVE  /\ job'.id < nextId'
             /\ \A i \in 1..Len(queue') : job'.id < queue'[i].id
             /\ ~JustSent' => Below(accepted, job.id)'
  <2>1. job # NoJob /\ job' = job
    BY <1>6
  <2>2. job'.id < nextId'
    BY <1>1, <1>2, <2>1 DEF OrderInv
  <2>3. \A i \in 1..Len(queue') : job'.id < queue'[i].id
    BY <2>1 DEF OrderInv
  <2>4. ~JustSent' => Below(accepted, job.id)'
    BY <2>1 DEF OrderInv, Below
  <2> QED
    BY <2>2, <2>3, <2>4
<1> QED
  BY <1>3, <1>4, <1>5, <1>6 DEF OrderInv

\* The camera thread appends a packet above all the others.
LEMMA PublishOrdered ==
    ASSUME IInv, OrderInv, PublishFrame
    PROVE  OrderInv'
<1> USE DEF loopVars, connVars, transportVars
<1>1. PICK isKey \in BOOLEAN, size \in Sizes :
        LET packet == [id |-> nextId, key |-> isKey, size |-> size]
        IN  queue' = JobsAfterPublish(queue, packet, RejectIfOccupied(packet))
  BY DEF PublishFrame
<1> DEFINE packet == [id |-> nextId, key |-> isKey, size |-> size]
<1>2. nextId \in Nat \ {0} /\ queue \in Seq(Packet) /\ accepted \in Seq(Packet) /\ job \in Packet \cup {NoJob}
  BY DEF IInv, TypeOK
<1>3. packet \in Packet /\ packet.id = nextId
  BY <1>2 DEF Packet
<1>4. /\ nextId' = nextId + 1
      /\ UNCHANGED <<accepted, job, pc, outcome>>
  BY DEF PublishFrame, FrameLeavesEncoder
<1>5. /\ \A i \in 1..Len(queue) : queue[i].id \in Nat
      /\ \A i \in 1..Len(accepted) : accepted[i].id \in Nat
      /\ job.id \in Nat
  BY <1>2, PacketIds
<1>6. queue' = JobsAfterPublish(queue, packet, RejectIfOccupied(packet))
  BY <1>1
<1> HIDE DEF packet
<1>7. /\ Increasing(queue')
      /\ \A i \in 1..Len(queue') :
            queue'[i] = packet \/ \E k \in 1..Len(queue) : queue'[i] = queue[k]
  <2>1. Increasing(queue) /\ Below(queue, packet.id)
    BY <1>3 DEF OrderInv
  <2> QED
    BY <1>2, <1>3, <1>6, <2>1, PublishOrder
<1>8. Increasing(accepted)' /\ Increasing(queue)'
  BY <1>4, <1>7 DEF OrderInv, Increasing
<1>9. Below(accepted, nextId)' /\ Below(queue, nextId)'
  <2>1. ASSUME NEW i \in 1..Len(accepted)
        PROVE  accepted[i].id < nextId + 1
    BY <1>2, <1>5 DEF OrderInv, Below
  <2>2. ASSUME NEW i \in 1..Len(queue')
        PROVE  queue'[i].id < nextId + 1
    <3>1. CASE queue'[i] = packet
      BY <1>2, <1>3, <3>1
    <3>2. CASE \E k \in 1..Len(queue) : queue'[i] = queue[k]
      BY <1>2, <1>5, <3>2 DEF OrderInv, Below
    <3> QED
      BY <1>7, <3>1, <3>2
  <2> QED
    BY <1>4, <2>1, <2>2 DEF Below
<1>10. (\A i \in 1..Len(queue) : Below(accepted, queue[i].id))'
  BY <1>3, <1>4, <1>7 DEF OrderInv, Below
<1>11. ASSUME job' # NoJob
       PROVE  /\ job'.id < nextId'
              /\ \A i \in 1..Len(queue') : job'.id < queue'[i].id
              /\ ~JustSent' => Below(accepted, job.id)'
  <2>1. job # NoJob /\ job' = job /\ JustSent' = JustSent
    BY <1>4, <1>11 DEF JustSent
  <2>2. job'.id < nextId'
    BY <1>2, <1>4, <1>5, <2>1 DEF OrderInv
  <2>3. \A i \in 1..Len(queue') : job'.id < queue'[i].id
    BY <1>3, <1>7, <2>1 DEF OrderInv
  <2>4. ~JustSent' => Below(accepted, job.id)'
    BY <1>4, <2>1 DEF OrderInv, Below
  <2> QED
    BY <2>2, <2>3, <2>4
<1> QED
  BY <1>8, <1>9, <1>10, <1>11 DEF OrderInv

\* The loop takes the head of the queue into an empty hand.
LEMMA PopOrdered ==
    ASSUME IInv, OrderInv, PopQueue
    PROVE  OrderInv'
<1> USE DEF producerVars, connVars, transportVars
<1>1. queue \in Seq(Packet) /\ queue # <<>>
  BY DEF IInv, TypeOK, PopQueue
<1>2. /\ Len(queue) \in Nat \ {0} /\ Len(Tail(queue)) = Len(queue) - 1
      /\ \A i \in 1..Len(Tail(queue)) : Tail(queue)[i] = queue[i + 1]
      /\ Head(queue) = queue[1]
  BY <1>1, HeadTailProperties, EmptySeq, LenProperties
<1>3. /\ job' = queue[1] /\ queue' = Tail(queue) /\ pc' = "decide"
      /\ UNCHANGED <<nextId, accepted>>
  BY <1>2 DEF PopQueue
<1>4. \A i \in 1..Len(queue') : i + 1 \in 1..Len(queue) /\ queue'[i] = queue[i + 1]
  BY <1>2, <1>3
<1>5. 1 \in 1..Len(queue) /\ Len(queue') \in Nat
  BY <1>2, <1>3
<1>6. Increasing(accepted)' /\ Below(accepted, nextId)'
  BY <1>3 DEF OrderInv, Increasing, Below
<1>7. Increasing(queue)'
  <2> SUFFICES ASSUME NEW i \in 1..Len(queue'), NEW j \in 1..Len(queue'), i < j
               PROVE  queue'[i].id < queue'[j].id
    BY DEF Increasing
  <2>1. i + 1 \in 1..Len(queue) /\ j + 1 \in 1..Len(queue) /\ i + 1 < j + 1
    BY <1>4
  <2> QED
    BY <1>4, <2>1 DEF OrderInv, Increasing
<1>8. Below(queue, nextId)' /\ (\A i \in 1..Len(queue) : Below(accepted, queue[i].id))'
  BY <1>3, <1>4 DEF OrderInv, Below
<1>9. /\ job'.id < nextId' /\ Below(accepted, job.id)'
      /\ \A i \in 1..Len(queue') : job'.id < queue'[i].id
  <2>1. job'.id < nextId' /\ Below(accepted, job.id)'
    BY <1>3, <1>5 DEF OrderInv, Below
  <2>2. ASSUME NEW i \in 1..Len(queue')
        PROVE  job'.id < queue'[i].id
    <3>1. i + 1 \in 1..Len(queue) /\ queue'[i] = queue[i + 1] /\ 1 < i + 1
      BY <1>4
    <3> QED
      BY <1>3, <1>5, <3>1 DEF OrderInv, Increasing
  <2> QED
    BY <2>1, <2>2
<1> QED
  BY <1>6, <1>7, <1>8, <1>9 DEF OrderInv

\* What the kernel takes whole is above what it took before, and below the queue.
LEMMA CompletionOrdered ==
    ASSUME IInv, OrderInv, SendCompletes
    PROVE  OrderInv'
<1> USE DEF producerVars
<1>1. accepted \in Seq(Packet) /\ job \in Packet /\ job # NoJob
  BY NoJobIsNoPacket DEF IInv, TypeOK, JobHeld, SendCompletes
<1>2. /\ Len(accepted) \in Nat
      /\ Len(accepted') = Len(accepted) + 1
      /\ \A i \in 1..Len(accepted) : accepted'[i] = accepted[i]
      /\ accepted'[Len(accepted) + 1] = job
  BY <1>1, AppendProperties, LenProperties DEF SendCompletes
<1>3. UNCHANGED <<queue, nextId, job>> /\ JustSent'
  BY DEF SendCompletes, Outcome, JustSent
<1>4. \A i \in 1..Len(accepted') : i \in 1..Len(accepted) \/ i = Len(accepted) + 1
  BY <1>2
<1>5. /\ job.id < nextId /\ Below(accepted, job.id)
      /\ \A i \in 1..Len(queue) : job.id < queue[i].id
  BY <1>1 DEF OrderInv, JustSent, SendCompletes
<1>6. Increasing(accepted)'
  <2> SUFFICES ASSUME NEW i \in 1..Len(accepted'), NEW j \in 1..Len(accepted'), i < j
               PROVE  accepted'[i].id < accepted'[j].id
    BY DEF Increasing
  <2>1. i \in 1..Len(accepted)
    BY <1>2
  <2>2. CASE j = Len(accepted) + 1
    BY <1>2, <1>5, <2>1, <2>2 DEF Below
  <2>3. CASE j \in 1..Len(accepted)
    BY <1>2, <2>1, <2>3 DEF OrderInv, Increasing
  <2> QED
    BY <1>4, <2>2, <2>3
<1>7. Below(accepted, nextId)' /\ (\A i \in 1..Len(queue) : Below(accepted, queue[i].id))'
  BY <1>2, <1>3, <1>4, <1>5 DEF OrderInv, Below
<1>8. Increasing(queue)' /\ Below(queue, nextId)'
  BY <1>3 DEF OrderInv, Increasing, Below
<1> QED
  BY <1>3, <1>5, <1>6, <1>7, <1>8 DEF OrderInv

LEMMA OrderStep ==
    ASSUME IInv, OrderInv, [Next]_vars
    PROVE  OrderInv'
<1> USE DEF producerVars, guardVars, loopVars, connVars, transportVars, JustSent
<1>1. nextId \in Nat
  BY DEF IInv, TypeOK
<1>2. CASE UNCHANGED vars
  BY <1>2, OrderKept DEF vars
<1>3. CASE Environment
  BY <1>3, OrderKept DEF Environment, TargetChanges, PeerCloses, DrainDeadlinePasses
<1>4. CASE DropRegressedFrame \/ ResetLaggingEncoder
  <2>1. nextId' = nextId + 1 /\ UNCHANGED <<queue, accepted, job, pc, outcome>>
    BY <1>4 DEF DropRegressedFrame, ResetLaggingEncoder, FrameLeavesEncoder
  <2> QED
    BY <2>1, OrderKept
<1>5. CASE RecordOverwrite \/ JoinProducers \/ StopPath
  BY <1>5, OrderKept DEF RecordOverwrite, JoinProducers, StopPath
<1>6. CASE Producer
  BY <1>4, <1>5, <1>6, PublishOrdered DEF Producer
<1>7. CASE CheckRunning \/ TakeRetryJob \/ IdleCheck \/ DecideSend
  <2>1. UNCHANGED <<queue, accepted, nextId>> /\ job' \in {job, NoJob} /\ pc # "result"
    BY <1>7 DEF CheckRunning, TakeRetryJob, IdleCheck, DecideSend
  <2> QED
    BY <2>1, OrderKept
<1>8. CASE SendInterrupted \/ ConnectFails \/ DropBeforeWrite \/ SendYields \/ SendBreaks
  <2>1. UNCHANGED <<queue, accepted, nextId, job>> /\ pc # "result"
    BY <1>8 DEF SendInterrupted, ConnectFails, DropBeforeWrite, SendYields, SendBreaks
  <2> QED
    BY <2>1, OrderKept
<1>9. CASE RetainJob \/ FinishJob \/ FailJob
  <2>1. /\ UNCHANGED <<queue, accepted, nextId>> /\ job' \in {job, NoJob}
        /\ ~JustSent \/ job' = NoJob
    BY <1>9 DEF RetainJob, FinishJob, FailJob
  <2> QED
    BY <2>1, OrderKept
<1>10. CASE Loop
  BY <1>7, <1>8, <1>9, <1>10, PopOrdered, CompletionOrdered DEF Loop, SendMedia
<1> QED
  BY <1>2, <1>3, <1>6, <1>10 DEF Next, Stopped

\* Whatever is overwritten, retried, interrupted or sent again over another
\* connection, the packets the kernel takes whole are in encoder order and none
\* is taken twice.
THEOREM AcceptedOrder == Spec => []AcceptedInOrder
<1>1. Init => OrderInv
  <2> SUFFICES ASSUME Init PROVE OrderInv
    OBVIOUS
  <2>1. queue = <<>> /\ accepted = <<>> /\ job = NoJob /\ Len(<<>>) = 0
    BY EmptySeq DEF Init
  <2> QED
    BY <2>1 DEF OrderInv, Increasing, Below
<1>2. IInv /\ OrderInv /\ [Next]_vars => OrderInv'
  BY OrderStep
<1>3. OrderInv => AcceptedInOrder
  BY DEF OrderInv, Increasing, AcceptedInOrder
<1> QED
  BY <1>1, <1>2, <1>3, Invariance, PTL DEF Spec

-----------------------------------------------------------------------------
(***************************************************************************)
(* The refinement of MediaStream.  Its buffer is the packet in the loop's hand *)
(* in front of the queue.                                                    *)
(***************************************************************************)
Hand == IF InHand = 1 THEN <<job>> ELSE <<>>

LEMMA FifoShape ==
    ASSUME IInv
    PROVE  /\ FifoBuffer = Hand \o queue
           /\ Hand \in Seq(Packet) /\ queue \in Seq(Packet) /\ FifoBuffer \in Seq(Packet)
           /\ InHand = 1 => job \in Packet /\ Hand = <<job>>
           /\ InHand # 1 => Hand = <<>>
           /\ InHand = 1 <=> job # NoJob /\ ~(pc = "result" /\ outcome = "sent")
<1>1. queue \in Seq(Packet) /\ job \in Packet \cup {NoJob}
  BY DEF IInv, TypeOK
<1>2. InHand = 1 <=> job # NoJob /\ ~(pc = "result" /\ outcome = "sent")
  BY DEF InHand
<1>3. \A packet \in Packet : <<packet>> \in Seq(Packet)
  OBVIOUS
<1>4. Hand \in Seq(Packet)
  BY <1>1, <1>2, <1>3, EmptySeq DEF Hand
<1>5. FifoBuffer = Hand \o queue
  BY DEF FifoBuffer, Hand
<1> QED
  BY <1>1, <1>2, <1>4, <1>5, ConcatProperties DEF Hand

\* A packet in front of a sequence: what its head, its tail and the rest are.
LEMMA InFront ==
    ASSUME NEW packet \in Packet, NEW rest \in Seq(Packet)
    PROVE  LET whole == <<packet>> \o rest
           IN  /\ whole # <<>> /\ Len(whole) \in Nat \ {0}
               /\ Head(whole) = packet /\ Tail(whole) = rest
               /\ RemoveAt(whole, 1) = rest
<1> DEFINE whole == <<packet>> \o rest
<1>1. <<packet>> \in Seq(Packet) /\ Len(<<packet>>) = 1 /\ <<packet>>[1] = packet
  OBVIOUS
<1>2. Len(rest) \in Nat
  BY LenProperties
<1>3. /\ whole \in Seq(Packet) /\ Len(whole) = 1 + Len(rest)
      /\ \A i \in 1..(1 + Len(rest)) : whole[i] = IF i <= 1 THEN <<packet>>[i] ELSE rest[i - 1]
  BY <1>1, ConcatProperties
<1> HIDE DEF whole
<1>4. whole # <<>>
  BY <1>2, <1>3, EmptySeq
<1>5. whole[1] = packet /\ \A i \in 1..Len(rest) : whole[i + 1] = rest[i]
  BY <1>1, <1>2, <1>3
<1>6. Head(whole) = packet
  BY <1>3, <1>4, <1>5, HeadTailProperties
<1>7. Tail(whole) = rest
  <2>1. /\ Tail(whole) \in Seq(Packet) /\ Len(Tail(whole)) = Len(rest)
        /\ \A i \in 1..Len(rest) : Tail(whole)[i] = whole[i + 1]
    BY <1>2, <1>3, <1>4, HeadTailProperties
  <2> QED
    BY <1>5, <2>1, SeqEqual
<1>8. RemoveAt(whole, 1) = rest
  <2>1. SubSeq(whole, 1, 1 - 1) = <<>>
    BY SubSeqEmpty
  <2>2. \A i \in (1 + 1)..Len(whole) : whole[i] \in Packet
    BY <1>3, ElementOfSeq
  <2>3. /\ SubSeq(whole, 1 + 1, Len(whole)) \in Seq(Packet)
        /\ Len(SubSeq(whole, 1 + 1, Len(whole))) = Len(rest)
        /\ \A i \in 1..Len(rest) : SubSeq(whole, 1 + 1, Len(whole))[i] = whole[1 + 1 + i - 1]
    BY <1>2, <1>3, <2>2, SubSeqProperties
  <2>4. SubSeq(whole, 1 + 1, Len(whole)) = rest
    BY <1>2, <1>5, <2>3, SeqEqual
  <2> QED
    BY <2>1, <2>4, ConcatEmptySeq DEF RemoveAt
<1> QED
  BY <1>2, <1>3, <1>4, <1>6, <1>7, <1>8 DEF whole

\* Publishing behind what the loop holds, as MediaStream describes it: the packets
\* between two positions of the buffer make room, the new one comes last.
LEMMA PublishBehind ==
    ASSUME NEW held \in Seq(Packet), NEW jobs \in Seq(Packet), NEW packet \in Packet,
           NEW n \in 0..Len(jobs)
    PROVE  LET before == held \o jobs
               after == held \o Append(SubSeq(jobs, n + 1, Len(jobs)), packet)
               i == Len(held)
               j == Len(held) + n
           IN  /\ i \in 0..Len(before) /\ j \in 0..Len(before) /\ i <= j
               /\ Len(after) = i + (Len(before) - j) + 1
               /\ Front(after) = SubSeq(before, 1, i) \o SubSeq(before, j + 1, Len(before))
               /\ Last(after) = packet
<1> DEFINE kept == SubSeq(jobs, n + 1, Len(jobs))
           tail == Append(kept, packet)
           before == held \o jobs
           after == held \o tail
           i == Len(held)
           j == Len(held) + n
           K == Len(jobs) - n
           first == SubSeq(before, 1, i)
           second == SubSeq(before, j + 1, Len(before))
<1>1. Len(jobs) \in Nat /\ i \in Nat /\ n \in Nat /\ n <= Len(jobs) /\ K \in Nat
  BY LenProperties
<1>0. i = Len(held) /\ j = i + n /\ K = Len(jobs) - n
  OBVIOUS
<1>2. \A k \in (n + 1)..Len(jobs) : jobs[k] \in Packet
  BY <1>1, ElementOfSeq
<1>3. /\ kept \in Seq(Packet) /\ Len(kept) = K
      /\ \A k \in 1..K : kept[k] = jobs[n + k]
  BY <1>1, <1>2, SubSeqProperties
<1> HIDE DEF kept, i, j, K
<1>4. /\ tail \in Seq(Packet) /\ Len(tail) = K + 1
      /\ \A k \in 1..K : tail[k] = kept[k]
      /\ tail[K + 1] = packet
  BY <1>3, AppendProperties
<1> HIDE DEF tail
<1>5. /\ before \in Seq(Packet) /\ Len(before) = i + Len(jobs)
      /\ \A k \in 1..(i + Len(jobs)) : before[k] = IF k <= i THEN held[k] ELSE jobs[k - i]
  BY <1>0, ConcatProperties
<1> HIDE DEF before
<1>6. /\ after \in Seq(Packet) /\ Len(after) = i + (K + 1)
      /\ \A k \in 1..(i + (K + 1)) : after[k] = IF k <= i THEN held[k] ELSE tail[k - i]
  <2>1. /\ after \in Seq(Packet) /\ Len(after) = i + Len(tail)
        /\ \A k \in 1..(i + Len(tail)) : after[k] = IF k <= i THEN held[k] ELSE tail[k - i]
    BY <1>0, <1>4, ConcatProperties
  <2> QED
    BY <1>4, <2>1
<1> HIDE DEF after
<1>7. /\ first \in Seq(Packet) /\ Len(first) = i
      /\ \A k \in 1..i : first[k] = before[k]
  <2>1. \A k \in 1..i : before[k] \in Packet
    BY <1>1, <1>5, ElementOfSeq
  <2> QED
    BY <1>1, <2>1, SubSeqProperties
<1>8. /\ second \in Seq(Packet) /\ Len(second) = K
      /\ \A k \in 1..K : second[k] = before[j + k]
  <2>1. \A k \in (j + 1)..Len(before) : before[k] \in Packet
    BY <1>0, <1>1, <1>5, ElementOfSeq
  <2> QED
    BY <1>0, <1>1, <1>5, <2>1, SubSeqProperties
<1> HIDE DEF first, second
<1>9. /\ first \o second \in Seq(Packet) /\ Len(first \o second) = i + K
      /\ \A k \in 1..(i + K) : (first \o second)[k] = IF k <= i THEN first[k] ELSE second[k - i]
  <2>1. /\ first \o second \in Seq(Packet) /\ Len(first \o second) = Len(first) + Len(second)
        /\ \A k \in 1..(Len(first) + Len(second)) :
              (first \o second)[k] = IF k <= Len(first) THEN first[k] ELSE second[k - Len(first)]
    BY <1>7, <1>8, ConcatProperties
  <2> QED
    BY <1>7, <1>8, <2>1
<1>10. /\ Front(after) \in Seq(Packet) /\ Len(Front(after)) = i + K
       /\ \A k \in 1..(i + K) : Front(after)[k] = after[k]
  <2>1. \A k \in 1..(Len(after) - 1) : after[k] \in Packet
    BY <1>1, <1>6, ElementOfSeq
  <2>2. /\ SubSeq(after, 1, Len(after) - 1) \in Seq(Packet)
        /\ Len(SubSeq(after, 1, Len(after) - 1)) = i + K
        /\ \A k \in 1..(i + K) : SubSeq(after, 1, Len(after) - 1)[k] = after[k]
    BY <1>1, <1>6, <2>1, SubSeqProperties
  <2> QED
    BY <2>2 DEF Front
<1>11. ASSUME NEW k \in 1..(i + K)
       PROVE  after[k] = (first \o second)[k]
  <2>1. CASE k <= i
    <3>1. k \in 1..i /\ k \in 1..(i + (K + 1)) /\ k \in 1..(i + Len(jobs))
      BY <1>1, <1>11, <2>1
    <3>2. after[k] = held[k] /\ before[k] = held[k]
      BY <1>5, <1>6, <2>1, <3>1
    <3>3. (first \o second)[k] = before[k]
      BY <1>7, <1>9, <1>11, <2>1, <3>1
    <3> QED
      BY <3>2, <3>3
  <2>2. CASE k > i
    <3>1. k - i \in 1..K /\ j + (k - i) = n + k /\ n + k \in 1..(i + Len(jobs)) /\ n + k > i
      BY <1>0, <1>1, <2>2
    <3>2. after[k] = jobs[n + (k - i)]
      <4>1. k \in 1..(i + (K + 1)) /\ ~(k <= i)
        BY <1>1, <2>2
      <4>2. after[k] = tail[k - i]
        BY <1>6, <4>1
      <4> QED
        BY <1>3, <1>4, <3>1, <4>2
    <3>3. (first \o second)[k] = before[n + k]
      <4>1. (first \o second)[k] = second[k - i]
        BY <1>1, <1>9, <2>2
      <4> QED
        BY <1>8, <3>1, <4>1
    <3>4. before[n + k] = jobs[n + (k - i)]
      <4>1. before[n + k] = jobs[(n + k) - i] /\ (n + k) - i = n + (k - i)
        BY <1>1, <1>5, <3>1
      <4> QED
        BY <4>1
    <3> QED
      BY <3>2, <3>3, <3>4
  <2>3. k <= i \/ k > i
    BY <1>1, <1>11
  <2> QED
    BY <2>1, <2>2, <2>3
<1>12. Front(after) = first \o second
  BY <1>9, <1>10, <1>11, SeqEqual
<1>13. Last(after) = packet
  <2>1. /\ i + (K + 1) \in 1..(i + (K + 1)) /\ ~(i + (K + 1) <= i)
        /\ (i + (K + 1)) - i = K + 1
    BY <1>1
  <2>2. after[i + (K + 1)] = tail[K + 1]
    BY <1>6, <2>1
  <2> QED
    BY <1>4, <1>6, <2>2 DEF Last
<1>14. /\ i \in 0..Len(before) /\ j \in 0..Len(before) /\ i <= j
       /\ Len(after) = i + (Len(before) - j) + 1
  BY <1>0, <1>1, <1>5, <1>6
<1> QED
  BY <1>12, <1>13, <1>14 DEF after, before, tail, kept, first, second, i, j

\* The steps that leave the packets of the path where they are.
LEMMA FifoStutters ==
    ASSUME UNCHANGED <<job, queue, accepted, nextId>>,
           (pc = "result" /\ outcome = "sent") <=> (pc' = "result" /\ outcome' = "sent")
    PROVE  UNCHANGED <<FifoBuffer, accepted, nextId>>
BY DEF FifoBuffer, InHand

\* The loop lets the packet in its hand go: MediaStream loses its first packet.
LEMMA FifoLoses ==
    ASSUME IInv, UNCHANGED <<queue, accepted, nextId>>,
           job # NoJob, ~(pc = "result" /\ outcome = "sent"), job' = NoJob
    PROVE  Fifo!Lose
<1>1. FifoBuffer = <<job>> \o queue /\ job \in Packet /\ queue \in Seq(Packet)
  BY FifoShape
<1>2. FifoBuffer' = queue
  <2>1. FifoBuffer' = <<>> \o queue
    BY DEF FifoBuffer, InHand
  <2> QED
    BY <1>1, <2>1, ConcatEmptySeq
<1>3. 1 \in 1..Len(FifoBuffer) /\ FifoBuffer' = RemoveAt(FifoBuffer, 1)
  BY <1>1, <1>2, InFront
<1> QED
  BY <1>3 DEF Fifo!Lose, RemoveAt, Fifo!RemoveAt

LEMMA FifoPublishes ==
    ASSUME IInv, PublishFrame
    PROVE  Fifo!Publish
<1> USE DEF loopVars, connVars, transportVars
<1>1. PICK isKey \in BOOLEAN, size \in Sizes :
        LET packet == [id |-> nextId, key |-> isKey, size |-> size]
        IN  queue' = JobsAfterPublish(queue, packet, RejectIfOccupied(packet))
  BY DEF PublishFrame
<1> DEFINE packet == [id |-> nextId, key |-> isKey, size |-> size]
           n == EvictCount(queue, packet)
<1>2. /\ nextId' = nextId + 1
      /\ UNCHANGED <<accepted, job, pc, outcome>>
  BY DEF PublishFrame, FrameLeavesEncoder
<1>3. packet \in Packet /\ packet.id = nextId
  BY DEF Packet, IInv, TypeOK
<1>4. queue' = JobsAfterPublish(queue, packet, RejectIfOccupied(packet))
  BY <1>1
<1> HIDE DEF packet
<1>5. /\ FifoBuffer = Hand \o queue /\ Hand \in Seq(Packet) /\ queue \in Seq(Packet)
      /\ FifoBuffer' = Hand \o queue'
  BY <1>2, FifoShape DEF FifoBuffer, Hand, InHand
<1>6. CASE Rejected(queue, packet, RejectIfOccupied(packet))
  BY <1>2, <1>4, <1>5, <1>6 DEF JobsAfterPublish, Fifo!Publish
<1>7. CASE ~Rejected(queue, packet, RejectIfOccupied(packet))
  <2>1. n \in 0..Len(queue)
    BY <1>5, EvictCountBound
  <2>2. FifoBuffer' = Hand \o Append(SubSeq(queue, n + 1, Len(queue)), packet)
    BY <1>4, <1>5, <1>7 DEF JobsAfterPublish, Behind
  <2> HIDE DEF n
  <2>3. /\ Len(Hand) \in 0..Len(FifoBuffer) /\ Len(Hand) + n \in 0..Len(FifoBuffer)
        /\ Len(Hand) <= Len(Hand) + n
        /\ Len(FifoBuffer') = Len(Hand) + (Len(FifoBuffer) - (Len(Hand) + n)) + 1
        /\ Front(FifoBuffer') = SubSeq(FifoBuffer, 1, Len(Hand))
                                  \o SubSeq(FifoBuffer, Len(Hand) + n + 1, Len(FifoBuffer))
        /\ Last(FifoBuffer').id = nextId
    <3> DEFINE before == Hand \o queue
               after == Hand \o Append(SubSeq(queue, n + 1, Len(queue)), packet)
    <3>1. /\ Len(Hand) \in 0..Len(before) /\ Len(Hand) + n \in 0..Len(before)
          /\ Len(Hand) <= Len(Hand) + n
          /\ Len(after) = Len(Hand) + (Len(before) - (Len(Hand) + n)) + 1
          /\ Front(after) = SubSeq(before, 1, Len(Hand))
                              \o SubSeq(before, Len(Hand) + n + 1, Len(before))
          /\ Last(after) = packet
      BY <1>3, <1>5, <2>1, PublishBehind
    <3>2. before = FifoBuffer /\ after = FifoBuffer'
      BY <1>5, <2>2
    <3> HIDE DEF before, after
    <3> QED
      BY <1>3, <3>1, <3>2
  <2> QED
    BY <1>2, <2>3 DEF Fifo!Publish, Front, Last, Fifo!Front, Fifo!Last
<1> QED
  BY <1>6, <1>7

\* The loop takes the head of the queue: the buffer as a whole stays as it is.
LEMMA FifoKeepsOnPop ==
    ASSUME IInv, PopQueue
    PROVE  UNCHANGED <<FifoBuffer, accepted, nextId>>
<1> USE DEF producerVars, connVars, transportVars
<1>1. queue \in Seq(Packet) /\ queue # <<>> /\ job = NoJob
  BY DEF IInv, TypeOK, PopQueue
<1>2. /\ Head(queue) \in Packet /\ Tail(queue) \in Seq(Packet)
      /\ Len(queue) \in Nat \ {0} /\ Len(Tail(queue)) = Len(queue) - 1
      /\ \A i \in 1..Len(Tail(queue)) : Tail(queue)[i] = queue[i + 1]
      /\ Head(queue) = queue[1]
  BY <1>1, HeadTailProperties, EmptySeq, LenProperties
<1>3. FifoBuffer = queue
  <2>1. FifoBuffer = <<>> \o queue
    BY <1>1 DEF FifoBuffer, InHand
  <2> QED
    BY <1>1, <2>1, ConcatEmptySeq
<1>4. FifoBuffer' = <<Head(queue)>> \o Tail(queue)
  <2>1. job' = Head(queue) /\ queue' = Tail(queue) /\ pc' = "decide"
    BY DEF PopQueue
  <2>2. job' # NoJob
    BY <1>2, <2>1, NoJobIsNoPacket
  <2> QED
    BY <2>1, <2>2 DEF FifoBuffer, InHand
<1>5. <<Head(queue)>> \o Tail(queue) = queue
  <2>1. <<Head(queue)>> \in Seq(Packet) /\ Len(<<Head(queue)>>) = 1 /\ <<Head(queue)>>[1] = Head(queue)
    BY <1>2
  <2> DEFINE whole == <<Head(queue)>> \o Tail(queue)
  <2>2. /\ whole \in Seq(Packet) /\ Len(whole) = 1 + Len(Tail(queue))
        /\ \A i \in 1..(1 + Len(Tail(queue))) :
              whole[i] = IF i <= 1 THEN <<Head(queue)>>[i] ELSE Tail(queue)[i - 1]
    BY <1>2, <2>1, ConcatProperties
  <2> HIDE DEF whole
  <2>3. Len(whole) = Len(queue)
    BY <1>2, <2>2
  <2>4. ASSUME NEW i \in 1..Len(queue)
        PROVE  whole[i] = queue[i]
    <3>1. CASE i = 1
      BY <1>2, <2>1, <2>2, <3>1
    <3>2. CASE i # 1
      <4>1. i - 1 \in 1..Len(Tail(queue)) /\ (i - 1) + 1 = i
        BY <1>2, <3>2
      <4>2. whole[i] = Tail(queue)[i - 1] /\ Tail(queue)[i - 1] = queue[(i - 1) + 1]
        BY <1>2, <2>2, <3>2, <4>1
      <4> QED
        BY <4>1, <4>2
    <3> QED
      BY <3>1, <3>2
  <2>5. whole = queue
    BY <1>1, <2>2, <2>3, <2>4, SeqEqual
  <2> QED
    BY <2>5 DEF whole
<1>6. UNCHANGED <<accepted, nextId>>
  BY DEF PopQueue
<1> QED
  BY <1>3, <1>4, <1>5, <1>6

LEMMA FifoDelivers ==
    ASSUME IInv, SendCompletes
    PROVE  Fifo!Deliver
<1> USE DEF producerVars
<1>1. /\ job \in Packet /\ job # NoJob /\ pc = "send"
      /\ accepted' = Append(accepted, job)
      /\ UNCHANGED <<queue, nextId, job>> /\ pc' = "result" /\ outcome' = "sent"
  BY NoJobIsNoPacket DEF IInv, JobHeld, SendCompletes, Outcome
<1>2. FifoBuffer = <<job>> \o queue /\ queue \in Seq(Packet)
  BY <1>1, FifoShape
<1>3. FifoBuffer # <<>> /\ Head(FifoBuffer) = job /\ Tail(FifoBuffer) = queue
  BY <1>1, <1>2, InFront
<1>4. FifoBuffer' = queue
  <2>1. FifoBuffer' = <<>> \o queue
    BY <1>1 DEF FifoBuffer, InHand
  <2> QED
    BY <1>2, <2>1, ConcatEmptySeq
<1> QED
  BY <1>1, <1>3, <1>4 DEF Fifo!Deliver

LEMMA FifoStep ==
    ASSUME IInv, [Next]_vars
    PROVE  [Fifo!Next]_<<FifoBuffer, accepted, nextId>>
<1> USE DEF producerVars, guardVars, loopVars, connVars, transportVars
<1>1. CASE UNCHANGED vars
  BY <1>1, FifoStutters DEF vars
<1>2. CASE Environment
  BY <1>2, FifoStutters DEF Environment, TargetChanges, PeerCloses, DrainDeadlinePasses
<1>3. CASE PublishFrame
  BY <1>3, FifoPublishes DEF Fifo!Next
<1>4. CASE DropRegressedFrame \/ ResetLaggingEncoder
  <2>1. nextId' = nextId + 1 /\ UNCHANGED <<queue, accepted, job, pc, outcome>>
    BY <1>4 DEF DropRegressedFrame, ResetLaggingEncoder, FrameLeavesEncoder
  <2> QED
    BY <2>1 DEF FifoBuffer, InHand, Fifo!Publish, Fifo!Next
<1>5. CASE RecordOverwrite \/ JoinProducers \/ StopPath
  BY <1>5, FifoStutters DEF RecordOverwrite, JoinProducers, StopPath
<1>6. CASE CheckRunning \/ TakeRetryJob \/ IdleCheck
  <2>1. UNCHANGED <<job, queue, accepted, nextId>> /\ pc # "result" /\ pc' # "result"
    BY <1>6 DEF CheckRunning, TakeRetryJob, IdleCheck
  <2> QED
    BY <2>1, FifoStutters
<1>7. CASE PopQueue
  BY <1>7, FifoKeepsOnPop
<1>8. CASE DecideSend
  <2>1. /\ UNCHANGED <<queue, accepted, nextId>> /\ pc = "decide" /\ pc' # "result"
        /\ job # NoJob /\ job' \in {job, NoJob}
    BY <1>8, NoJobIsNoPacket DEF DecideSend, IInv, JobHeld
  <2>2. CASE job' = NoJob
    BY <2>1, <2>2, FifoLoses DEF Fifo!Next
  <2>3. CASE job' = job
    BY <2>1, <2>3, FifoStutters
  <2> QED
    BY <2>1, <2>2, <2>3
<1>9. CASE SendInterrupted \/ ConnectFails \/ DropBeforeWrite \/ SendYields \/ SendBreaks
  <2>1. UNCHANGED <<job, queue, accepted, nextId>> /\ pc # "result" /\ outcome' # "sent"
    BY <1>9 DEF SendInterrupted, ConnectFails, DropBeforeWrite, SendYields, SendBreaks, Outcome
  <2> QED
    BY <2>1, FifoStutters
<1>10. CASE SendCompletes
  BY <1>10, FifoDelivers DEF Fifo!Next
<1>11. CASE RetainJob
  <2>1. UNCHANGED <<job, queue, accepted, nextId>> /\ outcome # "sent" /\ outcome' # "sent"
    BY <1>11 DEF RetainJob
  <2> QED
    BY <2>1, FifoStutters
<1>12. CASE FinishJob
  <2>1. UNCHANGED <<queue, accepted, nextId>> /\ pc = "result" /\ outcome = "sent" /\ job' = NoJob
    BY <1>12 DEF FinishJob
  <2> QED
    BY <2>1 DEF FifoBuffer, InHand
<1>13. CASE FailJob
  <2>1. /\ UNCHANGED <<queue, accepted, nextId>> /\ outcome = "failed" /\ outcome' = "none"
        /\ job # NoJob /\ job' \in {job, NoJob}
    BY <1>13, NoJobIsNoPacket DEF FailJob, IInv, JobHeld
  <2>2. CASE job' = NoJob
    BY <2>1, <2>2, FifoLoses DEF Fifo!Next
  <2>3. CASE job' = job
    BY <2>1, <2>3, FifoStutters
  <2> QED
    BY <2>1, <2>2, <2>3
<1>14. CASE Producer
  BY <1>3, <1>4, <1>5, <1>14 DEF Producer
<1>15. CASE Loop
  BY <1>6, <1>7, <1>8, <1>9, <1>10, <1>11, <1>12, <1>13, <1>15 DEF Loop, SendMedia
<1> QED
  BY <1>1, <1>2, <1>14, <1>15 DEF Next, Stopped

\* The path implements MediaStream: seen by whoever reads the connection it is a
\* FIFO that may lose packets but neither reorders nor repeats them.
THEOREM Refinement == Spec => ImplementsFifo
<1>1. Init => Fifo!Init
  <2> SUFFICES ASSUME Init PROVE Fifo!Init
    OBVIOUS
  <2>1. queue = <<>> /\ accepted = <<>> /\ job = NoJob /\ nextId = 1
    BY DEF Init
  <2>2. FifoBuffer = <<>> \o <<>>
    BY <2>1 DEF FifoBuffer, InHand
  <2>3. <<>> \o <<>> = <<>>
    BY EmptySeq, ConcatEmptySeq
  <2> QED
    BY <2>1, <2>2, <2>3 DEF Fifo!Init
<1>2. IInv /\ [Next]_vars => [Fifo!Next]_<<FifoBuffer, accepted, nextId>>
  BY FifoStep
<1> QED
  BY <1>1, <1>2, Invariance, PTL DEF Spec, ImplementsFifo, Fifo!Spec

-----------------------------------------------------------------------------
(***************************************************************************)
(* Losses.  What the counters know is not inductive: how many frames one      *)
(* overwrite stands for depends on how many the slot may hold.               *)
(***************************************************************************)
Counting == Len(queue) <= FramesPerSlot /\ LossesCounted

\* A publish that is not just queued loses at least one frame and at most a slotful,
\* and the slot never holds more than it has room for.
LEMMA PublishLoses ==
    ASSUME NEW jobs \in Seq(Packet), Len(jobs) <= FramesPerSlot,
           NEW packet \in Packet, NEW reject \in BOOLEAN
    PROVE  LET after == JobsAfterPublish(jobs, packet, reject)
               result == PublishResult(jobs, packet, reject)
           IN  /\ Len(after) \in Nat /\ Len(after) <= FramesPerSlot
               /\ result = "queued" => Len(after) = Len(jobs) + 1
               /\ result # "queued" => Len(after) <= Len(jobs)
               /\ Len(jobs) + 1 <= Len(after) + FramesPerSlot
<1> DEFINE n == EvictCount(jobs, packet)
           blocked == {m \in 1..Len(jobs) : \A k \in 0..(m - 1) : ~Fits(Behind(jobs, k), packet)}
<1>1. n \in 0..Len(jobs) /\ Len(jobs) \in Nat /\ FramesPerSlot \in Nat \ {0}
  BY EvictCountBound, LenProperties, QueueAssumption
<1>2. CASE Rejected(jobs, packet, reject)
  BY <1>1, <1>2 DEF JobsAfterPublish, PublishResult
<1>3. CASE ~Rejected(jobs, packet, reject)
  <2>1. Len(jobs) = FramesPerSlot => n >= 1
    <3> SUFFICES ASSUME Len(jobs) = FramesPerSlot PROVE n >= 1
      OBVIOUS
    <3>1. Behind(jobs, 0) # <<>> /\ Len(Behind(jobs, 0)) = FramesPerSlot
      <4>1. SubSeq(jobs, 1, Len(jobs)) = jobs
        BY <1>1, SubSeqFull
      <4> QED BY <1>1, <4>1, EmptySeq DEF Behind
    <3>2. ~Fits(Behind(jobs, 0), packet)
      BY <1>1, <3>1 DEF Fits
    <3>3. 1 \in blocked
      <4>1. 1 \in 1..Len(jobs) /\ 0..(1 - 1) = {0}
        BY <1>1
      <4> QED BY <3>2, <4>1
    <3>4. IsFiniteSet(blocked)
      <4>1. IsFiniteSet(1..Len(jobs))
        BY <1>1, FS_Interval
      <4> QED BY <4>1, FS_Subset
    <3>5. Cardinality({1}) <= Cardinality(blocked) /\ Cardinality({1}) = 1
      <4> HIDE DEF blocked
      <4> QED BY <3>3, <3>4, FS_Subset, FS_Singleton
    <3> QED BY <1>1, <3>5 DEF EvictCount
  <2>2. Len(Behind(jobs, n)) = Len(jobs) - n /\ Behind(jobs, n) \in Seq(Packet)
    <3> HIDE DEF n
    <3>1. \A i \in (n + 1)..Len(jobs) : jobs[i] \in Packet
      BY <1>1, ElementOfSeq
    <3> QED BY <1>1, <3>1, SubSeqProperties DEF Behind
  <2>3. JobsAfterPublish(jobs, packet, reject) = Append(Behind(jobs, n), packet)
    BY <1>3 DEF JobsAfterPublish
  <2>4. Len(JobsAfterPublish(jobs, packet, reject)) = Len(jobs) - n + 1
    <3> HIDE DEF n
    <3> QED BY <1>1, <2>2, <2>3, AppendProperties
  <2>5. PublishResult(jobs, packet, reject) = IF n > 0 THEN "overwritten" ELSE "queued"
    BY <1>3 DEF PublishResult
  <2> HIDE DEF n
  <2> QED BY <1>1, <2>1, <2>4, <2>5
<1> QED BY <1>2, <1>3

\* Sums of what is kept, counted and issued, before and after a step.
LEMMA LossBounds ==
    ASSUME NEW k \in Nat, NEW k1 \in Nat, NEW n \in Nat, NEW n1 \in Nat, NEW m \in Nat,
           NEW m1 \in Nat, NEW c \in Nat, NEW d \in Nat, NEW p \in Nat, NEW q \in Nat,
           m1 = m + c, n1 + k = n + k1 + d, c <= d, d <= q
    PROVE  /\ k + m <= n - 1 => k1 + m1 <= n1 - 1
           /\ n - 1 <= k + p => n1 - 1 <= k1 + (p + q)
  OBVIOUS

\* A step that loses as many frames as it counts, or between one and a slotful for one.
LEMMA CountsKept ==
    ASSUME IInv, Counting, drain' # "passed" => drain # "passed",
           Len(queue') \in Nat, Len(queue') <= FramesPerSlot,
           NEW d \in Nat, NEW c \in {0, 1}, d <= c * FramesPerSlot, c <= d,
           Kept' \in Nat, nextId' \in Nat, Counted' = Counted + c,
           nextId' + Kept = nextId + Kept' + d
    PROVE  Counting'
<1>1. /\ FramesPerSlot \in Nat /\ nextId \in Nat \ {0} /\ Counted \in Nat /\ Kept \in Nat
      /\ Kept + Counted <= nextId - 1
      /\ drain # "passed" => nextId - 1 <= Kept + Counted * FramesPerSlot
  <2>1. FramesPerSlot \in Nat /\ nextId \in Nat \ {0} /\ Counted \in Nat
    BY QueueAssumption DEF IInv, TypeOK, Counted
  <2>2. Len(accepted) \in Nat /\ Len(queue) \in Nat /\ InHand \in Nat
    BY LenProperties DEF IInv, TypeOK, InHand
  <2> QED BY <2>1, <2>2 DEF Counting, LossesCounted, Kept
<1>2. PICK product \in Nat : product = Counted * FramesPerSlot
  BY <1>1
<1>3. (Counted + c) * FramesPerSlot = product + c * FramesPerSlot
  <2>1. c = 0 \/ c = 1
    OBVIOUS
  <2> QED BY <1>1, <1>2, <2>1
<1>4. PICK more \in Nat : more = c * FramesPerSlot
  BY <1>1
<1>5. Counted' * FramesPerSlot = product + more
  BY <1>3, <1>4
<1>6. Counted' \in Nat /\ c \in Nat /\ d <= more /\ product = Counted * FramesPerSlot
  BY <1>1, <1>2, <1>4
<1>7. /\ Kept + Counted <= nextId - 1 => Kept' + Counted' <= nextId' - 1
      /\ nextId - 1 <= Kept + product => nextId' - 1 <= Kept' + (product + more)
  <2>1. PICK k, k1, n, n1, m, m1 \in Nat :
            k = Kept /\ k1 = Kept' /\ n = nextId /\ n1 = nextId' /\ m = Counted /\ m1 = Counted'
    BY <1>1, <1>6
  <2>2. m1 = m + c /\ n1 + k = n + k1 + d
    BY <2>1
  <2>3. /\ k + m <= n - 1 => k1 + m1 <= n1 - 1
        /\ n - 1 <= k + product => n1 - 1 <= k1 + (product + more)
    BY <1>6, <2>2, LossBounds
  <2> QED BY <2>1, <2>3
<1>8. Kept' + Counted' <= nextId' - 1
  BY <1>1, <1>7
<1>9. drain' # "passed" => nextId' - 1 <= Kept' + Counted' * FramesPerSlot
  <2> SUFFICES ASSUME drain' # "passed" PROVE nextId' - 1 <= Kept' + Counted' * FramesPerSlot
    OBVIOUS
  <2>1. nextId - 1 <= Kept + product
    BY <1>1, <1>6
  <2>2. nextId' - 1 <= Kept' + (product + more)
    BY <1>7, <2>1
  <2> QED BY <1>5, <2>2
<1> QED BY <1>8, <1>9 DEF Counting, LossesCounted

LEMMA CountPublish ==
    ASSUME IInv, Counting, PublishFrame
    PROVE  Counting'
<1> USE DEF loopVars, transportVars, connVars
<1>1. PICK isKey \in BOOLEAN, size \in Sizes :
        LET packet == [id |-> nextId, key |-> isKey, size |-> size]
            reject == RejectIfOccupied(packet)
            result == PublishResult(queue, packet, reject)
        IN  /\ FrameLeavesEncoder(isKey)
            /\ queue' = JobsAfterPublish(queue, packet, reject)
            /\ producer' = IF result = "queued" THEN "encode" ELSE "overwrite"
  BY DEF PublishFrame
<1> DEFINE packet == [id |-> nextId, key |-> isKey, size |-> size]
           reject == RejectIfOccupied(packet)
           result == PublishResult(queue, packet, reject)
<1>2. packet \in Packet /\ nextId \in Nat
  BY DEF IInv, TypeOK, Packet
<1>3. reject \in BOOLEAN
  BY <1>2 DEF RejectIfOccupied, IsRgb, Packet
<1>4. /\ UNCHANGED <<dropped, accepted, job, pc, outcome, drain>>
      /\ producer = "encode" /\ nextId' = nextId + 1
  BY <1>1 DEF PublishFrame, FrameLeavesEncoder
<1>5. queue \in Seq(Packet) /\ Len(queue) <= FramesPerSlot
  BY DEF IInv, TypeOK, Counting
<1>6. /\ queue' = JobsAfterPublish(queue, packet, reject)
      /\ producer' = IF result = "queued" THEN "encode" ELSE "overwrite"
  BY <1>1
<1> HIDE DEF packet, reject
<1>7. /\ Len(queue') \in Nat /\ Len(queue') <= FramesPerSlot
      /\ result = "queued" => Len(queue') = Len(queue) + 1
      /\ result # "queued" => Len(queue') <= Len(queue)
      /\ Len(queue) + 1 <= Len(queue') + FramesPerSlot
  BY <1>2, <1>3, <1>5, <1>6, PublishLoses
<1> HIDE DEF result
<1>8. /\ FramesPerSlot \in Nat /\ Len(accepted) \in Nat /\ InHand \in Nat /\ Len(queue) \in Nat
      /\ dropped \in Nat
  BY QueueAssumption, LenProperties DEF IInv, TypeOK, InHand
<1>9. InHand' = InHand
  BY <1>4 DEF InHand
<1>10. PICK d \in Nat : Len(queue) + 1 = Len(queue') + d
  <2>1. Len(queue) + 1 - Len(queue') \in Nat
    BY <1>7, <1>8
  <2> QED BY <1>7, <1>8, <2>1
<1>11. PICK c \in {0, 1} : c = IF result = "queued" THEN 0 ELSE 1
  BY Zenon
<1>12. d <= c * FramesPerSlot /\ c <= d
  <2>1. CASE result = "queued"
    BY <1>7, <1>8, <1>10, <1>11, <2>1
  <2>2. CASE result # "queued"
    BY <1>7, <1>8, <1>10, <1>11, <2>2
  <2> QED BY <2>1, <2>2
<1>13. Counted' = Counted + c
  BY <1>4, <1>6, <1>8, <1>11 DEF Counted
<1>14. Kept' \in Nat /\ nextId' + Kept = nextId + Kept' + d /\ nextId' \in Nat
  BY <1>2, <1>4, <1>7, <1>8, <1>9, <1>10 DEF Kept
<1> QED BY <1>4, <1>7, <1>12, <1>13, <1>14, CountsKept

LEMMA CountStep ==
    ASSUME IInv, Counting, [Next]_vars
    PROVE  Counting'
<1> USE DEF producerVars, guardVars, loopVars, connVars, transportVars
<1>1. /\ FramesPerSlot \in Nat \ {0} /\ dropped \in Nat /\ nextId \in Nat
      /\ Len(accepted) \in Nat /\ Len(queue) \in Nat /\ Len(queue) <= FramesPerSlot
  BY QueueAssumption, LenProperties DEF IInv, TypeOK, Counting
<1>2. InHand \in {0, 1}
  BY DEF InHand
\* Steps after which everything is where it was.
<1>3. ASSUME UNCHANGED <<nextId, accepted, queue, dropped>>, InHand' = InHand,
             drain' # "passed" => drain # "passed",
             (producer' = "overwrite") <=> (producer = "overwrite")
      PROVE  Counting'
  BY <1>3 DEF Counting, LossesCounted, Kept, Counted
<1>4. CASE UNCHANGED vars
  BY <1>3, <1>4 DEF vars, InHand
<1>5. CASE Environment
  BY <1>3, <1>5 DEF Environment, TargetChanges, PeerCloses, DrainDeadlinePasses, InHand
<1>6. CASE JoinProducers \/ StopPath
  BY <1>3, <1>6 DEF JoinProducers, StopPath, InHand
<1>7. CASE RecordOverwrite
  <2>1. /\ UNCHANGED <<nextId, accepted, queue, job, pc, outcome, drain>>
        /\ producer = "overwrite" /\ producer' = "encode" /\ dropped' = dropped + 1
    BY <1>7 DEF RecordOverwrite
  <2>2. Kept' = Kept /\ Counted' = Counted
    BY <1>1, <2>1 DEF Kept, InHand, Counted
  <2> QED BY <2>1, <2>2 DEF Counting, LossesCounted
\* Steps in which one frame is lost and counted.
<1>8. ASSUME Len(queue') = Len(queue), drain' = drain, Counted' = Counted + 1,
             nextId' + Kept = nextId + Kept' + 1, Kept' \in Nat, nextId' \in Nat
      PROVE  Counting'
  <2>1. 1 <= 1 * FramesPerSlot
    BY <1>1
  <2> QED BY <1>1, <1>8, <2>1, CountsKept
<1>9. CASE DropRegressedFrame
  <2>1. /\ UNCHANGED <<accepted, queue, dropped, job, pc, outcome, drain>>
        /\ producer = "encode" /\ producer' = "overwrite" /\ nextId' = nextId + 1
    BY <1>9 DEF DropRegressedFrame, FrameLeavesEncoder
  <2>2. Kept' = Kept /\ Counted' = Counted + 1 /\ Kept \in Nat
    BY <1>1, <1>2, <2>1 DEF Kept, InHand, Counted
  <2> QED BY <1>1, <1>8, <2>1, <2>2
<1>10. CASE ResetLaggingEncoder
  <2>1. /\ UNCHANGED <<accepted, queue, producer, job, pc, outcome, drain>>
        /\ dropped' = dropped + 1 /\ nextId' = nextId + 1
    BY <1>10 DEF ResetLaggingEncoder, FrameLeavesEncoder
  <2>2. Kept' = Kept /\ Counted' = Counted + 1 /\ Kept \in Nat
    BY <1>1, <1>2, <2>1 DEF Kept, InHand, Counted
  <2> QED BY <1>1, <1>8, <2>1, <2>2
<1>11. CASE CheckRunning \/ TakeRetryJob \/ IdleCheck \/ RetainJob
  <2>1. /\ UNCHANGED <<nextId, accepted, queue, dropped, producer, job>>
        /\ drain' # "passed" => drain # "passed"
        /\ ~(pc = "result" /\ outcome = "sent") /\ pc' # "result"
    BY <1>11 DEF CheckRunning, TakeRetryJob, IdleCheck, RetainJob
  <2> QED BY <1>3, <2>1 DEF InHand
<1>12. CASE SendInterrupted \/ ConnectFails \/ DropBeforeWrite \/ SendYields \/ SendBreaks
  <2>1. /\ UNCHANGED <<nextId, accepted, queue, dropped, producer, job, drain>>
        /\ pc = "send" /\ pc' = "result" /\ outcome' # "sent"
    BY <1>12 DEF SendInterrupted, ConnectFails, DropBeforeWrite, SendYields, SendBreaks, Outcome
  <2> QED BY <1>3, <2>1 DEF InHand
<1>13. CASE PopQueue
  <2>1. /\ UNCHANGED <<nextId, accepted, dropped, producer, drain>>
        /\ job = NoJob /\ job' = Head(queue) /\ queue # <<>> /\ queue' = Tail(queue) /\ pc' = "decide"
    BY <1>13 DEF PopQueue
  <2>2. Len(queue') = Len(queue) - 1 /\ job' \in Packet /\ job' # NoJob /\ Len(queue) >= 1
    BY <1>1, <2>1, HeadTailProperties, EmptySeq, NoJobIsNoPacket DEF IInv, TypeOK
  <2>3. Kept' = Kept /\ Counted' = Counted
    BY <1>1, <2>1, <2>2 DEF Kept, InHand, Counted
  <2> QED BY <1>1, <2>1, <2>2, <2>3 DEF Counting, LossesCounted
<1>14. CASE DecideSend
  <2>1. /\ UNCHANGED <<nextId, accepted, queue, producer, drain>> /\ pc = "decide" /\ pc' # "result"
        /\ \/ job' = NoJob /\ dropped' = dropped + 1
           \/ UNCHANGED <<job, dropped>>
    BY <1>14 DEF DecideSend
  <2>2. job # NoJob
    BY <2>1, NoJobIsNoPacket DEF IInv, JobHeld
  <2>3. CASE UNCHANGED <<job, dropped>>
    BY <1>3, <2>1, <2>3 DEF InHand
  <2>4. CASE job' = NoJob /\ dropped' = dropped + 1
    <3>1. Kept' + 1 = Kept /\ Counted' = Counted + 1 /\ Kept' \in Nat
      BY <1>1, <2>1, <2>2, <2>4 DEF Kept, InHand, Counted
    <3> QED BY <1>1, <1>8, <2>1, <3>1 DEF Kept
  <2> QED BY <2>1, <2>3, <2>4
<1>15. CASE SendCompletes
  <2>1. /\ UNCHANGED <<nextId, queue, dropped, producer, job, drain>>
        /\ accepted' = Append(accepted, job) /\ pc = "send" /\ pc' = "result" /\ outcome' = "sent"
    BY <1>15 DEF SendCompletes, Outcome
  <2>2. job \in Packet /\ job # NoJob /\ accepted \in Seq(Packet)
    BY <2>1, NoJobIsNoPacket DEF IInv, JobHeld, TypeOK
  <2>3. Len(accepted') = Len(accepted) + 1
    BY <2>1, <2>2, AppendProperties
  <2>4. Kept' = Kept /\ Counted' = Counted
    BY <1>1, <2>1, <2>2, <2>3 DEF Kept, InHand, Counted
  <2> QED BY <2>1, <2>4 DEF Counting, LossesCounted
<1>16. CASE FinishJob
  <2>1. /\ UNCHANGED <<nextId, accepted, queue, dropped, producer, drain>>
        /\ pc = "result" /\ outcome = "sent" /\ job' = NoJob
    BY <1>16 DEF FinishJob
  <2> QED BY <1>3, <2>1 DEF InHand
<1>17. CASE FailJob
  <2>1. /\ UNCHANGED <<nextId, accepted, queue, producer, drain>>
        /\ pc = "result" /\ outcome = "failed" /\ pc' = "check"
        /\ job' = IF RetriesAfterFailure(job) THEN job ELSE NoJob
        /\ dropped' = IF IsRgb /\ ~RetriesAfterFailure(job) THEN dropped + 1 ELSE dropped
    BY <1>17 DEF FailJob
  <2>2. job # NoJob
    BY <2>1, NoJobIsNoPacket DEF IInv, JobHeld
  <2>3. CASE RetriesAfterFailure(job)
    BY <1>3, <2>1, <2>3 DEF InHand
  <2>4. CASE drain = "passed"
    <3>1. \/ Kept' <= Kept /\ Counted' = Counted /\ Kept \in Nat /\ Kept' \in Nat
          \/ Kept' + 1 = Kept /\ Counted' = Counted + 1 /\ Kept \in Nat /\ Kept' \in Nat
      BY <1>1, <2>1, <2>2 DEF Kept, InHand, Counted
    <3> QED BY <1>1, <2>1, <2>4, <3>1 DEF Counting, LossesCounted, Counted
  <2>5. CASE ~RetriesAfterFailure(job) /\ drain # "passed"
    <3>1. IsRgb
      BY <2>5 DEF RetriesAfterFailure
    <3>2. job' = NoJob /\ dropped' = dropped + 1
      BY <2>1, <2>5, <3>1
    <3>3. Kept' + 1 = Kept /\ Counted' = Counted + 1 /\ Kept' \in Nat
      BY <1>1, <2>1, <2>2, <3>2 DEF Kept, InHand, Counted
    <3> QED BY <1>1, <1>8, <2>1, <3>3
  <2> QED BY <2>3, <2>4, <2>5
<1>18. CASE Producer
  BY <1>6, <1>7, <1>9, <1>10, <1>18, CountPublish DEF Producer
<1>19. CASE Loop
  BY <1>11, <1>12, <1>13, <1>14, <1>15, <1>16, <1>17, <1>19 DEF Loop, SendMedia
<1> QED
  BY <1>4, <1>5, <1>18, <1>19 DEF Next, Stopped

\* For every queue and every set of packet sizes: the counter of lost frames counts
\* only lost ones; and until the drain deadline discards what is left, each count
\* stands for no more than a slotful, so that no loss goes without one.
THEOREM CountedLosses == Spec => []LossesCounted
<1>1. Init => Counting
  <2> SUFFICES ASSUME Init PROVE Counting
    OBVIOUS
  <2>1. /\ queue = <<>> /\ accepted = <<>> /\ job = NoJob /\ Len(<<>>) = 0
        /\ nextId = 1 /\ dropped = 0 /\ producer = "encode" /\ FramesPerSlot \in Nat
    BY EmptySeq, QueueAssumption DEF Init
  <2> QED
    BY <2>1 DEF Counting, LossesCounted, Kept, Counted, InHand
<1>2. IInv /\ Counting /\ [Next]_vars => Counting'
  BY CountStep
<1>3. Counting => LossesCounted
  BY DEF Counting
<1> QED
  BY <1>1, <1>2, <1>3, Invariance, PTL DEF Spec

\* With one frame per slot, as RGB is configured, the count is exact until the drain
\* deadline: a frame that has left the encoder is with the kernel, in the queue, in the
\* loop's hand, or counted as lost, and once only.
THEOREM CountedExactly ==
    ASSUME FramesPerSlot = 1
    PROVE  Spec => [](drain # "passed" => nextId - 1 = Kept + Counted)
<1>1. IInv /\ LossesCounted => (drain # "passed" => nextId - 1 = Kept + Counted)
  <2> SUFFICES ASSUME IInv, LossesCounted, drain # "passed"
               PROVE  nextId - 1 = Kept + Counted
    OBVIOUS
  <2>1. nextId \in Nat /\ Counted \in Nat
    BY DEF IInv, TypeOK, Counted
  <2>2. Kept \in Nat
    <3>1. Len(accepted) \in Nat /\ Len(queue) \in Nat /\ InHand \in Nat
      BY LenProperties DEF IInv, TypeOK, InHand
    <3> QED BY <3>1 DEF Kept
  <2>3. Kept + Counted <= nextId - 1 /\ nextId - 1 <= Kept + Counted * 1
    BY DEF LossesCounted
  <2> QED BY <2>1, <2>2, <2>3
<1> QED BY <1>1, CountedLosses, Invariance, PTL

-----------------------------------------------------------------------------
(***************************************************************************)
(* Decoding.  As long as the queue loses nothing, a P frame that waits is      *)
(* behind the frame it refers to: in the queue, in the loop's hand, or at the  *)
(* end of what is accepted.  The exceptions are a guard that is armed (the P   *)
(* frame will be dropped) and an encoder just built (its frame will be an IDR). *)
(***************************************************************************)
\* The packet is decodable right behind what is accepted.
After(packet) ==
    packet.key \/ (Len(accepted) > 0 /\ accepted[Len(accepted)].id = packet.id - 1)

SentIsLast == JustSent => Len(accepted) > 0 /\ accepted[Len(accepted)] = job
HeldFollows ==
    job # NoJob /\ ~JustSent =>
        After(job) \/ (pc = "decide" /\ waiting /\ pending = NoPending)
QueueChained ==
    \A i \in 2..Len(queue) : queue[i].key \/ queue[i - 1].id = queue[i].id - 1
HeadFollows ==
    Len(queue) > 0 =>
        IF job # NoJob THEN queue[1].key \/ job.id = queue[1].id - 1
        ELSE waiting \/ After(queue[1])
NewestIsLast ==
    \/ fresh
    \/ Len(queue) > 0 /\ queue[Len(queue)].id = nextId - 1
    \/ Len(queue) = 0 /\ job # NoJob /\ job.id = nextId - 1
    \/ Len(queue) = 0 /\ job = NoJob /\ waiting
    \/ /\ Len(queue) = 0 /\ job = NoJob
       /\ Len(accepted) > 0 /\ accepted[Len(accepted)].id = nextId - 1

StreamInv ==
    /\ producer # "overwrite"
    /\ Decodable /\ SentIsLast /\ HeldFollows /\ QueueChained /\ HeadFollows /\ NewestIsLast

\* Steps that move neither a packet nor the guard.
LEMMA StreamKept ==
    ASSUME StreamInv, UNCHANGED <<queue, accepted, nextId, job, fresh, waiting>>,
           producer' # "overwrite", JustSent' <=> JustSent,
           pc = "decide" => UNCHANGED <<pc, pending>>
    PROVE  StreamInv'
<1>1. Decodable' /\ QueueChained' /\ NewestIsLast'
  BY DEF StreamInv, Decodable, QueueChained, NewestIsLast
<1>2. SentIsLast' /\ HeldFollows' /\ HeadFollows'
  BY DEF StreamInv, SentIsLast, HeldFollows, HeadFollows, After
<1> QED BY <1>1, <1>2 DEF StreamInv

\* A publication that discards nothing puts the packet behind the others.
LEMMA PublishAppends ==
    ASSUME NEW jobs \in Seq(Packet), NEW packet \in Packet, NEW reject \in BOOLEAN,
           PublishResult(jobs, packet, reject) = "queued"
    PROVE  JobsAfterPublish(jobs, packet, reject) = Append(jobs, packet)
<1>1. ~Rejected(jobs, packet, reject) /\ ~(EvictCount(jobs, packet) > 0)
  BY DEF PublishResult
<1>2. EvictCount(jobs, packet) = 0 /\ Len(jobs) \in Nat
  BY <1>1, EvictCountBound, LenProperties
<1>3. Behind(jobs, 0) = jobs
  <2>1. SubSeq(jobs, 1, Len(jobs)) = jobs
    BY SubSeqFull
  <2> QED BY <1>2, <2>1 DEF Behind
<1> QED BY <1>1, <1>2, <1>3 DEF JobsAfterPublish

LEMMA StreamPublish ==
    ASSUME IsRgb, IInv, StreamInv, PublishFrame, producer' # "overwrite"
    PROVE  StreamInv'
<1> USE DEF loopVars, transportVars, connVars
<1>1. PICK isKey \in BOOLEAN, size \in Sizes :
        LET packet == [id |-> nextId, key |-> isKey, size |-> size]
            reject == RejectIfOccupied(packet)
            result == PublishResult(queue, packet, reject)
        IN  /\ FrameLeavesEncoder(isKey)
            /\ queue' = JobsAfterPublish(queue, packet, reject)
            /\ producer' = IF result = "queued" THEN "encode" ELSE "overwrite"
  BY DEF PublishFrame
<1> DEFINE packet == [id |-> nextId, key |-> isKey, size |-> size]
           reject == RejectIfOccupied(packet)
<1>2. packet \in Packet /\ nextId \in Nat /\ packet.id = nextId /\ packet.key = isKey
  BY DEF IInv, TypeOK, Packet
<1>3. reject \in BOOLEAN
  BY <1>2 DEF RejectIfOccupied, IsRgb, Packet
<1>4. /\ UNCHANGED <<waiting, accepted, job, pc, outcome, pending>>
      /\ nextId' = nextId + 1 /\ fresh' = FALSE /\ (fresh => isKey)
  BY <1>1 DEF PublishFrame, FrameLeavesEncoder
<1>5. /\ queue' = JobsAfterPublish(queue, packet, reject)
      /\ PublishResult(queue, packet, reject) = "queued"
  BY <1>1
<1> HIDE DEF packet, reject
<1>6. queue \in Seq(Packet) /\ Len(queue) \in Nat
  BY LenProperties DEF IInv, TypeOK
<1>7. queue' = Append(queue, packet)
  BY <1>2, <1>3, <1>5, <1>6, PublishAppends
<1>8. /\ Len(queue') = Len(queue) + 1 /\ queue'[Len(queue) + 1] = packet
      /\ \A i \in 1..Len(queue) : queue'[i] = queue[i]
  BY <1>2, <1>6, <1>7, AppendProperties
<1>9. Decodable' /\ SentIsLast' /\ HeldFollows'
  BY <1>4 DEF StreamInv, Decodable, SentIsLast, HeldFollows, After, JustSent
<1>10. NewestIsLast'
  BY <1>2, <1>4, <1>6, <1>8 DEF NewestIsLast
\* The packet is an IDR or follows the newest frame.
<1>11. Len(queue) > 0 => packet.key \/ queue[Len(queue)].id = packet.id - 1
  BY <1>2, <1>4, <1>6 DEF StreamInv, NewestIsLast
<1>12. Len(queue) = 0 =>
          IF job # NoJob THEN packet.key \/ job.id = packet.id - 1
          ELSE waiting \/ After(packet)
  BY <1>2, <1>4 DEF StreamInv, NewestIsLast, After
<1>13. QueueChained'
  <2> SUFFICES ASSUME NEW i \in 2..Len(queue')
               PROVE  queue'[i].key \/ queue'[i - 1].id = queue'[i].id - 1
    BY DEF QueueChained
  <2>1. CASE i = Len(queue) + 1
    <3>1. queue'[i] = packet /\ queue'[i - 1] = queue[Len(queue)] /\ Len(queue) > 0
      BY <1>6, <1>8, <2>1
    <3> QED BY <1>11, <3>1
  <2>2. CASE i # Len(queue) + 1
    <3>1. i \in 2..Len(queue) /\ queue'[i] = queue[i] /\ queue'[i - 1] = queue[i - 1]
      BY <1>6, <1>8, <2>2
    <3> QED BY <3>1 DEF StreamInv, QueueChained
  <2> QED BY <2>1, <2>2
<1>14. HeadFollows'
  <2>1. CASE Len(queue) = 0
    <3>1. queue'[1] = packet
      BY <1>8, <2>1
    <3> QED BY <1>4, <1>12, <2>1, <3>1 DEF HeadFollows, After
  <2>2. CASE Len(queue) > 0
    <3>1. queue'[1] = queue[1]
      BY <1>6, <1>8, <2>2
    <3> QED BY <1>4, <2>2, <3>1 DEF StreamInv, HeadFollows, After
  <2> QED BY <1>6, <2>1, <2>2
<1> QED BY <1>9, <1>10, <1>13, <1>14 DEF StreamInv

LEMMA StreamPop ==
    ASSUME IInv, StreamInv, PopQueue
    PROVE  StreamInv'
<1> USE DEF producerVars, guardVars, loopVars, connVars, transportVars
<1>1. /\ UNCHANGED <<nextId, accepted, producer, waiting, fresh, pending>>
      /\ job = NoJob /\ job' = Head(queue) /\ queue # <<>> /\ queue' = Tail(queue)
      /\ pc = "take" /\ pc' = "decide"
  BY DEF PopQueue
<1>2. queue \in Seq(Packet) /\ Len(queue) \in Nat /\ Len(queue) > 0
  BY <1>1, LenProperties, EmptySeq DEF IInv, TypeOK
<1>3. /\ Len(queue') = Len(queue) - 1 /\ job' = queue[1] /\ job' \in Packet
      /\ \A i \in 1..Len(queue') : queue'[i] = queue[i + 1]
  BY <1>1, <1>2, HeadTailProperties
<1>4. job' # NoJob
  BY <1>3, NoJobIsNoPacket
<1>5. pending' = NoPending
  <2>1. pending # NoPending => pending.packet \in Packet
    BY DEF IInv, TypeOK
  <2> QED BY <1>1, <2>1, NoJobIsNoPacket DEF IInv, PendingInv
<1>6. Decodable'
  BY <1>1 DEF StreamInv, Decodable
<1>7. SentIsLast' /\ HeldFollows'
  BY <1>1, <1>2, <1>3, <1>5 DEF StreamInv, SentIsLast, HeadFollows, HeldFollows, JustSent, After
<1>8. QueueChained'
  <2> SUFFICES ASSUME NEW i \in 2..Len(queue')
               PROVE  queue'[i].key \/ queue'[i - 1].id = queue'[i].id - 1
    BY DEF QueueChained
  <2>1. i + 1 \in 2..Len(queue) /\ queue'[i] = queue[i + 1] /\ queue'[i - 1] = queue[(i + 1) - 1]
    BY <1>2, <1>3
  <2> QED BY <2>1 DEF StreamInv, QueueChained
<1>9. HeadFollows'
  <2> SUFFICES ASSUME Len(queue') > 0 PROVE queue'[1].key \/ job'.id = queue'[1].id - 1
    BY <1>4 DEF HeadFollows
  <2>1. 2 \in 2..Len(queue) /\ queue'[1] = queue[2] /\ job' = queue[2 - 1]
    BY <1>2, <1>3
  <2> QED BY <2>1 DEF StreamInv, QueueChained
<1>10. NewestIsLast'
  <2>1. CASE Len(queue) = 1
    BY <1>1, <1>3, <1>4, <2>1 DEF StreamInv, NewestIsLast
  <2>2. CASE Len(queue) # 1
    <3>1. Len(queue') > 0 /\ queue'[Len(queue')] = queue[Len(queue)]
      BY <1>2, <1>3, <2>2
    <3> QED BY <1>1, <1>2, <3>1 DEF StreamInv, NewestIsLast
  <2> QED BY <2>1, <2>2
<1> QED BY <1>1, <1>6, <1>7, <1>8, <1>9, <1>10 DEF StreamInv

LEMMA StreamAccepts ==
    ASSUME IInv, StreamInv, SendCompletes
    PROVE  StreamInv'
<1> USE DEF producerVars, guardVars, loopVars, connVars, transportVars
<1>1. /\ UNCHANGED <<nextId, queue, producer, waiting, fresh, job>>
      /\ accepted' = Append(accepted, job)
      /\ pc = "send" /\ JustSent'
  BY DEF SendCompletes, Outcome, JustSent
<1>2. job \in Packet /\ job # NoJob /\ accepted \in Seq(Packet) /\ Len(accepted) \in Nat
  BY <1>1, NoJobIsNoPacket, LenProperties DEF IInv, JobHeld, TypeOK
<1>3. /\ Len(accepted') = Len(accepted) + 1 /\ accepted'[Len(accepted) + 1] = job
      /\ \A i \in 1..Len(accepted) : accepted'[i] = accepted[i]
  BY <1>1, <1>2, AppendProperties
<1>4. After(job)
  BY <1>1, <1>2 DEF StreamInv, HeldFollows, JustSent
<1>5. Decodable'
  <2> SUFFICES ASSUME NEW i \in 1..Len(accepted')
               PROVE  accepted'[i].key \/ (i > 1 /\ accepted'[i - 1].id = accepted'[i].id - 1)
    BY DEF Decodable
  <2>1. CASE i = Len(accepted) + 1
    <3>1. accepted'[i] = job
      BY <1>3, <2>1
    <3>2. CASE job.key
      BY <3>1, <3>2
    <3>3. CASE ~job.key
      <4>1. Len(accepted) > 0 /\ accepted[Len(accepted)].id = job.id - 1
        BY <1>4, <3>3 DEF After
      <4>2. i > 1 /\ accepted'[i - 1] = accepted[Len(accepted)]
        BY <1>2, <1>3, <2>1, <4>1
      <4> QED BY <3>1, <4>1, <4>2
    <3> QED BY <3>2, <3>3
  <2>2. CASE i # Len(accepted) + 1
    <3>1. i \in 1..Len(accepted) /\ accepted'[i] = accepted[i]
      BY <1>2, <1>3, <2>2
    <3>2. i > 1 => accepted'[i - 1] = accepted[i - 1]
      BY <1>2, <1>3, <3>1
    <3> QED BY <3>1, <3>2 DEF StreamInv, Decodable
  <2> QED BY <2>1, <2>2
<1>6. SentIsLast' /\ HeldFollows'
  BY <1>1, <1>2, <1>3 DEF SentIsLast, HeldFollows
<1>7. QueueChained' /\ HeadFollows' /\ NewestIsLast'
  BY <1>1, <1>2 DEF StreamInv, QueueChained, HeadFollows, NewestIsLast
<1> QED BY <1>1, <1>5, <1>6, <1>7 DEF StreamInv

\* The loop lets its packet go: sent, refused by the guard, or failed for good.
LEMMA StreamLets ==
    ASSUME StreamInv, UNCHANGED <<queue, accepted, nextId, fresh, producer>>, job' = NoJob,
           job # NoJob, ~JustSent', JustSent \/ waiting'
    PROVE  StreamInv'
<1>1. Decodable' /\ SentIsLast' /\ HeldFollows' /\ QueueChained'
  BY DEF StreamInv, Decodable, SentIsLast, HeldFollows, QueueChained
<1>2. HeadFollows' /\ NewestIsLast'
  <2>1. CASE waiting'
    BY <2>1 DEF StreamInv, HeadFollows, NewestIsLast
  <2>2. CASE JustSent
    <3>1. Len(accepted) > 0 /\ accepted[Len(accepted)] = job
      BY <2>2 DEF StreamInv, SentIsLast
    <3>2. HeadFollows'
      BY <3>1 DEF StreamInv, HeadFollows, After
    <3>3. NewestIsLast'
      BY <3>1 DEF StreamInv, NewestIsLast
    <3> QED BY <3>2, <3>3
  <2> QED BY <2>1, <2>2
<1> QED BY <1>1, <1>2 DEF StreamInv

LEMMA StreamStep ==
    ASSUME IsRgb, IInv, StreamInv, [Next /\ producer' # "overwrite"]_vars
    PROVE  StreamInv'
<1> USE DEF producerVars, guardVars, loopVars, connVars, transportVars
<1>1. producer # "overwrite" /\ producer' # "overwrite"
  BY DEF StreamInv, vars
<1>2. CASE UNCHANGED vars
  BY <1>1, <1>2, StreamKept DEF vars, JustSent
<1>3. CASE Environment \/ JoinProducers \/ StopPath
  BY <1>1, <1>3, StreamKept
     DEF Environment, TargetChanges, PeerCloses, DrainDeadlinePasses, JoinProducers, StopPath, JustSent
<1>4. CASE ResetLaggingEncoder
  <2>1. UNCHANGED <<queue, accepted, job, pc, outcome, waiting, pending>> /\ fresh' = TRUE
    BY <1>4 DEF ResetLaggingEncoder
  <2>2. Decodable' /\ SentIsLast' /\ HeldFollows' /\ QueueChained' /\ HeadFollows'
    BY <2>1 DEF StreamInv, Decodable, SentIsLast, HeldFollows, QueueChained, HeadFollows, After, JustSent
  <2> QED BY <1>1, <2>1, <2>2 DEF StreamInv, NewestIsLast
<1>5. CASE CheckRunning \/ TakeRetryJob \/ IdleCheck \/ RetainJob
  <2>1. /\ UNCHANGED <<queue, accepted, nextId, job, fresh, waiting>>
        /\ pc # "decide" /\ ~JustSent /\ ~JustSent'
    BY <1>5 DEF CheckRunning, TakeRetryJob, IdleCheck, RetainJob, JustSent
  <2> QED BY <1>1, <2>1, StreamKept
<1>6. CASE SendInterrupted \/ ConnectFails \/ DropBeforeWrite \/ SendYields \/ SendBreaks
  <2>1. /\ UNCHANGED <<queue, accepted, nextId, job, fresh, waiting>>
        /\ pc # "decide" /\ ~JustSent /\ ~JustSent'
    BY <1>6 DEF SendInterrupted, ConnectFails, DropBeforeWrite, SendYields, SendBreaks, Outcome, JustSent
  <2> QED BY <1>1, <2>1, StreamKept
<1>7. CASE DecideSend
  <2>1. /\ UNCHANGED <<queue, accepted, nextId, fresh, producer, waiting, pending>>
        /\ pc = "decide" /\ job # NoJob
    BY <1>7, NoJobIsNoPacket DEF DecideSend, IInv, JobHeld
  <2>2. CASE GuardDrops
    <3>1. job' = NoJob /\ pc' = "check" /\ waiting'
      BY <1>7, <2>1, <2>2 DEF DecideSend, GuardDrops
    <3> QED BY <2>1, <3>1, StreamLets DEF JustSent
  <2>3. CASE ~GuardDrops
    <3>1. job' = job /\ pc' = "send"
      BY <1>7, <2>3 DEF DecideSend
    <3>2. After(job)
      BY <2>1, <2>3 DEF GuardDrops, StreamInv, HeldFollows, After, JustSent
    <3>3. Decodable' /\ SentIsLast' /\ HeldFollows' /\ QueueChained'
      BY <2>1, <3>1, <3>2 DEF StreamInv, Decodable, SentIsLast, HeldFollows, QueueChained, After, JustSent
    <3>4. HeadFollows' /\ NewestIsLast'
      BY <2>1, <3>1 DEF StreamInv, HeadFollows, NewestIsLast
    <3> QED BY <1>1, <3>3, <3>4 DEF StreamInv
  <2> QED BY <2>2, <2>3
<1>8. CASE FinishJob
  <2>1. /\ UNCHANGED <<queue, accepted, nextId, fresh, producer>>
        /\ JustSent /\ ~JustSent' /\ job' = NoJob /\ job # NoJob
    BY <1>8, NoJobIsNoPacket DEF FinishJob, JustSent, IInv, JobHeld
  <2> QED BY <2>1, StreamLets
<1>9. CASE FailJob
  <2>1. /\ UNCHANGED <<queue, accepted, nextId, fresh, producer>>
        /\ ~JustSent /\ ~JustSent' /\ job # NoJob /\ waiting' /\ pc = "result"
        /\ job' = IF RetriesAfterFailure(job) THEN job ELSE NoJob
    BY <1>9, NoJobIsNoPacket DEF FailJob, JustSent, IInv, JobHeld
  <2>2. CASE ~RetriesAfterFailure(job)
    BY <2>1, <2>2, StreamLets
  <2>3. CASE RetriesAfterFailure(job)
    <3>1. job.key /\ job' = job
      BY <2>1, <2>3 DEF RetriesAfterFailure
    <3>2. Decodable' /\ SentIsLast' /\ HeldFollows' /\ QueueChained'
      BY <2>1, <3>1 DEF StreamInv, Decodable, SentIsLast, HeldFollows, QueueChained, After
    <3>3. HeadFollows' /\ NewestIsLast'
      BY <2>1, <3>1 DEF StreamInv, HeadFollows, NewestIsLast
    <3> QED BY <1>1, <3>2, <3>3 DEF StreamInv
  <2> QED BY <2>2, <2>3
<1>10. CASE DropRegressedFrame \/ RecordOverwrite
  BY <1>1, <1>10 DEF DropRegressedFrame, RecordOverwrite
<1>11. CASE Producer
  BY <1>1, <1>3, <1>4, <1>10, <1>11, StreamPublish DEF Producer
<1>12. CASE Loop
  BY <1>5, <1>6, <1>7, <1>8, <1>9, <1>12, StreamPop, StreamAccepts DEF Loop, SendMedia
<1> QED
  BY <1>2, <1>3, <1>11, <1>12 DEF Next, Stopped

\* Decodable as far as it holds: on an RGB path, with or without a recording buffer,
\* whose queue loses no frame and whose timing never regresses, every P frame the
\* kernel takes directly follows the frame it refers to, whatever the link, the
\* retries, the guard, a rebuilt encoder and the drain deadline do.
THEOREM DecodableUnlessOverwritten ==
    ASSUME IsRgb
    PROVE  Spec /\ [][producer' # "overwrite"]_vars => []Decodable
<1>1. Init => StreamInv
  <2> SUFFICES ASSUME Init PROVE StreamInv
    OBVIOUS
  <2>1. /\ Len(queue) = 0 /\ Len(accepted) = 0 /\ job = NoJob /\ fresh /\ ~JustSent
        /\ producer # "overwrite"
    BY EmptySeq DEF Init, JustSent
  <2> QED
    BY <2>1 DEF StreamInv, Decodable, SentIsLast, HeldFollows, QueueChained, HeadFollows, NewestIsLast
<1>2. IInv /\ StreamInv /\ [Next /\ producer' # "overwrite"]_vars => StreamInv'
  BY StreamStep
<1>3. [Next]_vars /\ [producer' # "overwrite"]_vars => [Next /\ producer' # "overwrite"]_vars
  OBVIOUS
<1>4. StreamInv => Decodable
  BY DEF StreamInv
<1> QED
  BY <1>1, <1>2, <1>3, <1>4, Invariance, PTL DEF Spec

-----------------------------------------------------------------------------
\* With one packet per slot, an overwrite that leaves the guard alone leaves only an
\* IDR in the queue.
UnarmedIsKey ==
    /\ Counting
    /\ producer = "overwrite" /\ ~overwrite => \A i \in 1..Len(queue) : queue[i].key

LEMMA UnarmedStep ==
    ASSUME IsRgb, FramesPerSlot = 1, IInv, UnarmedIsKey, [Next]_vars
    PROVE  UnarmedIsKey'
<1> USE DEF producerVars, guardVars, loopVars, connVars, transportVars
<1>1. Counting'
  BY CountStep DEF UnarmedIsKey
<1>2. ASSUME UNCHANGED <<queue, producer, overwrite>>
      PROVE  UnarmedIsKey'
  BY <1>1, <1>2 DEF UnarmedIsKey
<1>3. ASSUME producer' # "overwrite" \/ overwrite'
      PROVE  UnarmedIsKey'
  BY <1>1, <1>3 DEF UnarmedIsKey
<1>4. CASE UNCHANGED vars \/ Environment
  BY <1>2, <1>4 DEF vars, Environment, TargetChanges, PeerCloses, DrainDeadlinePasses
<1>5. CASE DropRegressedFrame \/ ResetLaggingEncoder \/ RecordOverwrite \/ JoinProducers \/ StopPath
  BY <1>2, <1>3, <1>5
     DEF DropRegressedFrame, ResetLaggingEncoder, RecordOverwrite, JoinProducers, StopPath
<1>6. CASE PublishFrame
  <2> SUFFICES ASSUME producer' = "overwrite", ~overwrite'
               PROVE  \A i \in 1..Len(queue') : queue'[i].key
    BY <1>1 DEF UnarmedIsKey
  <2>1. PICK isKey \in BOOLEAN, size \in Sizes :
          LET packet == [id |-> nextId, key |-> isKey, size |-> size]
              reject == RejectIfOccupied(packet)
              result == PublishResult(queue, packet, reject)
          IN  /\ queue' = JobsAfterPublish(queue, packet, reject)
              /\ producer' = IF result = "queued" THEN "encode" ELSE "overwrite"
              /\ overwrite' = ArmsGuard(result, packet)
    BY <1>6 DEF PublishFrame
  <2> DEFINE packet == [id |-> nextId, key |-> isKey, size |-> size]
             reject == RejectIfOccupied(packet)
             n == EvictCount(queue, packet)
  <2>2. packet \in Packet
    BY DEF IInv, TypeOK, Packet
  <2>3. queue \in Seq(Packet) /\ n \in 0..Len(queue) /\ Len(queue) \in Nat
    BY EvictCountBound, LenProperties DEF IInv, TypeOK
  <2>4. /\ queue' = JobsAfterPublish(queue, packet, reject)
        /\ PublishResult(queue, packet, reject) # "queued"
        /\ ~ArmsGuard(PublishResult(queue, packet, reject), packet)
    BY <2>1
  <2>5. ~Rejected(queue, packet, reject) /\ packet.key
    BY <2>4 DEF ArmsGuard, PublishResult
  <2>6. queue' = Append(Behind(queue, n), packet)
    BY <2>4, <2>5 DEF JobsAfterPublish
  <2>7. Behind(queue, n) \in Seq(Packet)
    <3> HIDE DEF n
    <3>1. \A i \in (n + 1)..Len(queue) : queue[i] \in Packet
      BY <2>3, ElementOfSeq
    <3> QED BY <2>3, <3>1, SubSeqProperties DEF Behind
  <2> HIDE DEF n, packet, reject
  <2>8. Len(Behind(queue, n)) \in Nat /\ Len(queue') = Len(Behind(queue, n)) + 1
        /\ queue'[Len(Behind(queue, n)) + 1] = packet
    BY <2>2, <2>6, <2>7, AppendProperties, LenProperties
  <2>9. Len(queue') <= 1
    BY <1>1 DEF Counting
  <2>10. \A i \in 1..Len(queue') : queue'[i] = packet
    BY <2>8, <2>9
  <2> QED BY <2>5, <2>10
<1>7. CASE PopQueue
  <2>1. queue # <<>> /\ queue' = Tail(queue) /\ UNCHANGED <<producer, overwrite>>
    BY <1>7 DEF PopQueue
  <2>2. queue \in Seq(Packet) /\ Len(queue) \in Nat /\ Len(queue) > 0
    BY <2>1, LenProperties, EmptySeq DEF IInv, TypeOK
  <2>3. Len(queue') = Len(queue) - 1 /\ \A i \in 1..Len(queue') : queue'[i] = queue[i + 1]
    BY <2>1, <2>2, HeadTailProperties
  <2>4. \A i \in 1..Len(queue') : i + 1 \in 1..Len(queue)
    BY <2>2, <2>3
  <2> QED BY <1>1, <2>1, <2>3, <2>4 DEF UnarmedIsKey
<1>8. CASE CheckRunning \/ TakeRetryJob \/ IdleCheck \/ DecideSend \/ RetainJob \/ FinishJob \/ FailJob
  BY <1>2, <1>8 DEF CheckRunning, TakeRetryJob, IdleCheck, DecideSend, RetainJob, FinishJob, FailJob
<1>9. CASE SendMedia
  BY <1>2, <1>9
     DEF SendMedia, SendInterrupted, ConnectFails, DropBeforeWrite, SendCompletes, SendYields, SendBreaks
<1>10. CASE Producer
  BY <1>5, <1>6, <1>10 DEF Producer
<1>11. CASE Loop
  BY <1>7, <1>8, <1>9, <1>11 DEF Loop
<1> QED
  BY <1>4, <1>10, <1>11 DEF Next, Stopped

\* OverwriteIsGuarded as far as it holds: on an RGB path with one packet per slot (the
\* code's choice without a recording buffer), when the camera thread has dealt with
\* an overwrite, a P frame at the head of the queue whose reference frame is gone
\* finds the guard armed.
THEOREM SingleSlotIsGuarded ==
    ASSUME IsRgb, FramesPerSlot = 1
    PROVE  Spec => OverwriteIsGuarded
<1>1. Init => UnarmedIsKey
  <2> SUFFICES ASSUME Init PROVE UnarmedIsKey
    OBVIOUS
  <2>1. /\ queue = <<>> /\ accepted = <<>> /\ job = NoJob /\ Len(<<>>) = 0
        /\ nextId = 1 /\ dropped = 0 /\ producer = "encode" /\ FramesPerSlot \in Nat
    BY EmptySeq, QueueAssumption DEF Init
  <2> QED
    BY <2>1 DEF UnarmedIsKey, Counting, LossesCounted, Kept, Counted, InHand
<1>2. IInv /\ UnarmedIsKey /\ [Next]_vars => UnarmedIsKey'
  BY UnarmedStep
<1>3. IInv /\ UnarmedIsKey /\ [Next]_vars
        => [producer = "overwrite" /\ producer' = "encode" /\ ReferenceGone' => waiting']_vars
  <2> SUFFICES ASSUME IInv, UnarmedIsKey, Next, producer = "overwrite", producer' = "encode",
                      ReferenceGone', ~waiting'
               PROVE  FALSE
    OBVIOUS
  <2> USE DEF producerVars, guardVars, loopVars, connVars, transportVars
  <2>1. RecordOverwrite
    BY DEF Next, Producer, PublishFrame, DropRegressedFrame, ResetLaggingEncoder, FrameLeavesEncoder,
           JoinProducers, StopPath, Loop, CheckRunning, TakeRetryJob, PopQueue, IdleCheck, DecideSend,
           SendMedia, SendInterrupted, ConnectFails, DropBeforeWrite, SendCompletes, SendYields,
           SendBreaks, RetainJob, FinishJob, FailJob, Environment, TargetChanges, PeerCloses,
           DrainDeadlinePasses, Stopped, vars
  <2>2. queue' = queue /\ ~overwrite
    BY <2>1 DEF RecordOverwrite
  <2>3. queue # <<>> /\ ~Head(queue).key
    BY <2>2 DEF ReferenceGone
  <2>4. queue \in Seq(Packet) /\ Len(queue) \in Nat /\ Len(queue) > 0
    BY <2>3, LenProperties, EmptySeq DEF IInv, TypeOK
  <2>5. Head(queue) = queue[1] /\ 1 \in 1..Len(queue)
    BY <2>3, <2>4, HeadTailProperties
  <2> QED BY <2>2, <2>3, <2>5 DEF UnarmedIsKey
<1> QED
  BY <1>1, <1>2, <1>3, Invariance, PTL DEF Spec, OverwriteIsGuarded
=============================================================================
