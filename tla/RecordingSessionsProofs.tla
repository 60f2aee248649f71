----------------------- MODULE RecordingSessionsProofs -----------------------
(***************************************************************************)
(* Proofs about RecordingSessions for every set of cameras and senders and any  *)
(* number of packets, requests and failures: one close task works on a camera,  *)
(* an open input and an open segment belong to somebody, a tail that is drained *)
(* stays open, session numbers are handed out once, start-all has one session,  *)
(* and, unless a write fails, a segment holds one session.                    *)
(***************************************************************************)
EXTENDS RecordingMC, FiniteSetTheorems, SequenceTheorems, TLAPS

CameraRecord ==
    [requested : BOOLEAN, pending : BOOLEAN, started : BOOLEAN, session : Nat,
     accepting : BOOLEAN, generation : Nat, finalizing : BOOLEAN, active : BOOLEAN,
     tail : Nat, storageFailed : BOOLEAN]

ControlRecord == [all : BOOLEAN, pending : BOOLEAN, session : Nat, last : Nat]

Task == [pc : {"tail", "queue", "detach", "finish"}, reason : {"stop", "idle", "storage"}]

\* Who an open input belongs to (InputHasOwner, for one camera), and that only a
\* task drains a tail.
Owned(cm) ==
    /\ cm.tail # 0 => cm.finalizing
    /\ cm.accepting /\ cm.tail = 0 => cm.requested /\ ~cm.finalizing /\ HasWindow(cm)

-----------------------------------------------------------------------------
\* Activation of the requested recordings

\* What an activation does to one camera.
LEMMA AcceptingType ==
    ASSUME NEW cm \in CameraRecord, NEW on \in BOOLEAN
    PROVE  /\ Accepting(cm, on) \in CameraRecord
           /\ Accepting(cm, on).accepting = on
           /\ Accepting(cm, on).requested = cm.requested
           /\ Accepting(cm, on).finalizing = cm.finalizing
           /\ Accepting(cm, on).tail = cm.tail
           /\ Accepting(cm, on).started = cm.started
           /\ Accepting(cm, on).session = cm.session
<1>1. CASE cm.accepting = on
  BY <1>1 DEF Accepting
<1>2. CASE cm.accepting # on
  <2> DEFINE next == [cm EXCEPT !.accepting = on, !.generation = @ + 1]
  <2>1. Accepting(cm, on) = next
    BY <1>2 DEF Accepting
  <2>2. cm.generation + 1 \in Nat
    BY DEF CameraRecord
  <2>3. /\ next \in CameraRecord
        /\ next.accepting = on /\ next.requested = cm.requested
        /\ next.finalizing = cm.finalizing /\ next.tail = cm.tail
        /\ next.started = cm.started /\ next.session = cm.session
    BY <2>2 DEF CameraRecord
  <2> QED BY <2>1, <2>3
<1> QED
  BY <1>1, <1>2

\* A camera after an activation: what did not change, and who owns its input.
SameOwner(cm, next) ==
    /\ next \in CameraRecord /\ Owned(next)
    /\ next.requested = cm.requested
    /\ next.finalizing = cm.finalizing
    /\ next.tail = cm.tail

\* A camera that is opened for a session.
Begun(cm, id) ==
    Accepting([cm EXCEPT !.started = TRUE, !.pending = FALSE, !.session = id], TRUE)

LEMMA BegunOwned ==
    ASSUME NEW cm \in CameraRecord, Owned(cm), cm.requested, ~cm.finalizing,
           NEW id \in Nat, id # 0
    PROVE  SameOwner(cm, Begun(cm, id))
<1> DEFINE cm1 == [cm EXCEPT !.started = TRUE, !.pending = FALSE, !.session = id]
           next == Begun(cm, id)
<1>1. /\ cm1 \in CameraRecord /\ cm1.started = TRUE /\ cm1.session = id
      /\ cm1.requested = cm.requested /\ cm1.finalizing = cm.finalizing
      /\ cm1.tail = cm.tail
  BY DEF CameraRecord
<1>2. next = Accepting(cm1, TRUE)
  BY DEF Begun
<1> HIDE DEF cm1, next
<1>3. /\ next \in CameraRecord /\ next.started = TRUE /\ next.session = id
      /\ next.requested = cm.requested /\ next.finalizing = cm.finalizing
      /\ next.tail = cm.tail
  BY <1>1, <1>2, AcceptingType
<1>4. next.started /\ next.session # 0
  BY <1>3
<1>5. SameOwner(cm, next)
  BY <1>3, <1>4 DEF Owned, HasWindow, SameOwner
<1> QED
  BY <1>5 DEF next

LEMMA ActivateEachOwned ==
    ASSUME NEW k \in ControlRecord, NEW m \in [Cameras -> CameraRecord],
           NEW s \in SUBSET Cameras, \A c \in Cameras : Owned(m[c])
    PROVE  /\ ActivateEach(k, m, s).ctl \in ControlRecord
           /\ ActivateEach(k, m, s).cam \in [Cameras -> CameraRecord]
           /\ \A c \in Cameras : SameOwner(m[c], ActivateEach(k, m, s).cam[c])
<1> DEFINE fresh == {c \in s : MayOpen(m[c]) /\ ~HasWindow(m[c])}
           before(c) == {d \in fresh : d <= c}
           id(c) == k.last + Cardinality(before(c))
           next(c) == IF c \in s /\ MayOpen(m[c])
                      THEN Accepting([m[c] EXCEPT !.started = TRUE, !.pending = FALSE,
                                        !.session = IF c \in fresh THEN id(c) ELSE @], TRUE)
                      ELSE m[c]
<1>1. IsFiniteSet(fresh) /\ Cardinality(fresh) \in Nat
  BY RecordingAssumption, FS_Subset, FS_CardinalityType
<1>2. ASSUME NEW c \in fresh PROVE id(c) \in Nat /\ id(c) # 0
  <2>1. before(c) \in SUBSET fresh /\ c \in before(c)
    BY RecordingAssumption
  <2>2. IsFiniteSet(before(c)) /\ before(c) # {}
    BY <1>1, <2>1, FS_Subset
  <2>3. Cardinality(before(c)) \in Nat /\ Cardinality(before(c)) # 0
    BY <2>2, FS_CardinalityType, FS_EmptySet
  <2>4. k.last \in Nat
    BY DEF ControlRecord
  <2> QED BY <2>3, <2>4
<1>3. ASSUME NEW c \in Cameras PROVE SameOwner(m[c], next(c))
  <2> DEFINE session == IF c \in fresh THEN id(c) ELSE m[c].session
  <2>1. CASE c \in s /\ MayOpen(m[c])
    <3>1. session \in Nat /\ session # 0
      BY <1>2, <2>1 DEF HasWindow, CameraRecord
    <3>2. next(c) = Begun(m[c], session)
      BY <2>1 DEF Begun
    <3>3. m[c] \in CameraRecord /\ Owned(m[c]) /\ m[c].requested /\ ~m[c].finalizing
      BY <2>1 DEF MayOpen
    <3> HIDE DEF next, session
    <3> QED BY <3>1, <3>2, <3>3, BegunOwned
  <2>2. CASE ~(c \in s /\ MayOpen(m[c]))
    BY <2>2 DEF SameOwner
  <2> QED BY <2>1, <2>2
<1>4. /\ ActivateEach(k, m, s).ctl = [k EXCEPT !.last = @ + Cardinality(fresh)]
      /\ ActivateEach(k, m, s).cam = [c \in Cameras |-> next(c)]
  BY DEF ActivateEach
<1>5. [k EXCEPT !.last = @ + Cardinality(fresh)] \in ControlRecord
  <2>1. k.last + Cardinality(fresh) \in Nat
    BY <1>1 DEF ControlRecord
  <2> HIDE DEF fresh
  <2> QED BY <2>1 DEF ControlRecord
<1> HIDE DEF fresh, before, id, next
<1> QED
  BY <1>3, <1>4, <1>5 DEF SameOwner

LEMMA AwaitDetachOwned ==
    ASSUME NEW k \in ControlRecord, NEW m \in [Cameras -> CameraRecord],
           NEW s \in SUBSET Cameras, \A c \in Cameras : Owned(m[c])
    PROVE  /\ AwaitDetach(k, m, s).ctl \in ControlRecord
           /\ AwaitDetach(k, m, s).cam \in [Cameras -> CameraRecord]
           /\ \A c \in Cameras : SameOwner(m[c], AwaitDetach(k, m, s).cam[c])
<1> DEFINE next(c) == IF c \in s /\ m[c].requested /\ ~(m[c].accepting /\ HasWindow(m[c]))
                      THEN [m[c] EXCEPT !.pending = TRUE] ELSE m[c]
<1>1. /\ AwaitDetach(k, m, s).ctl = [k EXCEPT !.pending = TRUE]
      /\ AwaitDetach(k, m, s).cam = [c \in Cameras |-> next(c)]
  BY DEF AwaitDetach
<1>2. ASSUME NEW c \in Cameras PROVE SameOwner(m[c], next(c))
  <2>1. CASE next(c) = m[c]
    BY <2>1 DEF SameOwner
  <2>2. CASE next(c) = [m[c] EXCEPT !.pending = TRUE]
    <3>1. /\ next(c) \in CameraRecord
          /\ next(c).requested = m[c].requested /\ next(c).finalizing = m[c].finalizing
          /\ next(c).tail = m[c].tail /\ next(c).accepting = m[c].accepting
          /\ next(c).started = m[c].started /\ next(c).session = m[c].session
      BY <2>2 DEF CameraRecord
    <3>2. Owned(next(c))
      <4> HIDE DEF next
      <4> QED BY <3>1 DEF Owned, HasWindow
    <3> QED BY <3>1, <3>2 DEF SameOwner
  <2> QED BY <2>1, <2>2
<1>3. [k EXCEPT !.pending = TRUE] \in ControlRecord
  BY DEF ControlRecord
<1> HIDE DEF next
<1> QED
  BY <1>1, <1>2, <1>3 DEF SameOwner

LEMMA ActivateAllOwned ==
    ASSUME NEW k \in ControlRecord, NEW m \in [Cameras -> CameraRecord],
           NEW s \in SUBSET Cameras, \A c \in Cameras : Owned(m[c]), ~Detaching(m, s)
    PROVE  /\ ActivateAll(k, m, s).ctl \in ControlRecord
           /\ ActivateAll(k, m, s).cam \in [Cameras -> CameraRecord]
           /\ \A c \in Cameras : SameOwner(m[c], ActivateAll(k, m, s).cam[c])
<1> DEFINE last == IF k.session = 0 THEN k.last + 1 ELSE k.last
           id == IF k.session = 0 THEN last ELSE k.session
           next(c) == IF c \in s /\ m[c].requested /\ ~KeepsTimeline(m[c])
                      THEN Accepting([m[c] EXCEPT !.started = TRUE, !.session = id,
                                                  !.pending = FALSE], TRUE)
                      ELSE m[c]
<1>1. last \in Nat /\ id \in Nat /\ id # 0
  BY DEF ControlRecord
<1>2. ASSUME NEW c \in Cameras PROVE SameOwner(m[c], next(c))
  <2>1. CASE c \in s /\ m[c].requested /\ ~KeepsTimeline(m[c])
    <3>1. m[c] \in CameraRecord /\ Owned(m[c]) /\ m[c].requested /\ ~m[c].finalizing
      BY <2>1 DEF Detaching
    <3>2. next(c) = Begun(m[c], id)
      BY <2>1 DEF Begun, CameraRecord
    <3> HIDE DEF next, id
    <3> QED BY <1>1, <3>1, <3>2, BegunOwned
  <2>2. CASE ~(c \in s /\ m[c].requested /\ ~KeepsTimeline(m[c]))
    BY <2>2 DEF SameOwner
  <2> QED BY <2>1, <2>2
<1>3. /\ ActivateAll(k, m, s).ctl = [k EXCEPT !.pending = FALSE, !.session = id, !.last = last]
      /\ ActivateAll(k, m, s).cam = [c \in Cameras |-> next(c)]
  BY DEF ActivateAll
<1>4. [k EXCEPT !.pending = FALSE, !.session = id, !.last = last] \in ControlRecord
  <2> HIDE DEF id, last
  <2> QED BY <1>1 DEF ControlRecord
<1> HIDE DEF last, id, next
<1> QED
  BY <1>2, <1>3, <1>4 DEF SameOwner

LEMMA ActivatedOwned ==
    ASSUME NEW k \in ControlRecord, NEW m \in [Cameras -> CameraRecord],
           NEW s \in SUBSET Cameras, \A c \in Cameras : Owned(m[c])
    PROVE  /\ Activated(k, m, s).ctl \in ControlRecord
           /\ Activated(k, m, s).cam \in [Cameras -> CameraRecord]
           /\ \A c \in Cameras : SameOwner(m[c], Activated(k, m, s).cam[c])
<1>1. CASE ~k.all
  BY <1>1, ActivateEachOwned DEF Activated
<1>2. CASE k.all /\ Detaching(m, s)
  BY <1>2, AwaitDetachOwned DEF Activated
<1>3. CASE k.all /\ ~Detaching(m, s)
  BY <1>3, ActivateAllOwned DEF Activated
<1> QED
  BY <1>1, <1>2, <1>3

-----------------------------------------------------------------------------
\* The inductive invariant

Places == {"wait", "write", "publish", "replay", "abort", "fault", "stop"}

Types ==
    /\ known \subseteq Cameras
    /\ ctl \in ControlRecord
    /\ cam \in [Cameras -> CameraRecord]
    /\ ingress \in [Cameras -> Job \cup {NoJob}]
    /\ queue \in [Cameras -> Seq(Job)]
    /\ worker \in [Cameras -> [pc : Places, job : Job \cup {NoJob}]]
    /\ segment \in [Cameras -> [session : Nat, holds : SUBSET Nat]]
    /\ prestart \in [Cameras -> Nat]
    /\ tasks \in [Cameras -> Seq(Task)]

\* A camera is finalizing for as long as its one close task runs.
OneTask(c) ==
    IF cam[c].finalizing THEN \E t \in Task : tasks[c] = <<t>> ELSE tasks[c] = <<>>

\* What a close task has brought about when it stands at a step.
Progress(c, t) ==
    /\ t.pc # "tail" => cam[c].tail = 0
    /\ t.pc \in {"detach", "finish"} => queue[c] = <<>> /\ worker[c].pc = "wait"
    /\ t.pc = "finish" => segment[c] = NoWriter

\* A camera without recording and without close task writes nothing.
Still(c) ==
    /\ segment[c] = NoWriter
    /\ queue[c] = <<>>
    /\ worker[c].pc \notin {"write", "publish", "replay"}

Idle(c) == ~cam[c].requested /\ ~cam[c].finalizing => Still(c)

Unheard(c) == c \notin known => ~cam[c].requested /\ ~cam[c].finalizing

CameraInv(c) ==
    /\ Owned(cam[c])
    /\ OneTask(c)
    /\ \A t \in Task : tasks[c] = <<t>> => Progress(c, t)
    /\ Idle(c)
    /\ Unheard(c)

IInv == Types /\ \A c \in Cameras : CameraInv(c)

LEMMA NewCameraOwned ==
    ASSUME NEW k \in ControlRecord
    PROVE  /\ NewCamera(k) \in CameraRecord
           /\ Owned(NewCamera(k))
           /\ NewCamera(k).requested = k.all
           /\ ~NewCamera(k).finalizing /\ NewCamera(k).tail = 0
<1> DEFINE open == k.all /\ ~k.pending /\ k.session # 0
           cm == NewCamera(k)
<1>1. k.all \in BOOLEAN /\ open \in BOOLEAN /\ k.session \in Nat
  BY DEF ControlRecord
<1>2. /\ (k.all /\ ~open) \in BOOLEAN
      /\ (k.all /\ k.session # 0) \in BOOLEAN
      /\ (IF k.all THEN k.session ELSE 0) \in Nat
      /\ (IF open THEN 1 ELSE 0) \in Nat
  BY <1>1
<1>3. cm \in CameraRecord
  BY <1>1, <1>2 DEF NewCamera, CameraRecord
<1>4. /\ cm.requested = k.all /\ cm.finalizing = FALSE /\ cm.tail = 0
      /\ cm.accepting = open /\ cm.started = (k.all /\ k.session # 0)
      /\ cm.session = IF k.all THEN k.session ELSE 0
  BY DEF NewCamera
<1>5. cm.accepting => cm.requested /\ ~cm.finalizing /\ cm.started /\ cm.session # 0
  BY <1>4
<1>6. Owned(cm)
  <2> HIDE DEF cm
  <2> QED BY <1>4, <1>5 DEF Owned, HasWindow
<1> QED
  BY <1>3, <1>4, <1>6

\* Init without its budget: how the recording state begins in every instance.
Begins ==
    /\ known \in SUBSET Cameras
    /\ ctl = NoRecording
    /\ cam = [c \in Cameras |-> NewCamera(NoRecording)]
    /\ fault = [stop |-> FALSE, recorded |-> FALSE]
    /\ ingress = [c \in Cameras |-> NoJob]
    /\ queue = [c \in Cameras |-> <<>>]
    /\ worker = [c \in Cameras |-> [pc |-> "wait", job |-> NoJob]]
    /\ segment = [c \in Cameras |-> NoWriter]
    /\ prestart = [c \in Cameras |-> 0]
    /\ tasks = [c \in Cameras |-> <<>>]

LEMMA BeginsIInv == Begins => IInv
<1> SUFFICES ASSUME Begins PROVE IInv
  OBVIOUS
<1> DEFINE cm == NewCamera(NoRecording)
<1>1. NoRecording \in ControlRecord /\ NoRecording.all = FALSE
  BY DEF NoRecording, ControlRecord
<1>2. /\ cm \in CameraRecord /\ Owned(cm)
      /\ ~cm.requested /\ ~cm.finalizing
  BY <1>1, NewCameraOwned
<1> HIDE DEF cm
<1>3. cam = [c \in Cameras |-> cm]
  BY DEF Begins, cm
<1>4. Types
  BY <1>1, <1>2, <1>3 DEF Begins, Types, Job, NoJob, NoWriter, Places
<1>5. ASSUME NEW c \in Cameras PROVE CameraInv(c)
  <2>1. /\ tasks[c] = <<>> /\ queue[c] = <<>> /\ segment[c] = NoWriter
        /\ worker[c].pc = "wait" /\ cam[c] = cm
    BY <1>3 DEF Begins
  <2>2. OneTask(c) /\ (\A t \in Task : tasks[c] # <<t>>)
    BY <1>2, <2>1 DEF OneTask
  <2>3. Still(c)
    BY <2>1 DEF Still
  <2> QED BY <1>2, <2>1, <2>2, <2>3 DEF CameraInv, Idle, Unheard
<1> QED
  BY <1>4, <1>5 DEF IInv

LEMMA InitIInv == Init => IInv
BY BeginsIInv DEF Init, Begins

-----------------------------------------------------------------------------
\* Steps that preserve the invariant: the two patterns most actions follow

\* A close task in a list of one.
LEMMA SingleTask ==
    ASSUME NEW t \in Task
    PROVE  /\ <<t>> # <<>> /\ DOMAIN <<t>> = {1} /\ <<t>>[1] = t
           /\ RemoveAt(<<t>>, 1) = <<>>
           /\ Append(<<>>, t) = <<t>>
           /\ \A u \in Task : <<t>> = <<u>> => t = u
<1>1. <<t>> # <<>> /\ DOMAIN <<t>> = {1} /\ <<t>>[1] = t /\ Append(<<>>, t) = <<t>>
  OBVIOUS
<1>2. RemoveAt(<<t>>, 1) = <<>>
  BY DEF RemoveAt
<1>3. \A u \in Task : <<t>> = <<u>> => t = u
  OBVIOUS
<1> QED
  BY <1>1, <1>2, <1>3

\* A step that changes nothing of a camera but flags of its status.
LEMMA OtherCamera ==
    ASSUME NEW c \in Cameras, CameraInv(c), cam'[c] = cam[c], queue'[c] = queue[c],
           worker'[c] = worker[c], segment'[c] = segment[c], tasks'[c] = tasks[c],
           c \in known => c \in known'
    PROVE  CameraInv(c)'
BY DEF CameraInv, OneTask, Progress, Idle, Still, Unheard

\* A step that only starts recordings.
LEMMA StartedCamera ==
    ASSUME NEW c \in Cameras, CameraInv(c), Owned(cam'[c]),
           cam[c].requested => cam'[c].requested,
           cam'[c].finalizing = cam[c].finalizing, cam'[c].tail = cam[c].tail,
           UNCHANGED <<queue, worker, segment, tasks>>,
           c \notin known' => c \notin known /\ ~cam'[c].requested
    PROVE  CameraInv(c)'
BY DEF CameraInv, OneTask, Progress, Idle, Still, Unheard

\* An activation after m has been made of cam.
Starts(k, m, s) ==
    /\ k \in ControlRecord /\ m \in [Cameras -> CameraRecord]
    /\ known \subseteq s /\ s \subseteq Cameras
    /\ \A c \in Cameras :
          /\ Owned(m[c])
          /\ cam[c].requested => m[c].requested
          /\ m[c].finalizing = cam[c].finalizing /\ m[c].tail = cam[c].tail
          /\ c \notin s => ~m[c].requested

LEMMA StartInv ==
    ASSUME IInv, NEW k, NEW m, NEW s, Starts(k, m, s), Activate(k, m, s),
           UNCHANGED <<ingress, queue, worker, segment, prestart, tasks>>
    PROVE  IInv'
<1>1. /\ Activated(k, m, s).ctl \in ControlRecord
      /\ Activated(k, m, s).cam \in [Cameras -> CameraRecord]
      /\ \A c \in Cameras : SameOwner(m[c], Activated(k, m, s).cam[c])
  BY ActivatedOwned DEF Starts
<1>2. /\ ctl' \in ControlRecord /\ cam' \in [Cameras -> CameraRecord] /\ known' = s
      /\ \A c \in Cameras : SameOwner(m[c], cam'[c])
  BY <1>1 DEF Activate
<1>3. Types'
  BY <1>2 DEF IInv, Types, Starts
<1>4. ASSUME NEW c \in Cameras PROVE CameraInv(c)'
  <2>1. /\ Owned(cam'[c])
        /\ cam[c].requested => cam'[c].requested
        /\ cam'[c].finalizing = cam[c].finalizing /\ cam'[c].tail = cam[c].tail
        /\ c \notin known' => c \notin known /\ ~cam'[c].requested
    BY <1>2 DEF Starts, SameOwner
  <2> QED BY <2>1, StartedCamera DEF IInv
<1> QED
  BY <1>3, <1>4 DEF IInv

LEMMA StartAllInv == IInv /\ StartAll => IInv'
<1> SUFFICES ASSUME IInv, StartAll PROVE IInv'
  OBVIOUS
<1> DEFINE promotes == \E c \in known : cam[c].requested
           Reset(cm) == IF ctl.all \/ (promotes /\ cm.requested) THEN cm
                        ELSE [cm EXCEPT !.storageFailed = FALSE]
           Open(cm)  == IF ctl.all \/ cm.requested \/ cm.active THEN cm
                        ELSE [cm EXCEPT !.started = FALSE, !.session = 0, !.pending = TRUE]
           k == IF ctl.all THEN ctl
                ELSE [ctl EXCEPT !.all = TRUE, !.pending = TRUE, !.session = 0]
           m == [c \in Cameras |->
                   IF c \in known THEN [Open(Reset(cam[c])) EXCEPT !.requested = TRUE]
                   ELSE cam[c]]
<1>1. Activate(k, m, known) /\ UNCHANGED <<ingress, queue, worker, segment, prestart, tasks>>
  BY DEF StartAll, Call
<1>2. k \in ControlRecord
  BY DEF IInv, Types, ControlRecord
<1>3. ASSUME NEW cm \in CameraRecord, Owned(cm)
      PROVE  LET next == [Open(Reset(cm)) EXCEPT !.requested = TRUE]
             IN  /\ next \in CameraRecord /\ Owned(next) /\ next.requested
                 /\ next.finalizing = cm.finalizing /\ next.tail = cm.tail
  <2> DEFINE a == Reset(cm)
             b == Open(a)
             d == [b EXCEPT !.requested = TRUE]
  <2>1. /\ a \in CameraRecord /\ a.requested = cm.requested /\ a.finalizing = cm.finalizing
        /\ a.tail = cm.tail /\ a.accepting = cm.accepting /\ a.started = cm.started
        /\ a.session = cm.session
    BY DEF CameraRecord
  <2>2. b = a \/ (~a.requested /\ b = [a EXCEPT !.started = FALSE, !.session = 0, !.pending = TRUE])
    OBVIOUS
  <2> HIDE DEF a, b
  <2>3. /\ b \in CameraRecord /\ b.requested = a.requested /\ b.finalizing = a.finalizing
        /\ b.tail = a.tail /\ b.accepting = a.accepting
        /\ a.requested => b.started = a.started /\ b.session = a.session
    <3>1. CASE b = a
      BY <2>1, <3>1
    <3>2. CASE /\ ~a.requested
               /\ b = [a EXCEPT !.started = FALSE, !.session = 0, !.pending = TRUE]
      BY <2>1, <3>2 DEF CameraRecord
    <3> QED BY <2>2, <3>1, <3>2
  <2>4. /\ d \in CameraRecord /\ d.requested = TRUE /\ d.finalizing = b.finalizing
        /\ d.tail = b.tail /\ d.accepting = b.accepting
        /\ d.started = b.started /\ d.session = b.session
    BY <2>3 DEF CameraRecord
  <2>5. Owned(d)
    <3> HIDE DEF d
    <3>1. d.finalizing = cm.finalizing /\ d.tail = cm.tail /\ d.accepting = cm.accepting
      BY <2>1, <2>3, <2>4
    <3>2. cm.requested => d.started = cm.started /\ d.session = cm.session
      BY <2>1, <2>3, <2>4
    <3>3. d.requested
      BY <2>4
    <3> QED BY <1>3, <3>1, <3>2, <3>3 DEF Owned, HasWindow
  <2> QED BY <2>1, <2>3, <2>4, <2>5 DEF a, b
<1>4. \A c \in Cameras : cam[c] \in CameraRecord /\ Owned(cam[c])
  BY DEF IInv, Types, CameraInv
<1>5. /\ m \in [Cameras -> CameraRecord]
      /\ \A c \in Cameras :
            /\ Owned(m[c])
            /\ cam[c].requested => m[c].requested
            /\ m[c].finalizing = cam[c].finalizing /\ m[c].tail = cam[c].tail
            /\ c \notin known => m[c].requested = cam[c].requested
  <2> HIDE DEF Open, Reset
  <2> QED BY <1>3, <1>4
<1> HIDE DEF k, m
<1>6. Starts(k, m, known)
  BY <1>2, <1>5 DEF Starts, IInv, Types, CameraInv, Unheard
<1> QED
  BY <1>1, <1>6, StartInv

LEMMA StartSenderInv == IInv /\ StartSender => IInv'
<1> SUFFICES ASSUME IInv, StartSender PROVE IInv'
  OBVIOUS
<1>1. PICK live \in SUBSET known :
        LET starts == {c \in live : ~cam[c].requested}
            id == ctl.last + 1
            m  == [c \in Cameras |->
                     IF c \in starts
                     THEN [cam[c] EXCEPT !.requested = TRUE, !.pending = TRUE, !.started = TRUE,
                                         !.session = id, !.storageFailed = FALSE]
                     ELSE cam[c]]
            k  == IF starts = {} THEN ctl ELSE [ctl EXCEPT !.last = id]
        IN  Activate(k, m, known) /\ Call /\ UNCHANGED tasks
  BY DEF StartSender
<1> DEFINE starts == {c \in live : ~cam[c].requested}
           id == ctl.last + 1
           next(c) == [cam[c] EXCEPT !.requested = TRUE, !.pending = TRUE, !.started = TRUE,
                                     !.session = id, !.storageFailed = FALSE]
           m  == [c \in Cameras |-> IF c \in starts THEN next(c) ELSE cam[c]]
           k  == IF starts = {} THEN ctl ELSE [ctl EXCEPT !.last = id]
<1>2. Activate(k, m, known) /\ UNCHANGED <<ingress, queue, worker, segment, prestart, tasks>>
  BY <1>1 DEF Call
<1>3. ctl \in ControlRecord /\ id \in Nat /\ id # 0 /\ starts \subseteq known
  BY DEF IInv, Types, ControlRecord
<1>4. k \in ControlRecord
  BY <1>3 DEF ControlRecord
<1>5. ASSUME NEW c \in starts
      PROVE  /\ next(c) \in CameraRecord /\ Owned(next(c)) /\ next(c).requested
             /\ next(c).finalizing = cam[c].finalizing /\ next(c).tail = cam[c].tail
  <2>1. cam[c] \in CameraRecord /\ Owned(cam[c]) /\ ~cam[c].requested
    BY <1>3 DEF IInv, Types, CameraInv
  <2>2. /\ next(c) \in CameraRecord /\ next(c).requested = TRUE
        /\ next(c).finalizing = cam[c].finalizing /\ next(c).tail = cam[c].tail
        /\ next(c).accepting = cam[c].accepting
    BY <1>3, <2>1 DEF CameraRecord
  <2> HIDE DEF next
  <2> QED BY <2>1, <2>2 DEF Owned
<1>6. \A c \in Cameras : cam[c] \in CameraRecord /\ Owned(cam[c])
  BY DEF IInv, Types, CameraInv
<1>7. /\ m \in [Cameras -> CameraRecord]
      /\ \A c \in Cameras :
            /\ Owned(m[c])
            /\ cam[c].requested => m[c].requested
            /\ m[c].finalizing = cam[c].finalizing /\ m[c].tail = cam[c].tail
            /\ c \notin known => m[c].requested = cam[c].requested
  <2> HIDE DEF next, starts
  <2> QED BY <1>3, <1>5, <1>6
<1> HIDE DEF k, m
<1>8. Starts(k, m, known)
  BY <1>4, <1>7 DEF Starts, IInv, Types, CameraInv, Unheard
<1> QED
  BY <1>2, <1>8, StartInv

LEMMA StartCameraInv == IInv /\ StartCamera => IInv'
<1> SUFFICES ASSUME IInv, StartCamera PROVE IInv'
  OBVIOUS
<1>1. PICK c \in Cameras :
        LET cm0 == IF c \in known THEN cam[c] ELSE NewCamera(ctl)
            resets == ~ctl.all /\ ~cm0.requested /\ ~cm0.active
            cm1 == IF resets THEN [cm0 EXCEPT !.storageFailed = FALSE, !.started = FALSE,
                                              !.session = 0, !.pending = TRUE]
                   ELSE IF ~cm0.started
                   THEN [cm0 EXCEPT !.started = ctl.all /\ ctl.session # 0, !.pending = TRUE]
                   ELSE cm0
        IN  /\ Activate(ctl, [cam EXCEPT ![c] = [cm1 EXCEPT !.requested = TRUE]], known \cup {c})
            /\ Call /\ UNCHANGED tasks
  BY DEF StartCamera
<1> DEFINE cm0 == IF c \in known THEN cam[c] ELSE NewCamera(ctl)
           resets == ~ctl.all /\ ~cm0.requested /\ ~cm0.active
           reset == [cm0 EXCEPT !.storageFailed = FALSE, !.started = FALSE,
                                !.session = 0, !.pending = TRUE]
           begun == ctl.all /\ ctl.session # 0
           wait == [cm0 EXCEPT !.started = begun, !.pending = TRUE]
           cm1 == IF resets THEN reset ELSE IF ~cm0.started THEN wait ELSE cm0
           next == [cm1 EXCEPT !.requested = TRUE]
           m == [cam EXCEPT ![c] = next]
<1>2. /\ Activate(ctl, m, known \cup {c})
      /\ UNCHANGED <<ingress, queue, worker, segment, prestart, tasks>>
  BY <1>1 DEF Call
<1>3. ctl \in ControlRecord /\ begun \in BOOLEAN
  BY DEF IInv, Types, ControlRecord
<1>4. /\ \A d \in Cameras : cam[d] \in CameraRecord /\ Owned(cam[d])
      /\ cam \in [Cameras -> CameraRecord]
  BY DEF IInv, Types, CameraInv
<1>5. /\ cm0 \in CameraRecord /\ Owned(cm0)
      /\ cm0.finalizing = cam[c].finalizing /\ cm0.tail = cam[c].tail
  <2>1. CASE c \in known
    BY <1>4, <2>1
  <2>2. CASE c \notin known
    <3>1. ~cam[c].finalizing /\ cam[c].tail = 0 /\ cam[c].finalizing \in BOOLEAN
      BY <1>4, <2>2 DEF IInv, CameraInv, Unheard, Owned, CameraRecord
    <3>2. /\ NewCamera(ctl) \in CameraRecord /\ Owned(NewCamera(ctl))
          /\ ~NewCamera(ctl).finalizing /\ NewCamera(ctl).tail = 0
          /\ NewCamera(ctl).finalizing \in BOOLEAN
      BY <1>3, NewCameraOwned DEF CameraRecord
    <3> QED BY <2>2, <3>1, <3>2
  <2> QED BY <2>1, <2>2
<1> HIDE DEF cm0, begun
<1>6. /\ cm1 \in CameraRecord
      /\ cm1.finalizing = cm0.finalizing /\ cm1.tail = cm0.tail
      /\ cm1.accepting = cm0.accepting
      /\ cm0.requested /\ cm0.started => cm1.started = cm0.started /\ cm1.session = cm0.session
  <2>1. CASE cm1 = cm0
    BY <1>5, <2>1
  <2>2. CASE resets /\ cm1 = reset
    BY <1>5, <2>2 DEF CameraRecord
  <2>3. CASE ~cm0.started /\ cm1 = wait
    BY <1>3, <1>5, <2>3 DEF CameraRecord
  <2> QED BY <2>1, <2>2, <2>3
<1> HIDE DEF cm1
<1>7. /\ next \in CameraRecord /\ next.requested = TRUE
      /\ next.finalizing = cm1.finalizing /\ next.tail = cm1.tail
      /\ next.accepting = cm1.accepting
      /\ next.started = cm1.started /\ next.session = cm1.session
  BY <1>6 DEF CameraRecord
<1> HIDE DEF next
<1>8. Owned(next)
  BY <1>5, <1>6, <1>7 DEF Owned, HasWindow
<1>9. /\ m \in [Cameras -> CameraRecord] /\ m[c] = next
      /\ \A d \in Cameras : d # c => m[d] = cam[d]
  BY <1>4, <1>7
<1> HIDE DEF m
<1>10. next.requested /\ next.finalizing = cam[c].finalizing /\ next.tail = cam[c].tail
  BY <1>5, <1>6, <1>7
<1>11. known \subseteq Cameras
  BY DEF IInv, Types
<1>12. ASSUME NEW d \in Cameras
       PROVE  /\ Owned(m[d])
              /\ cam[d].requested => m[d].requested
              /\ m[d].finalizing = cam[d].finalizing /\ m[d].tail = cam[d].tail
              /\ d \notin known \cup {c} => ~m[d].requested
  <2>1. CASE d = c
    BY <1>8, <1>9, <1>10, <2>1
  <2>2. CASE d # c
    BY <1>4, <1>9, <2>2 DEF IInv, CameraInv, Unheard
  <2> QED BY <2>1, <2>2
<1>13. Starts(ctl, m, known \cup {c})
  BY <1>3, <1>9, <1>11, <1>12 DEF Starts
<1> QED
  BY <1>2, <1>13, StartInv

LEMMA DiscoverInv == IInv /\ Discover => IInv'
<1> SUFFICES ASSUME IInv, Discover PROVE IInv'
  OBVIOUS
<1>1. PICK c \in Cameras \ known :
        /\ known' = known \cup {c} /\ cam' = [cam EXCEPT ![c] = NewCamera(ctl)]
        /\ UNCHANGED <<ctl, fault, ingress, queue, worker, segment, prestart, tasks>>
  BY DEF Discover
<1>2. /\ NewCamera(ctl) \in CameraRecord /\ Owned(NewCamera(ctl))
      /\ ~NewCamera(ctl).finalizing /\ NewCamera(ctl).tail = 0
  BY NewCameraOwned DEF IInv, Types
<1>3. Types'
  BY <1>1, <1>2 DEF IInv, Types
<1>4. cam'[c] = NewCamera(ctl) /\ \A d \in Cameras : d # c => cam'[d] = cam[d]
  BY <1>1 DEF IInv, Types
<1>5. CameraInv(c)'
  <2>1. ~cam[c].requested /\ ~cam[c].finalizing /\ cam[c].tail = 0
    BY <1>1 DEF IInv, CameraInv, Unheard, Owned
  <2>2. cam[c].finalizing = cam'[c].finalizing
    BY <1>1, <1>2, <1>4, <2>1 DEF IInv, Types, CameraRecord
  <2>3. c \in known'
    BY <1>1
  <2> QED BY <1>1, <1>2, <1>4, <2>1, <2>2, <2>3, StartedCamera DEF IInv
<1>6. ASSUME NEW d \in Cameras, d # c PROVE CameraInv(d)'
  BY <1>1, <1>4, <1>6, OtherCamera DEF IInv
<1> QED
  BY <1>3, <1>5, <1>6 DEF IInv

-----------------------------------------------------------------------------
\* Stops

\* A stopped camera: the tail of a recording that is closed now may be drained.
LEMMA StoppedOwned ==
    ASSUME NEW cm \in CameraRecord, Owned(cm)
    PROVE  /\ Stopped(cm) \in CameraRecord /\ Owned(Stopped(cm))
           /\ ~Stopped(cm).requested
           /\ Stopped(cm).finalizing <=> cm.finalizing \/ NeedsClose(cm)
           /\ ~NeedsClose(cm) => Stopped(cm).tail = cm.tail
<1> DEFINE drain == [cm EXCEPT !.tail = cm.session]
           closed == Accepting(cm, FALSE)
           ready == PrepareStop(cm)
           final == cm.finalizing \/ NeedsClose(cm)
           next == [ready EXCEPT !.requested = FALSE, !.pending = FALSE, !.started = FALSE,
                                 !.finalizing = final]
<1>1. final \in BOOLEAN
  BY DEF CameraRecord, NeedsClose
<1>2. /\ closed \in CameraRecord /\ closed.accepting = FALSE
      /\ closed.tail = cm.tail /\ closed.finalizing = cm.finalizing
  BY AcceptingType
<1>3. /\ drain \in CameraRecord /\ drain.tail = cm.session
      /\ drain.finalizing = cm.finalizing
  BY DEF CameraRecord
<1>4. /\ ready \in CameraRecord /\ ready.finalizing = cm.finalizing
      /\ ready.tail = cm.tail \/ NeedsClose(cm)
      /\ ready.accepting => ready.tail # 0
      /\ ready.tail # 0 => cm.finalizing \/ NeedsClose(cm)
  <2>1. CASE cm.tail # 0
    BY <2>1 DEF PrepareStop, Owned
  <2>2. CASE cm.tail = 0 /\ DrainStarts(cm)
    <3>1. ready = drain
      BY <2>2 DEF PrepareStop
    <3>2. NeedsClose(cm) /\ cm.session # 0
      BY <2>2 DEF DrainStarts
    <3> HIDE DEF ready, drain
    <3> QED BY <1>3, <3>1, <3>2
  <2>3. CASE cm.tail = 0 /\ ~DrainStarts(cm)
    <3>1. ready = closed
      BY <2>3 DEF PrepareStop
    <3> HIDE DEF ready, closed
    <3> QED BY <1>2, <2>3, <3>1
  <2> QED BY <2>1, <2>2, <2>3
<1>5. Stopped(cm) = next
  <2>1. ready.finalizing = cm.finalizing
    BY <1>4
  <2>2. Stopped(cm) = [ready EXCEPT !.requested = FALSE, !.pending = FALSE, !.started = FALSE,
                                    !.finalizing = ready.finalizing \/ NeedsClose(cm)]
    BY <1>4 DEF Stopped, CameraRecord
  <2> HIDE DEF ready
  <2> QED BY <2>1, <2>2
<1> HIDE DEF ready, final
<1>6. /\ next \in CameraRecord /\ next.requested = FALSE /\ next.finalizing = final
      /\ next.tail = ready.tail /\ next.accepting = ready.accepting
  BY <1>1, <1>4 DEF CameraRecord
<1> HIDE DEF next
<1>7. next.finalizing <=> cm.finalizing \/ NeedsClose(cm)
  BY <1>1, <1>6 DEF final
<1>8. Owned(next)
  BY <1>4, <1>6, <1>7 DEF Owned
<1> QED
  BY <1>4, <1>5, <1>6, <1>7, <1>8

LEMMA StopCamerasInv ==
    ASSUME IInv, NEW s, s \subseteq known, StopCameras(s), known' = known,
           ctl' \in ControlRecord,
           worker' \in [Cameras -> [pc : Places, job : Job \cup {NoJob}]],
           \A c \in Cameras : worker'[c].pc \in {worker[c].pc, "wait"},
           UNCHANGED <<ingress, queue, segment, prestart>>
    PROVE  IInv'
<1>1. \A c \in Cameras : cam[c] \in CameraRecord /\ Owned(cam[c])
  BY DEF IInv, Types, CameraInv
<1>2. Close("stop") \in Task /\ Close("stop").pc = "tail"
  BY DEF Close, Task
<1>3. /\ cam' \in [Cameras -> CameraRecord]
      /\ \A c \in Cameras : cam'[c] = IF c \in s THEN Stopped(cam[c]) ELSE cam[c]
  BY <1>1, StoppedOwned DEF StopCameras
<1>4. /\ tasks' \in [Cameras -> Seq(Task)]
      /\ \A c \in Cameras :
            tasks'[c] = IF c \in s /\ NeedsClose(cam[c])
                        THEN Append(tasks[c], Close("stop")) ELSE tasks[c]
  BY <1>2 DEF StopCameras, IInv, Types
<1>5. Types'
  BY <1>3, <1>4 DEF IInv, Types
<1>6. ASSUME NEW c \in Cameras PROVE CameraInv(c)'
  <2>1. CameraInv(c) /\ cam[c] \in CameraRecord
    BY <1>1 DEF IInv
  <2>3. CASE c \notin s
    <3>1. cam'[c] = cam[c] /\ tasks'[c] = tasks[c]
      BY <1>3, <1>4, <2>3
    <3> QED BY <2>1, <3>1 DEF CameraInv, OneTask, Progress, Idle, Still, Unheard
  <2>4. CASE c \in s /\ NeedsClose(cam[c])
    <3>1. /\ Owned(cam'[c]) /\ ~cam'[c].requested /\ cam'[c].finalizing
      BY <1>1, <1>3, <2>4, StoppedOwned
    <3>2. tasks[c] = <<>>
      BY <2>1, <2>4 DEF NeedsClose, CameraInv, OneTask
    <3>3. tasks'[c] = <<Close("stop")>>
      BY <1>2, <1>4, <2>4, <3>2, SingleTask
    <3>4. OneTask(c)'
      BY <1>2, <3>1, <3>3 DEF OneTask
    <3>5. ASSUME NEW t \in Task, tasks'[c] = <<t>> PROVE Progress(c, t)'
      <4>1. t.pc = "tail"
        BY <1>2, <3>3, <3>5, SingleTask
      <4> QED BY <4>1 DEF Progress
    <3>6. Idle(c)' /\ Unheard(c)'
      BY <2>4, <3>1 DEF Idle, Unheard
    <3> QED BY <3>1, <3>4, <3>5, <3>6 DEF CameraInv
  <2>5. CASE c \in s /\ ~NeedsClose(cam[c])
    <3>1. /\ Owned(cam'[c]) /\ ~cam'[c].requested
          /\ cam'[c].finalizing <=> cam[c].finalizing
          /\ cam'[c].tail = cam[c].tail
      BY <1>1, <1>3, <2>5, StoppedOwned
    <3>2. tasks'[c] = tasks[c]
      BY <1>4, <2>5
    <3>3. OneTask(c)' /\ \A t \in Task : tasks'[c] = <<t>> => Progress(c, t)'
      BY <2>1, <3>1, <3>2 DEF CameraInv, OneTask, Progress
    <3>4. ~cam[c].finalizing => ~cam[c].requested
      BY <2>5 DEF NeedsClose
    <3>5. Idle(c)' /\ Unheard(c)'
      BY <2>1, <2>5, <3>1, <3>4 DEF CameraInv, Idle, Still, Unheard
    <3> QED BY <3>1, <3>3, <3>5 DEF CameraInv
  <2> QED BY <2>3, <2>4, <2>5
<1> QED
  BY <1>5, <1>6 DEF IInv

LEMMA LeaveAllType == IInv /\ LeaveAll => ctl' \in ControlRecord
<1>1. ctl \in ControlRecord =>
        [ctl EXCEPT !.all = FALSE, !.pending = FALSE, !.session = 0] \in ControlRecord
  BY DEF ControlRecord
<1> QED
  BY <1>1 DEF LeaveAll, IInv, Types

LEMMA StopInv == IInv /\ (StopAll \/ StopSender \/ StopCamera) => IInv'
<1> SUFFICES ASSUME IInv, StopAll \/ StopSender \/ StopCamera PROVE IInv'
  OBVIOUS
<1>1. /\ UNCHANGED <<known, ingress, queue, worker, segment, prestart>>
      /\ LeaveAll \/ UNCHANGED ctl
      /\ \E s \in SUBSET known : StopCameras(s)
  <2>1. CASE StopAll
    BY <2>1 DEF StopAll, StopEverything, Call
  <2>2. CASE StopSender
    <3>1. PICK s \in Senders :
            StopCameras({c \in s \cap known :
                           cam[c].requested \/ cam[c].active \/ cam[c].finalizing})
      BY <2>2 DEF StopSender
    <3>2. \E r \in SUBSET known : StopCameras(r)
      BY <3>1
    <3> QED BY <2>2, <3>2 DEF StopSender, Call
  <2>3. CASE StopCamera
    BY <2>3 DEF StopCamera, Call
  <2> QED BY <2>1, <2>2, <2>3
<1>2. ctl' \in ControlRecord
  BY <1>1, LeaveAllType DEF IInv, Types
<1>3. PICK s \in SUBSET known : StopCameras(s)
  BY <1>1
<1>4. /\ worker' \in [Cameras -> [pc : Places, job : Job \cup {NoJob}]]
      /\ \A c \in Cameras : worker'[c].pc \in {worker[c].pc, "wait"}
  BY <1>1 DEF IInv, Types
<1> QED
  BY <1>1, <1>2, <1>3, <1>4, StopCamerasInv

-----------------------------------------------------------------------------
\* Media threads and the record worker

\* The invariant of the cameras a step does not touch.
LEMMA OneCamera ==
    ASSUME IInv, NEW c \in Cameras, Types', CameraInv(c)', known' = known,
           \A d \in Cameras : d # c =>
               /\ cam'[d] = cam[d] /\ queue'[d] = queue[d] /\ worker'[d] = worker[d]
               /\ segment'[d] = segment[d] /\ tasks'[d] = tasks[d]
    PROVE  IInv'
<1>1. ASSUME NEW d \in Cameras, d # c PROVE CameraInv(d)'
  BY <1>1, OtherCamera DEF IInv
<1> QED
  BY <1>1 DEF IInv

\* The worker of a camera moves on.
LEMMA GotoType ==
    ASSUME IInv, NEW c \in Cameras, NEW p \in Places, Goto(c, p)
    PROVE  /\ worker' \in [Cameras -> [pc : Places, job : Job \cup {NoJob}]]
           /\ worker'[c].pc = p
           /\ \A d \in Cameras : d # c => worker'[d] = worker[d]
<1>1. worker \in [Cameras -> [pc : Places, job : Job \cup {NoJob}]]
  BY DEF IInv, Types
<1>2. worker' = [worker EXCEPT ![c] = [worker[c] EXCEPT !.pc = p]]
  BY DEF Goto
<1>3. [worker[c] EXCEPT !.pc = p] \in [pc : Places, job : Job \cup {NoJob}]
  BY <1>1
<1>4. [worker[c] EXCEPT !.pc = p].pc = p
  BY <1>1
<1> QED
  BY <1>1, <1>2, <1>3, <1>4

\* While the worker of a camera is busy its close task has not passed AwaitQueue.
LEMMA AtWork ==
    ASSUME IInv, NEW c \in Cameras, worker[c].pc # "wait"
    PROVE  \A t \in Task : tasks[c] = <<t>> => t.pc \in {"tail", "queue"}
BY DEF IInv, CameraInv, Progress, Task

LEMMA WorkerCamera ==
    ASSUME IInv, NEW c \in Cameras, worker[c].pc # "wait",
           Owned(cam'[c]),
           cam'[c].requested = cam[c].requested,
           cam'[c].finalizing = cam[c].finalizing, cam'[c].tail = cam[c].tail,
           tasks' = tasks, known' = known,
           Still(c) => Still(c)'
    PROVE  CameraInv(c)'
<1>1. OneTask(c)'
  BY DEF IInv, CameraInv, OneTask
<1>2. ASSUME NEW t \in Task, tasks'[c] = <<t>> PROVE Progress(c, t)'
  <2>1. t.pc \in {"tail", "queue"} /\ Progress(c, t)
    BY <1>2, AtWork DEF IInv, CameraInv
  <2> QED BY <2>1 DEF Progress
<1>3. Idle(c)' /\ Unheard(c)'
  BY DEF IInv, CameraInv, Idle, Unheard
<1> QED
  BY <1>1, <1>2, <1>3 DEF CameraInv

\* A worker step that leaves the camera's recording state alone.
LEMMA WorkerStep ==
    ASSUME IInv, NEW c \in Cameras, worker[c].pc # "wait", Types',
           UNCHANGED <<known, cam, tasks>>,
           Still(c) => Still(c)',
           \A d \in Cameras : d # c =>
               queue'[d] = queue[d] /\ worker'[d] = worker[d] /\ segment'[d] = segment[d]
    PROVE  IInv'
<1>1. Owned(cam'[c])
  BY DEF IInv, CameraInv
<1>2. CameraInv(c)'
  BY <1>1, WorkerCamera
<1> QED
  BY <1>2, OneCamera

LEMMA ReceiveInv ==
    ASSUME IInv, NEW c \in Cameras, ReceivePacket(c)
    PROVE  IInv'
<1>1. PICK stream \in Streams :
        ingress' = [ingress EXCEPT ![c] = [stream |-> stream, session |-> JobSession(cam[c]),
                                           generation |-> cam[c].generation]]
  BY DEF ReceivePacket
<1>2. JobSession(cam[c]) \in Nat /\ cam[c].generation \in Nat
  BY DEF IInv, Types, CameraRecord, JobSession
<1>3. ingress' \in [Cameras -> Job \cup {NoJob}]
  BY <1>1, <1>2 DEF IInv, Types, Job
<1>4. UNCHANGED <<known, ctl, cam, queue, worker, segment, prestart, tasks>>
  BY DEF ReceivePacket
<1>5. Types'
  BY <1>3, <1>4 DEF IInv, Types
<1>6. CameraInv(c)'
  BY <1>4, OtherCamera DEF IInv
<1> QED
  BY <1>4, <1>5, <1>6, OneCamera

\* What a packet is enqueued for is an input with an owner, so neither an idle
\* camera nor a task past its drain gets one.
LEMMA EnqueueInv ==
    ASSUME IInv, NEW c \in Cameras, EnqueueJob(c)
    PROVE  IInv'
<1>1. /\ ingress[c] \in Job /\ ingress' = [ingress EXCEPT ![c] = NoJob]
      /\ UNCHANGED <<known, ctl, cam, worker, segment, prestart, tasks>>
  BY DEF EnqueueJob, IInv, Types
<1>2. ingress' \in [Cameras -> Job \cup {NoJob}]
  BY <1>1 DEF IInv, Types
<1>3. CASE queue' = queue
  <2>1. Types'
    BY <1>1, <1>2, <1>3 DEF IInv, Types
  <2>2. CameraInv(c)'
    BY <1>1, <1>3, OtherCamera DEF IInv
  <2> QED BY <1>1, <1>3, <2>1, <2>2, OneCamera
<1>4. CASE cam[c].accepting /\ queue' = [queue EXCEPT ![c] = Append(@, ingress[c])]
  <2>1. Types'
    BY <1>1, <1>2, <1>4 DEF IInv, Types
  <2>2. /\ CameraInv(c)
        /\ cam[c].requested \/ cam[c].finalizing
        /\ cam[c].finalizing => cam[c].tail # 0
    BY <1>4 DEF IInv, CameraInv, Owned
  <2>3. \A t \in Task : tasks[c] = <<t>> => t.pc = "tail"
    BY <2>2 DEF CameraInv, OneTask, Progress
  <2>4. ASSUME NEW t \in Task, tasks'[c] = <<t>> PROVE Progress(c, t)'
    <3>1. t.pc = "tail"
      BY <1>1, <2>3, <2>4
    <3> QED BY <3>1 DEF Progress
  <2>5. OneTask(c)' /\ Idle(c)' /\ Unheard(c)' /\ Owned(cam[c])'
    BY <1>1, <2>2 DEF CameraInv, OneTask, Idle, Unheard
  <2>6. CameraInv(c)'
    BY <2>4, <2>5 DEF CameraInv
  <2>7. \A d \in Cameras : d # c => queue'[d] = queue[d]
    BY <1>4 DEF IInv, Types
  <2> QED BY <1>1, <2>1, <2>6, <2>7, OneCamera
<1> QED
  BY <1>3, <1>4 DEF EnqueueJob, InputUnchanged

LEMMA TakeJobInv ==
    ASSUME IInv, NEW c \in Cameras, TakeJob(c)
    PROVE  IInv'
<1>1. /\ queue[c] \in Seq(Job) /\ queue[c] # <<>>
      /\ worker' = [worker EXCEPT ![c] = [pc |-> "write", job |-> Head(queue[c])]]
      /\ queue' = [queue EXCEPT ![c] = Tail(queue[c])]
      /\ UNCHANGED <<known, ctl, cam, ingress, segment, prestart, tasks>>
  BY DEF TakeJob, IInv, Types
<1>2. Head(queue[c]) \in Job /\ Tail(queue[c]) \in Seq(Job)
  BY <1>1
<1>3. Types'
  BY <1>1, <1>2 DEF IInv, Types, Places
<1>4. CameraInv(c)'
  <2>1. CameraInv(c) /\ ~Still(c)
    BY <1>1 DEF IInv, Still
  <2>2. ASSUME NEW t \in Task, tasks'[c] = <<t>> PROVE Progress(c, t)'
    <3>1. Progress(c, t) /\ t.pc \notin {"detach", "finish"}
      BY <1>1, <2>1, <2>2 DEF CameraInv, Progress
    <3> QED BY <1>1, <3>1 DEF Progress
  <2> QED BY <1>1, <2>1, <2>2 DEF CameraInv, OneTask, Idle, Unheard
<1>5. \A d \in Cameras : d # c => queue'[d] = queue[d] /\ worker'[d] = worker[d]
  BY <1>1 DEF IInv, Types
<1> QED
  BY <1>1, <1>3, <1>4, <1>5, OneCamera

LEMMA PrestartType ==
    ASSUME IInv, NEW c \in Cameras, NEW n \in Nat, prestart' = [prestart EXCEPT ![c] = n]
    PROVE  prestart' \in [Cameras -> Nat]
BY DEF IInv, Types

LEMMA JobType ==
    ASSUME IInv, NEW c \in Cameras
    PROVE  /\ worker[c].job.session \in Nat
           /\ PrestartFor(c, worker[c].job) \in Nat
<1>1. worker[c].job \in Job \cup {NoJob} /\ prestart[c] \in Nat
  BY DEF IInv, Types
<1>2. worker[c].job.session \in Nat
  BY <1>1 DEF Job, NoJob
<1> QED
  BY <1>1, <1>2 DEF PrestartFor

LEMMA IgnoreInv ==
    ASSUME IInv, NEW c \in Cameras, IgnoreDepth(c)
    PROVE  IInv'
<1>1. /\ worker[c].pc = "write" /\ Goto(c, "wait")
      /\ UNCHANGED <<known, ctl, cam, ingress, queue, segment, prestart, tasks>>
  BY DEF IgnoreDepth, Writing
<1>2. /\ worker' \in [Cameras -> [pc : Places, job : Job \cup {NoJob}]]
      /\ \A d \in Cameras : d # c => worker'[d] = worker[d]
  BY <1>1, GotoType DEF Places
<1>3. Types'
  BY <1>1, <1>2 DEF IInv, Types
<1> QED
  BY <1>1, <1>2, <1>3, WorkerStep DEF Still

LEMMA HoldBackInv ==
    ASSUME IInv, NEW c \in Cameras, HoldBack(c)
    PROVE  IInv'
<1>1. /\ worker[c].pc = "write" /\ Goto(c, "wait")
      /\ UNCHANGED <<known, ctl, cam, ingress, queue, segment, tasks>>
  BY DEF HoldBack, Writing
<1>2. /\ worker' \in [Cameras -> [pc : Places, job : Job \cup {NoJob}]]
      /\ \A d \in Cameras : d # c => worker'[d] = worker[d]
  BY <1>1, GotoType DEF Places
<1>3. prestart' \in [Cameras -> Nat]
  BY JobType, PrestartType DEF HoldBack
<1>4. Types'
  BY <1>1, <1>2, <1>3 DEF IInv, Types
<1> QED
  BY <1>1, <1>2, <1>4, WorkerStep DEF Still

LEMMA WritersType ==
    ASSUME IInv, NEW c \in Cameras, NEW w \in Writers(c, worker[c].job)
    PROVE  w \in [session : Nat, holds : SUBSET Nat]
<1> DEFINE opened == [session |-> worker[c].job.session, holds |-> {}]
<1>1. opened \in [session : Nat, holds : SUBSET Nat]
  BY JobType
<1>2. segment[c] \in [session : Nat, holds : SUBSET Nat]
  BY DEF IInv, Types
<1>3. w \in {segment[c], opened}
  BY DEF Writers
<1> QED
  BY <1>1, <1>2, <1>3

LEMMA WriteInv ==
    ASSUME IInv, NEW c \in Cameras, WriteJob(c)
    PROVE  IInv'
<1>1. /\ worker[c].pc = "write" /\ Goto(c, "publish")
      /\ prestart' = [prestart EXCEPT ![c] = PrestartFor(c, worker[c].job)]
      /\ UNCHANGED <<known, ctl, cam, ingress, queue, tasks>>
  BY DEF WriteJob, MayWrite, Writing
<1>2. /\ worker' \in [Cameras -> [pc : Places, job : Job \cup {NoJob}]]
      /\ \A d \in Cameras : d # c => worker'[d] = worker[d]
  BY <1>1, GotoType DEF Places
<1>3. prestart' \in [Cameras -> Nat]
  BY <1>1, JobType, PrestartType
<1>4. PICK w \in Writers(c, worker[c].job) :
        segment' = [segment EXCEPT ![c] = [w EXCEPT !.holds = @ \cup {worker[c].job.session}]]
  BY DEF WriteJob
<1>5. w \in [session : Nat, holds : SUBSET Nat]
  BY WritersType
<1>6. [w EXCEPT !.holds = @ \cup {worker[c].job.session}] \in [session : Nat, holds : SUBSET Nat]
  BY <1>5, JobType
<1>7. /\ segment' \in [Cameras -> [session : Nat, holds : SUBSET Nat]]
      /\ \A d \in Cameras : d # c => segment'[d] = segment[d]
  BY <1>4, <1>6 DEF IInv, Types
<1>8. Types'
  BY <1>1, <1>2, <1>3, <1>7 DEF IInv, Types
<1> QED
  BY <1>1, <1>2, <1>7, <1>8, WorkerStep DEF Still

\* A failed write closes the input: nobody needs to own it any more.
LEMMA FailWriteInv ==
    ASSUME IInv, NEW c \in Cameras, FailWrite(c)
    PROVE  IInv'
<1>1. /\ worker[c].pc = "write"
      /\ prestart' = [prestart EXCEPT ![c] = 0]
      /\ queue' = [queue EXCEPT ![c] = <<>>]
      /\ UNCHANGED <<known, ctl, ingress, tasks>>
  BY DEF FailWrite, MayWrite, Writing
<1>2. PICK full \in {FALSE, StorageFaults} :
        /\ cam' = [cam EXCEPT ![c].accepting = FALSE, ![c].generation = @ + 1,
                              ![c].storageFailed = @ \/ full]
        /\ Goto(c, IF full THEN "abort" ELSE "wait")
  BY DEF FailWrite
<1> DEFINE flag == cam[c].storageFailed \/ full
           next == [cam[c] EXCEPT !.accepting = FALSE, !.generation = cam[c].generation + 1,
                                  !.storageFailed = flag]
<1>3. cam[c] \in CameraRecord /\ cam \in [Cameras -> CameraRecord]
  BY DEF IInv, Types
<1>4. cam' = [cam EXCEPT ![c] = next]
  <2>1. cam' = [cam EXCEPT ![c] = [cam[c] EXCEPT !.accepting = FALSE, !.generation = @ + 1,
                                                 !.storageFailed = @ \/ full]]
    BY <1>2, <1>3
  <2> QED BY <1>3, <2>1 DEF CameraRecord
<1>5. flag \in BOOLEAN /\ cam[c].generation + 1 \in Nat
  BY <1>3, RecordingAssumption DEF CameraRecord
<1> HIDE DEF flag
<1>6. /\ next \in CameraRecord /\ next.accepting = FALSE /\ next.tail = cam[c].tail
      /\ next.finalizing = cam[c].finalizing /\ next.requested = cam[c].requested
  BY <1>3, <1>5 DEF CameraRecord
<1> HIDE DEF next
<1>7. /\ cam' \in [Cameras -> CameraRecord] /\ cam'[c] = next
      /\ \A d \in Cameras : d # c => cam'[d] = cam[d]
  BY <1>3, <1>4, <1>6
<1>8. /\ worker' \in [Cameras -> [pc : Places, job : Job \cup {NoJob}]]
      /\ \A d \in Cameras : d # c => worker'[d] = worker[d]
  <2>1. (IF full THEN "abort" ELSE "wait") \in Places
    BY DEF Places
  <2> QED BY <1>2, <2>1, GotoType
<1>9. /\ segment' \in [Cameras -> [session : Nat, holds : SUBSET Nat]]
      /\ \A d \in Cameras : d # c => segment'[d] = segment[d]
  <2>1. PICK w \in Writers(c, worker[c].job) \cup {segment[c]} :
          segment' = [segment EXCEPT ![c] = w]
    BY DEF FailWrite
  <2>2. w \in [session : Nat, holds : SUBSET Nat]
    BY WritersType DEF IInv, Types
  <2> QED BY <2>1, <2>2 DEF IInv, Types
<1>10. /\ queue' \in [Cameras -> Seq(Job)]
       /\ \A d \in Cameras : d # c => queue'[d] = queue[d]
  BY <1>1 DEF IInv, Types
<1>11. prestart' \in [Cameras -> Nat]
  BY <1>1, PrestartType
<1>12. Types'
  BY <1>1, <1>7, <1>8, <1>9, <1>10, <1>11 DEF IInv, Types
<1>13. CameraInv(c)'
  <2>1. Owned(cam'[c])
    BY <1>6, <1>7 DEF IInv, CameraInv, Owned
  <2>2. ~Still(c)
    BY <1>1 DEF Still
  <2> QED BY <1>1, <1>6, <1>7, <2>1, <2>2, WorkerCamera
<1> QED
  BY <1>1, <1>7, <1>8, <1>9, <1>10, <1>12, <1>13, OneCamera

LEMMA PublishInv ==
    ASSUME IInv, NEW c \in Cameras, PublishSegment(c)
    PROVE  IInv'
<1> DEFINE next == [cam[c] EXCEPT !.active = TRUE]
           place == IF worker[c].job.stream = "rgb" /\ prestart[c] # 0 THEN "replay" ELSE "wait"
<1>1. /\ worker[c].pc = "publish" /\ Goto(c, place)
      /\ cam' = [cam EXCEPT ![c] = next]
      /\ UNCHANGED <<known, ctl, ingress, queue, segment, prestart, tasks>>
  BY DEF PublishSegment
<1>2. place \in Places
  BY DEF Places
<1> HIDE DEF place
<1>3. /\ worker' \in [Cameras -> [pc : Places, job : Job \cup {NoJob}]]
      /\ \A d \in Cameras : d # c => worker'[d] = worker[d]
  BY <1>1, <1>2, GotoType
<1>4. cam \in [Cameras -> CameraRecord] /\ Owned(cam[c])
  BY DEF IInv, Types, CameraInv
<1>5. /\ next \in CameraRecord /\ next.accepting = cam[c].accepting /\ next.tail = cam[c].tail
      /\ next.finalizing = cam[c].finalizing /\ next.requested = cam[c].requested
      /\ next.started = cam[c].started /\ next.session = cam[c].session
  BY <1>4 DEF CameraRecord
<1> HIDE DEF next
<1>6. /\ cam' \in [Cameras -> CameraRecord] /\ cam'[c] = next
      /\ \A d \in Cameras : d # c => cam'[d] = cam[d]
  BY <1>1, <1>4, <1>5
<1>7. Types'
  BY <1>1, <1>3, <1>6 DEF IInv, Types
<1>8. CameraInv(c)'
  <2>1. Owned(cam'[c])
    BY <1>4, <1>5, <1>6 DEF Owned, HasWindow
  <2>2. ~Still(c)
    BY <1>1 DEF Still
  <2> QED BY <1>1, <1>5, <1>6, <2>1, <2>2, WorkerCamera
<1> QED
  BY <1>1, <1>3, <1>6, <1>7, <1>8, OneCamera

LEMMA ReplayInv ==
    ASSUME IInv, NEW c \in Cameras, ReplayDepth(c)
    PROVE  IInv'
<1> DEFINE job == [NoJob EXCEPT !.stream = "depth", !.session = prestart[c]]
<1>1. /\ worker[c].pc = "replay"
      /\ UNCHANGED <<known, ctl, cam, ingress, queue, segment, tasks>>
      /\ \/ /\ worker' = [worker EXCEPT ![c] = [pc |-> "write", job |-> job]]
            /\ prestart' = [prestart EXCEPT ![c] = 0]
         \/ Goto(c, "wait") /\ UNCHANGED prestart
  BY DEF ReplayDepth
<1>2. prestart' \in [Cameras -> Nat]
  BY <1>1, PrestartType DEF IInv, Types
<1>3. job \in Job
  BY DEF IInv, Types, Job, NoJob, Streams
<1>4. /\ worker' \in [Cameras -> [pc : Places, job : Job \cup {NoJob}]]
      /\ \A d \in Cameras : d # c => worker'[d] = worker[d]
  <2> HIDE DEF job
  <2>1. CASE worker' = [worker EXCEPT ![c] = [pc |-> "write", job |-> job]]
    BY <1>3, <2>1 DEF IInv, Types, Places
  <2>2. CASE Goto(c, "wait")
    BY <2>2, GotoType DEF Places
  <2> QED BY <1>1, <2>1, <2>2
<1>5. Types'
  BY <1>1, <1>2, <1>4 DEF IInv, Types
<1> QED
  BY <1>1, <1>4, <1>5, WorkerStep DEF Still

LEMMA ClaimInv ==
    ASSUME IInv, NEW c \in Cameras, ClaimFault(c) \/ RecordFault(c)
    PROVE  IInv'
<1>1. /\ worker[c].pc \in {"abort", "fault"}
      /\ UNCHANGED <<known, ctl, cam, ingress, queue, segment, prestart, tasks>>
      /\ \E p \in {"wait", "fault", "stop"} : Goto(c, p)
  BY DEF ClaimFault, RecordFault
<1>2. PICK p \in {"wait", "fault", "stop"} : Goto(c, p)
  BY <1>1
<1>3. /\ worker' \in [Cameras -> [pc : Places, job : Job \cup {NoJob}]]
      /\ worker'[c].pc = p
      /\ \A d \in Cameras : d # c => worker'[d] = worker[d]
  BY <1>2, GotoType DEF Places
<1>4. Types'
  BY <1>1, <1>3 DEF IInv, Types
<1>5. Still(c) => Still(c)'
  BY <1>1, <1>3 DEF Still
<1> QED
  BY <1>1, <1>3, <1>4, <1>5, WorkerStep

LEMMA StopOnFaultInv ==
    ASSUME IInv, NEW c \in Cameras, StopOnFault(c)
    PROVE  IInv'
<1>1. /\ worker[c].pc = "stop" /\ LeaveAll /\ StopCameras(known) /\ Goto(c, "wait")
      /\ UNCHANGED <<known, ingress, queue, segment, prestart>>
  BY DEF StopOnFault, StopEverything
<1>2. /\ worker' \in [Cameras -> [pc : Places, job : Job \cup {NoJob}]]
      /\ worker'[c].pc = "wait"
      /\ \A d \in Cameras : d # c => worker'[d] = worker[d]
  BY <1>1, GotoType DEF Places
<1>3. \A d \in Cameras : worker'[d].pc \in {worker[d].pc, "wait"}
  BY <1>2
<1> QED
  BY <1>1, <1>2, <1>3, LeaveAllType, StopCamerasInv

LEMMA WorkInv ==
    ASSUME IInv, NEW c \in Cameras, Work(c)
    PROVE  IInv'
BY TakeJobInv, IgnoreInv, HoldBackInv, WriteInv, FailWriteInv, PublishInv, ReplayInv,
   ClaimInv, StopOnFaultInv DEF Work

-----------------------------------------------------------------------------
\* The maintenance thread and the close tasks

LEMMA FinalizeInv ==
    ASSUME IInv, NEW c \in Cameras, NEW reason \in {"idle", "storage"}, Finalize(c, reason)
    PROVE  IInv'
<1> DEFINE marked == [cam[c] EXCEPT !.finalizing = TRUE]
           next == Accepting(marked, FALSE)
           t == Close(reason)
<1>1. /\ c \in known /\ ~cam[c].finalizing
      /\ cam' = [cam EXCEPT ![c] = next]
      /\ tasks' = [tasks EXCEPT ![c] = Append(tasks[c], t)]
      /\ UNCHANGED <<known, ctl, ingress, queue, worker, segment, prestart>>
  BY DEF Finalize, WorkerVars
<1>2. cam \in [Cameras -> CameraRecord] /\ tasks \in [Cameras -> Seq(Task)] /\ CameraInv(c)
  BY DEF IInv, Types
<1>3. t \in Task /\ t.pc = "tail"
  BY DEF Close, Task
<1> HIDE DEF t
<1>4. /\ marked \in CameraRecord /\ marked.finalizing = TRUE
  BY <1>2 DEF CameraRecord
<1> HIDE DEF marked
<1>5. next \in CameraRecord /\ next.accepting = FALSE /\ next.finalizing = TRUE
  BY <1>4, AcceptingType
<1> HIDE DEF next
<1>6. /\ cam' \in [Cameras -> CameraRecord] /\ cam'[c] = next
      /\ \A d \in Cameras : d # c => cam'[d] = cam[d]
  BY <1>1, <1>2, <1>5
<1>7. tasks[c] = <<>>
  BY <1>1, <1>2 DEF CameraInv, OneTask
<1>8. /\ tasks' \in [Cameras -> Seq(Task)] /\ tasks'[c] = <<t>>
      /\ \A d \in Cameras : d # c => tasks'[d] = tasks[d]
  BY <1>1, <1>2, <1>3, <1>7, SingleTask
<1>9. Types'
  BY <1>1, <1>6, <1>8 DEF IInv, Types
<1>10. CameraInv(c)'
  <2>1. Owned(cam'[c])
    BY <1>5, <1>6 DEF Owned
  <2>2. OneTask(c)'
    BY <1>3, <1>5, <1>6, <1>8 DEF OneTask
  <2>3. ASSUME NEW u \in Task, tasks'[c] = <<u>> PROVE Progress(c, u)'
    <3>1. u.pc = "tail"
      BY <1>3, <1>8, <2>3, SingleTask
    <3> QED BY <3>1 DEF Progress
  <2>4. Idle(c)' /\ Unheard(c)'
    BY <1>1, <1>5, <1>6 DEF Idle, Unheard
  <2> QED BY <2>1, <2>2, <2>3, <2>4 DEF CameraInv
<1> QED
  BY <1>1, <1>6, <1>8, <1>9, <1>10, OneCamera

\* The close task that takes a step is the only one of its camera.
LEMMA Closer ==
    ASSUME IInv, NEW c \in Cameras, NEW i \in DOMAIN tasks[c]
    PROVE  /\ i = 1 /\ cam[c].finalizing
           /\ \E t \in Task : tasks[c] = <<t>> /\ tasks[c][i] = t /\ Progress(c, t)
<1>1. CameraInv(c)
  BY DEF IInv
<1>2. CASE ~cam[c].finalizing
  BY <1>1, <1>2 DEF CameraInv, OneTask
<1>3. CASE cam[c].finalizing
  <2>1. PICK t \in Task : tasks[c] = <<t>>
    BY <1>1, <1>3 DEF CameraInv, OneTask
  <2>2. i = 1 /\ tasks[c][i] = t
    BY <2>1, SingleTask
  <2> QED BY <1>1, <1>3, <2>1, <2>2 DEF CameraInv
<1> QED
  BY <1>2, <1>3

LEMMA StepTask ==
    ASSUME IInv, NEW c \in Cameras, NEW t \in Task, tasks[c] = <<t>>,
           NEW p \in {"tail", "queue", "detach", "finish"}, Step(c, 1, p)
    PROVE  /\ tasks' \in [Cameras -> Seq(Task)]
           /\ \E u \in Task : u.pc = p /\ tasks'[c] = <<u>>
           /\ \A d \in Cameras : d # c => tasks'[d] = tasks[d]
<1> DEFINE u == [t EXCEPT !.pc = p]
<1>1. tasks \in [Cameras -> Seq(Task)]
  BY DEF IInv, Types
<1>2. u \in Task /\ u.pc = p
  BY DEF Task
<1>3. tasks' = [tasks EXCEPT ![c] = [tasks[c] EXCEPT ![1] = [tasks[c][1] EXCEPT !.pc = p]]]
  BY DEF Step
<1>4. [tasks[c] EXCEPT ![1] = [tasks[c][1] EXCEPT !.pc = p]] = [<<t>> EXCEPT ![1] = u]
  BY SingleTask
<1> HIDE DEF u
<1>5. [<<t>> EXCEPT ![1] = u] = <<u>>
  OBVIOUS
<1>6. tasks' = [tasks EXCEPT ![c] = <<u>>]
  BY <1>3, <1>4, <1>5
<1> QED
  BY <1>1, <1>2, <1>6

\* The camera of a close task that has moved on.
LEMMA ClosingCamera ==
    ASSUME IInv, NEW c \in Cameras, NEW u \in Task, tasks'[c] = <<u>>,
           cam[c].finalizing, cam'[c].finalizing, known' = known,
           Owned(cam'[c]), Progress(c, u)'
    PROVE  CameraInv(c)'
<1>1. \A t \in Task : tasks'[c] = <<t>> => t = u
  BY SingleTask
<1>2. c \in known
  BY DEF IInv, CameraInv, Unheard
<1> QED
  BY <1>1, <1>2 DEF CameraInv, OneTask, Idle, Unheard

LEMMA DrainInv ==
    ASSUME IInv, NEW c \in Cameras, NEW i \in DOMAIN tasks[c], DrainTail(c, i)
    PROVE  IInv'
<1>1. PICK t \in Task : tasks[c] = <<t>> /\ i = 1 /\ t.pc = "tail" /\ cam[c].finalizing
  BY Closer DEF DrainTail
<1>2. /\ Step(c, 1, "queue")
      /\ UNCHANGED <<known, ctl, ingress, queue, worker, segment, prestart>>
  BY <1>1 DEF DrainTail, WorkerVars
<1>3. PICK u \in Task : u.pc = "queue" /\ tasks'[c] = <<u>>
  BY <1>1, <1>2, StepTask
<1>4. /\ tasks' \in [Cameras -> Seq(Task)]
      /\ \A d \in Cameras : d # c => tasks'[d] = tasks[d]
  BY <1>1, <1>2, StepTask
<1>5. cam \in [Cameras -> CameraRecord] /\ Owned(cam[c])
  BY DEF IInv, Types, CameraInv
<1>6. /\ cam' \in [Cameras -> CameraRecord]
      /\ Owned(cam'[c]) /\ cam'[c].tail = 0 /\ cam'[c].finalizing
      /\ \A d \in Cameras : d # c => cam'[d] = cam[d]
  <2> DEFINE ended == [cam[c] EXCEPT !.tail = 0]
             next == Accepting(ended, FALSE)
  <2>1. CASE cam[c].tail = 0
    BY <1>1, <1>5, <2>1 DEF DrainTail
  <2>2. CASE cam[c].tail # 0
    <3>1. cam' = [cam EXCEPT ![c] = next]
      BY <2>2 DEF DrainTail
    <3>2. /\ ended \in CameraRecord /\ ended.tail = 0
          /\ ended.finalizing = cam[c].finalizing
      BY <1>5 DEF CameraRecord
    <3> HIDE DEF ended
    <3>3. /\ next \in CameraRecord /\ next.tail = 0 /\ next.accepting = FALSE
          /\ next.finalizing = cam[c].finalizing
      BY <3>2, AcceptingType
    <3> HIDE DEF next
    <3>4. Owned(next) /\ next.finalizing
      BY <1>1, <3>3 DEF Owned
    <3> QED BY <1>5, <3>1, <3>3, <3>4
  <2> QED BY <2>1, <2>2
<1>7. Types'
  BY <1>2, <1>4, <1>6 DEF IInv, Types
<1>8. Progress(c, u)'
  BY <1>3, <1>6 DEF Progress
<1>9. CameraInv(c)'
  BY <1>1, <1>2, <1>3, <1>6, <1>8, ClosingCamera
<1> QED
  BY <1>2, <1>4, <1>6, <1>7, <1>9, OneCamera

LEMMA AwaitQueueInv ==
    ASSUME IInv, NEW c \in Cameras, NEW i \in DOMAIN tasks[c], AwaitQueue(c, i)
    PROVE  IInv'
<1>1. PICK t \in Task : /\ tasks[c] = <<t>> /\ i = 1 /\ t.pc = "queue"
                        /\ cam[c].finalizing /\ Progress(c, t)
  BY Closer DEF AwaitQueue
<1>2. /\ Step(c, 1, "detach") /\ queue[c] = <<>> /\ worker[c].pc = "wait"
      /\ UNCHANGED <<known, ctl, cam, ingress, queue, worker, segment, prestart>>
  BY <1>1 DEF AwaitQueue, WorkerVars
<1>3. PICK u \in Task : u.pc = "detach" /\ tasks'[c] = <<u>>
  BY <1>1, <1>2, StepTask
<1>4. /\ tasks' \in [Cameras -> Seq(Task)]
      /\ \A d \in Cameras : d # c => tasks'[d] = tasks[d]
  BY <1>1, <1>2, StepTask
<1>5. Types'
  BY <1>2, <1>4 DEF IInv, Types
<1>6. Progress(c, u)'
  BY <1>1, <1>2, <1>3 DEF Progress
<1>7. Owned(cam[c])'
  BY <1>2 DEF IInv, CameraInv
<1>8. CameraInv(c)'
  BY <1>1, <1>2, <1>3, <1>6, <1>7, ClosingCamera
<1> QED
  BY <1>2, <1>4, <1>5, <1>8, OneCamera

LEMMA DetachInv ==
    ASSUME IInv, NEW c \in Cameras, NEW i \in DOMAIN tasks[c], DetachWriter(c, i)
    PROVE  IInv'
<1>1. PICK t \in Task : /\ tasks[c] = <<t>> /\ i = 1 /\ t.pc = "detach"
                        /\ cam[c].finalizing /\ Progress(c, t)
  BY Closer DEF DetachWriter
<1>2. /\ Step(c, 1, "finish")
      /\ segment' = [segment EXCEPT ![c] = NoWriter]
      /\ prestart' = [prestart EXCEPT ![c] = 0]
      /\ UNCHANGED <<known, ctl, cam, ingress, queue, worker>>
  BY <1>1 DEF DetachWriter
<1>3. PICK u \in Task : u.pc = "finish" /\ tasks'[c] = <<u>>
  BY <1>1, <1>2, StepTask
<1>4. /\ tasks' \in [Cameras -> Seq(Task)]
      /\ \A d \in Cameras : d # c => tasks'[d] = tasks[d]
  BY <1>1, <1>2, StepTask
<1>5. /\ segment' \in [Cameras -> [session : Nat, holds : SUBSET Nat]]
      /\ segment'[c] = NoWriter
      /\ \A d \in Cameras : d # c => segment'[d] = segment[d]
  BY <1>2 DEF IInv, Types, NoWriter
<1>6. Types'
  BY <1>2, <1>4, <1>5, PrestartType DEF IInv, Types
<1>7. Progress(c, u)'
  BY <1>1, <1>2, <1>3, <1>5 DEF Progress
<1>8. Owned(cam[c])'
  BY <1>2 DEF IInv, CameraInv
<1>9. CameraInv(c)'
  BY <1>1, <1>2, <1>3, <1>7, <1>8, ClosingCamera
<1> QED
  BY <1>2, <1>4, <1>5, <1>6, <1>9, OneCamera

\* The camera of a task that ends, before anything is activated.
LEMMA DetachedOwned ==
    ASSUME IInv, NEW c \in Cameras, cam[c].finalizing, cam[c].tail = 0
    PROVE  /\ Detached(c) \in [Cameras -> CameraRecord]
           /\ Owned(Detached(c)[c]) /\ Detached(c)[c].tail = 0
           /\ ~Detached(c)[c].finalizing
           /\ \A d \in Cameras : d # c => Detached(c)[d] = cam[d]
<1> DEFINE next == [cam[c] EXCEPT !.active = FALSE, !.finalizing = FALSE]
<1>1. cam \in [Cameras -> CameraRecord] /\ Owned(cam[c])
  BY DEF IInv, Types, CameraInv
<1>2. Detached(c) = [cam EXCEPT ![c] = next]
  BY <1>1 DEF Detached
<1>3. /\ next \in CameraRecord /\ next.finalizing = FALSE
      /\ next.tail = cam[c].tail /\ next.accepting = cam[c].accepting
  BY <1>1 DEF CameraRecord
<1> HIDE DEF next
<1>4. Owned(next)
  BY <1>1, <1>3 DEF Owned
<1> QED
  BY <1>1, <1>2, <1>3, <1>4

LEMMA FinishInv ==
    ASSUME IInv, NEW c \in Cameras, NEW i \in DOMAIN tasks[c], FinishClose(c, i)
    PROVE  IInv'
<1>1. PICK t \in Task : /\ tasks[c] = <<t>> /\ i = 1 /\ t.pc = "finish"
                        /\ cam[c].finalizing /\ Progress(c, t)
  BY Closer DEF FinishClose
<1>2. /\ cam[c].tail = 0 /\ queue[c] = <<>> /\ worker[c].pc = "wait"
      /\ segment[c] = NoWriter
  BY <1>1 DEF Progress
<1>3. UNCHANGED <<ingress, queue, worker, segment, prestart>>
  BY DEF FinishClose, WorkerVars
<1>4. tasks' = [tasks EXCEPT ![c] = <<>>]
  BY <1>1, SingleTask DEF FinishClose
<1>5. /\ tasks' \in [Cameras -> Seq(Task)] /\ tasks'[c] = <<>>
      /\ \A d \in Cameras : d # c => tasks'[d] = tasks[d]
  BY <1>4 DEF IInv, Types
<1>6. /\ Detached(c) \in [Cameras -> CameraRecord]
      /\ Owned(Detached(c)[c]) /\ ~Detached(c)[c].finalizing /\ Detached(c)[c].tail = 0
      /\ \A d \in Cameras : d # c => Detached(c)[d] = cam[d]
  BY <1>1, <1>2, DetachedOwned
<1>7. \A d \in Cameras : Owned(cam[d]) /\ Owned(Detached(c)[d])
  BY <1>6 DEF IInv, CameraInv
<1>8. /\ ctl' \in ControlRecord /\ known' = known /\ cam' \in [Cameras -> CameraRecord]
      /\ \A d \in Cameras : SameOwner(Detached(c)[d], cam'[d])
  <2>1. CASE t.reason = "storage"
    <3> DEFINE old == Detached(c)[c]
               next == [old EXCEPT !.pending = TRUE]
    <3>1. cam' = [Detached(c) EXCEPT ![c] = next] /\ UNCHANGED <<known, ctl>>
      BY <1>1, <1>6, <2>1 DEF FinishClose
    <3>2. old \in CameraRecord /\ Owned(old)
      BY <1>6
    <3> HIDE DEF old
    <3>3. /\ next \in CameraRecord /\ next.requested = old.requested
          /\ next.finalizing = old.finalizing /\ next.tail = old.tail
          /\ next.accepting = old.accepting /\ next.started = old.started
          /\ next.session = old.session
      BY <3>2 DEF CameraRecord
    <3> HIDE DEF next
    <3>4. SameOwner(old, next)
      BY <3>2, <3>3 DEF SameOwner, Owned, HasWindow
    <3>5. ASSUME NEW d \in Cameras PROVE SameOwner(Detached(c)[d], cam'[d])
      BY <1>6, <1>7, <3>1, <3>4 DEF SameOwner, old
    <3> QED BY <1>6, <3>1, <3>3, <3>5 DEF IInv, Types
  <2>2. CASE t.reason # "storage"
    <3>1. Activate(ctl, Detached(c), known)
      BY <1>1, <2>2 DEF FinishClose
    <3>2. ctl \in ControlRecord /\ known \in SUBSET Cameras
      BY DEF IInv, Types
    <3> QED BY <1>6, <1>7, <3>1, <3>2, ActivatedOwned DEF Activate
  <2> QED BY <2>1, <2>2
<1>9. Types'
  BY <1>3, <1>5, <1>8 DEF IInv, Types
<1>10. CameraInv(c)'
  <2>1. Owned(cam'[c]) /\ ~cam'[c].finalizing
    BY <1>6, <1>8 DEF SameOwner
  <2>2. OneTask(c)' /\ (\A u \in Task : tasks'[c] # <<u>>)
    BY <1>5, <2>1, SingleTask DEF OneTask
  <2>3. Still(c)'
    BY <1>2, <1>3 DEF Still
  <2>4. Unheard(c)'
    BY <1>1, <1>8 DEF IInv, CameraInv, Unheard
  <2> QED BY <2>1, <2>2, <2>3, <2>4 DEF CameraInv, Idle
<1>11. ASSUME NEW d \in Cameras, d # c PROVE CameraInv(d)'
  <2>1. /\ CameraInv(d) /\ Owned(cam'[d])
        /\ cam'[d].requested = cam[d].requested
        /\ cam'[d].finalizing = cam[d].finalizing /\ cam'[d].tail = cam[d].tail
    BY <1>6, <1>8, <1>11 DEF SameOwner, IInv
  <2> QED BY <1>3, <1>5, <1>8, <1>11, <2>1 DEF CameraInv, OneTask, Progress, Idle, Still, Unheard
<1> QED
  BY <1>9, <1>10, <1>11 DEF IInv

-----------------------------------------------------------------------------
\* The theorems

LEMMA NextIInv == IInv /\ [Next]_vars => IInv'
<1> SUFFICES ASSUME IInv, [Next]_vars PROVE IInv'
  OBVIOUS
<1>1. CASE Request
  BY <1>1, StartAllInv, StartSenderInv, StartCameraInv, StopInv DEF Request
<1>2. CASE Discover
  BY <1>2, DiscoverInv
<1>3. ASSUME NEW c \in Cameras,
             ReceivePacket(c) \/ EnqueueJob(c) \/ Work(c)
               \/ FinalizeIdle(c) \/ FinalizeFailed(c) \/ CloseTask(c)
      PROVE  IInv'
  <2>1. CASE ReceivePacket(c) \/ EnqueueJob(c) \/ Work(c)
    BY <2>1, ReceiveInv, EnqueueInv, WorkInv
  <2>2. CASE FinalizeIdle(c) \/ FinalizeFailed(c)
    BY <2>2, FinalizeInv DEF FinalizeIdle, FinalizeFailed
  <2>3. CASE CloseTask(c)
    BY <2>3, DrainInv, AwaitQueueInv, DetachInv, FinishInv DEF CloseTask
  <2> QED BY <1>3, <2>1, <2>2, <2>3
<1>4. CASE UNCHANGED vars
  BY <1>4 DEF vars, IInv, Types, CameraInv, OneTask, Progress, Idle, Still, Unheard
<1> QED
  BY <1>1, <1>2, <1>3, <1>4 DEF Next

\* The inductive invariant holds in every reachable state.
THEOREM Invariance == Spec => []IInv
BY InitIInv, NextIInv, PTL DEF Spec

\* However requests, media threads, maintenance and storage failures interleave, at
\* most one close task works on a camera, and the camera is marked as finalizing
\* (schedule_close_segment, close_segment_task) for exactly as long.
THEOREM CloseTaskUnique == Spec => []OneCloseTask
<1>1. IInv => OneCloseTask
  <2> SUFFICES ASSUME IInv, NEW c \in Cameras
               PROVE  /\ Len(tasks[c]) <= 1
                      /\ cam[c].finalizing <=> tasks[c] # <<>>
    BY DEF OneCloseTask
  <2>1. OneTask(c)
    BY DEF IInv, CameraInv
  <2>2. CASE cam[c].finalizing
    <3>1. PICK t \in Task : tasks[c] = <<t>>
      BY <2>1, <2>2 DEF OneTask
    <3> QED BY <2>2, <3>1
  <2>3. CASE ~cam[c].finalizing
    BY <2>1, <2>3 DEF OneTask
  <2> QED BY <2>2, <2>3
<1> QED
  BY <1>1, Invariance, PTL

\* The input of a camera (set_record_accepting) is open only for a recording that is
\* requested and has a window, or for the close task that drains its tail; and an open
\* segment (SegmentWriter) belongs to a requested recording or to the close task that will
\* detach it: none is left open by a stop, a failure or a late packet.
THEOREM EachHasOwner == Spec => []NothingOrphaned
<1>1. IInv => InputHasOwner
  <2> SUFFICES ASSUME IInv, NEW c \in Cameras, cam[c].accepting
               PROVE  IF cam[c].tail # 0 THEN cam[c].finalizing
                      ELSE cam[c].requested /\ ~cam[c].finalizing /\ HasWindow(cam[c])
    BY DEF InputHasOwner
  <2>1. Owned(cam[c])
    BY DEF IInv, CameraInv
  <2> QED BY <2>1 DEF Owned
<1>2. IInv => WriterHasOwner
  BY DEF IInv, CameraInv, Idle, Still, WriterHasOwner
<1> QED
  BY <1>1, <1>2, Invariance, PTL DEF NothingOrphaned

-----------------------------------------------------------------------------
\* What a step may do to the input of a camera

\* No input is open for a recording that is still pending, unless it is drained.
Settled(cm) == cm.accepting /\ cm.pending => cm.finalizing

\* The input stays as it is, and under the same window.
Keeps(cm, next) ==
    /\ next.accepting = cm.accepting /\ next.generation = cm.generation
    /\ cm.accepting => JobSession(next) = JobSession(cm)
    /\ cm.finalizing => next.finalizing
    /\ next.accepting /\ next.pending => cm.pending \/ next.finalizing

\* The input is closed for a close task.
Closes(cm, next) ==
    /\ ~next.accepting /\ next.tail = 0 /\ next.finalizing
    /\ next.generation = cm.generation + 1

\* Camera c is heard of, its close task ends, or it has been without one and
\* closed: it may begin to record.
Restarts(c) ==
    /\ ~cam[c].accepting /\ cam'[c].tail = 0 /\ ~cam'[c].finalizing
    /\ cam[c].finalizing => \E t \in Task : t.pc = "finish" /\ tasks[c] = <<t>>
    /\ c \in known => /\ cam'[c].generation >= cam[c].generation
                      /\ cam'[c].accepting => cam'[c].generation > cam[c].generation
    /\ cam'[c].accepting =>
          /\ ~cam'[c].pending
          /\ ctl'.all => cam'[c].session = ctl'.session /\ ctl'.session # 0

Fails(c) == ~cam'[c].accepting /\ budget'.faults < budget.faults

InputStep(c) ==
    \/ Keeps(cam[c], cam'[c]) \/ Closes(cam[c], cam'[c])
    \/ Restarts(c) \/ Fails(c)

\* Whatever camera c is about to write, holds back or has written is of the sessions S.
Carries(c, S) ==
    /\ \A i \in DOMAIN queue[c] : queue[c][i].session \in S
    /\ worker[c].pc # "wait" => worker[c].job.session \in S
    /\ prestart[c] \in S \cup {0}
    /\ worker[c].pc = "replay" => prestart[c] # 0
    /\ segment[c] # NoWriter => segment[c].session \in S
    /\ segment[c].holds \subseteq S

\* Session numbers come from the counter.
Issued ==
    /\ ctl.session <= ctl.last
    /\ \A c \in Cameras :
          /\ cam[c].session <= ctl.last /\ cam[c].tail <= ctl.last
          /\ ingress[c].session <= ctl.last
          /\ Carries(c, 0..ctl.last)

\* No step of start-all takes its session back.
KeepsSession == ctl.all /\ ctl'.all /\ ctl.session # 0 => ctl'.session = ctl.session

\* The step of the recording state alone.
Numbered ==
    /\ ctl'.last >= ctl.last /\ ctl'.session <= ctl'.last
    /\ \A c \in Cameras : cam'[c].session <= ctl'.last /\ cam'[c].tail <= ctl'.last

Budget == [packets : Nat, calls : Nat, idles : Nat, faults : Nat]

MoreTypes == fault \in [stop : BOOLEAN, recorded : BOOLEAN] /\ budget \in Budget

NInv == IInv /\ MoreTypes /\ Issued /\ \A c \in Cameras : Settled(cam[c])

-----------------------------------------------------------------------------
\* A segment holds packets of one session as long as no write fails

\* Nothing of a recording is left.
Empty(c) ==
    /\ queue[c] = <<>> /\ worker[c].pc = "wait"
    /\ segment[c] = NoWriter /\ prestart[c] = 0

\* Whatever camera c has, and whatever its input lets in, is of session n.
Bound(c, n) ==
    /\ Carries(c, {n})
    /\ cam[c].accepting => JobSession(cam[c]) = n
    /\ cam[c].accepting /\ ingress[c] # NoJob /\ ingress[c].generation = cam[c].generation
          => ingress[c].session = n

Pure(c) ==
    /\ worker[c].pc \in {"wait", "write", "publish", "replay"}
    /\ ~cam[c].accepting /\ ~cam[c].finalizing => Empty(c)
    /\ \A t \in Task : t.pc = "finish" /\ tasks[c] = <<t>> => prestart[c] = 0
    /\ c \notin known => ingress[c] = NoJob
    /\ ingress[c] # NoJob => ingress[c].generation <= cam[c].generation
    /\ \E n \in Nat : Bound(c, n)

PureInv == budget.faults = 0 /\ \A c \in Cameras : Pure(c)

-----------------------------------------------------------------------------
\* Activation: which camera is opened, under which number

\* An activation leaves a camera alone, or makes it wait.
Waits(cm, next) ==
    /\ next.accepting = cm.accepting /\ next.generation = cm.generation
    /\ next.session = cm.session /\ next.tail = cm.tail /\ next.finalizing = cm.finalizing
    /\ next.pending => cm.pending \/ ~(cm.accepting /\ HasWindow(cm))

\* Or it opens its input, under a new window unless it has one.
Opens(cm, next) ==
    /\ ~cm.finalizing /\ (cm.accepting => cm.pending \/ ~HasWindow(cm))
    /\ next.accepting /\ ~next.pending
    /\ next.generation = IF cm.accepting THEN cm.generation ELSE cm.generation + 1
    /\ next.tail = cm.tail /\ next.finalizing = cm.finalizing

LEMMA BegunOpens ==
    ASSUME NEW cm \in CameraRecord, ~cm.finalizing, cm.accepting => cm.pending \/ ~HasWindow(cm),
           NEW id \in Nat
    PROVE  Opens(cm, Begun(cm, id)) /\ Begun(cm, id).session = id
<1> DEFINE cm1 == [cm EXCEPT !.started = TRUE, !.pending = FALSE, !.session = id]
           cm2 == [cm1 EXCEPT !.accepting = TRUE, !.generation = @ + 1]
           next == Begun(cm, id)
<1>1. /\ cm1 \in CameraRecord /\ cm1.pending = FALSE /\ cm1.session = id
      /\ cm1.accepting = cm.accepting /\ cm1.finalizing = cm.finalizing
      /\ cm1.tail = cm.tail /\ cm1.generation = cm.generation
  BY DEF CameraRecord
<1>2. next = IF cm1.accepting = TRUE THEN cm1 ELSE cm2
  BY DEF Begun, Accepting
<1> HIDE DEF cm1
<1>3. /\ cm2.pending = FALSE /\ cm2.session = id /\ cm2.accepting = TRUE
      /\ cm2.finalizing = cm.finalizing
      /\ cm2.tail = cm.tail /\ cm2.generation = cm.generation + 1
  BY <1>1 DEF CameraRecord
<1>4. cm.accepting \in BOOLEAN /\ cm.pending \in BOOLEAN
  BY DEF CameraRecord
<1> HIDE DEF cm2, next
<1>5. CASE cm.accepting
  <2>1. next = cm1
    BY <1>1, <1>2, <1>4, <1>5
  <2>2. Opens(cm, next) /\ next.session = id
    BY <1>1, <1>5, <2>1 DEF Opens
  <2> QED BY <2>2 DEF next
<1>6. CASE ~cm.accepting
  <2>1. next = cm2
    BY <1>1, <1>2, <1>4, <1>6
  <2>2. Opens(cm, next) /\ next.session = id
    BY <1>3, <1>6, <2>1 DEF Opens
  <2> QED BY <2>2 DEF next
<1> QED BY <1>5, <1>6

\* The numbers an activation hands out.
Numbers(k, m, a) ==
    /\ a.ctl.all = k.all /\ a.ctl.last \in Nat /\ a.ctl.last >= k.last
    /\ k.session <= k.last => a.ctl.session <= a.ctl.last
    /\ k.all /\ k.session # 0 => a.ctl.session = k.session
    /\ \A c \in Cameras :
          m[c].session <= k.last /\ k.session <= k.last => a.cam[c].session <= a.ctl.last

Effect(k, m, a) ==
    \A c \in Cameras :
        \/ Waits(m[c], a.cam[c])
        \/ /\ Opens(m[c], a.cam[c])
           /\ k.all => a.cam[c].session = a.ctl.session /\ a.ctl.session # 0

LEMMA ActivateEachEffect ==
    ASSUME NEW k \in ControlRecord, NEW m \in [Cameras -> CameraRecord],
           NEW s \in SUBSET Cameras, ~k.all
    PROVE  Numbers(k, m, ActivateEach(k, m, s)) /\ Effect(k, m, ActivateEach(k, m, s))
<1> DEFINE fresh == {c \in s : MayOpen(m[c]) /\ ~HasWindow(m[c])}
           before(c) == {d \in fresh : d <= c}
           id(c) == k.last + Cardinality(before(c))
           next(c) == IF c \in s /\ MayOpen(m[c])
                      THEN Accepting([m[c] EXCEPT !.started = TRUE, !.pending = FALSE,
                                        !.session = IF c \in fresh THEN id(c) ELSE @], TRUE)
                      ELSE m[c]
           count == Cardinality(fresh)
           a == ActivateEach(k, m, s)
<1>1. IsFiniteSet(fresh) /\ count \in Nat
  BY RecordingAssumption, FS_Subset, FS_CardinalityType
<1>2. ASSUME NEW c \in fresh PROVE id(c) \in Nat /\ id(c) <= k.last + count
  <2>1. before(c) \in SUBSET fresh
    OBVIOUS
  <2>2. IsFiniteSet(before(c)) /\ Cardinality(before(c)) <= count
    BY <1>1, <2>1, FS_Subset
  <2>3. Cardinality(before(c)) \in Nat
    BY <2>2, FS_CardinalityType
  <2>4. k.last \in Nat
    BY DEF ControlRecord
  <2> HIDE DEF before, count
  <2> QED BY <1>1, <2>2, <2>3, <2>4
<1>3. /\ a.ctl = [k EXCEPT !.last = k.last + count]
      /\ \A c \in Cameras : a.cam[c] = next(c)
  BY DEF ActivateEach
<1> HIDE DEF a
<1>4. /\ k.last \in Nat /\ k.session \in Nat /\ k.all \in BOOLEAN
      /\ a.ctl.all = k.all /\ a.ctl.last = k.last + count /\ a.ctl.session = k.session
  <2> HIDE DEF count
  <2> QED BY <1>1, <1>3 DEF ControlRecord
<1> HIDE DEF count
<1>5. ASSUME NEW c \in Cameras
      PROVE  /\ Waits(m[c], next(c)) \/ Opens(m[c], next(c))
             /\ m[c].session <= k.last => next(c).session <= k.last + count
  <2> DEFINE session == IF c \in fresh THEN id(c) ELSE m[c].session
  <2>1. m[c] \in CameraRecord /\ m[c].session \in Nat
    BY DEF CameraRecord
  <2>2. CASE c \in s /\ MayOpen(m[c])
    <3>1. session \in Nat /\ (m[c].session <= k.last => session <= k.last + count)
      BY <1>1, <1>2, <1>4, <2>1
    <3>2. next(c) = Begun(m[c], session)
      BY <2>2 DEF Begun
    <3>3. ~m[c].finalizing /\ ~m[c].accepting
      BY <2>2 DEF MayOpen
    <3> HIDE DEF next, session
    <3>4. Opens(m[c], Begun(m[c], session)) /\ Begun(m[c], session).session = session
      BY <2>1, <3>1, <3>3, BegunOpens
    <3> QED BY <3>1, <3>2, <3>4
  <2>3. CASE ~(c \in s /\ MayOpen(m[c]))
    <3>1. next(c) = m[c]
      BY <2>3
    <3> HIDE DEF next
    <3> QED BY <1>1, <1>4, <2>1, <3>1 DEF Waits
  <2> QED BY <2>2, <2>3
<1> HIDE DEF fresh, before, id, next
<1>6. Effect(k, m, a)
  BY <1>3, <1>5 DEF Effect
<1>7. Numbers(k, m, a)
  BY <1>1, <1>3, <1>4, <1>5 DEF Numbers
<1> QED
  BY <1>6, <1>7 DEF a

LEMMA AwaitDetachEffect ==
    ASSUME NEW k \in ControlRecord, NEW m \in [Cameras -> CameraRecord],
           NEW s \in SUBSET Cameras
    PROVE  Numbers(k, m, AwaitDetach(k, m, s)) /\ Effect(k, m, AwaitDetach(k, m, s))
<1> DEFINE next(c) == IF c \in s /\ m[c].requested /\ ~(m[c].accepting /\ HasWindow(m[c]))
                      THEN [m[c] EXCEPT !.pending = TRUE] ELSE m[c]
           a == AwaitDetach(k, m, s)
<1>1. /\ a.ctl = [k EXCEPT !.pending = TRUE]
      /\ \A c \in Cameras : a.cam[c] = next(c)
  BY DEF AwaitDetach
<1> HIDE DEF a
<1>2. /\ k.last \in Nat /\ k.session \in Nat
      /\ a.ctl.all = k.all /\ a.ctl.last = k.last /\ a.ctl.session = k.session
  BY <1>1 DEF ControlRecord
<1>3. ASSUME NEW c \in Cameras
      PROVE  Waits(m[c], next(c)) /\ next(c).session = m[c].session
  <2>1. m[c] \in CameraRecord
    OBVIOUS
  <2>2. \/ next(c) = m[c]
        \/ /\ ~(m[c].accepting /\ HasWindow(m[c]))
           /\ next(c) = [m[c] EXCEPT !.pending = TRUE]
    OBVIOUS
  <2> HIDE DEF next
  <2>3. CASE next(c) = m[c]
    BY <2>3 DEF Waits
  <2>4. CASE /\ ~(m[c].accepting /\ HasWindow(m[c]))
             /\ next(c) = [m[c] EXCEPT !.pending = TRUE]
    <3>1. /\ next(c).accepting = m[c].accepting /\ next(c).generation = m[c].generation
          /\ next(c).session = m[c].session /\ next(c).tail = m[c].tail
          /\ next(c).finalizing = m[c].finalizing
      BY <2>1, <2>4 DEF CameraRecord
    <3> QED BY <2>4, <3>1 DEF Waits
  <2> QED BY <2>2, <2>3, <2>4
<1> HIDE DEF next
<1>4. Effect(k, m, a)
  BY <1>1, <1>3 DEF Effect
<1>5. Numbers(k, m, a)
  BY <1>1, <1>2, <1>3 DEF Numbers
<1> QED
  BY <1>4, <1>5 DEF a

LEMMA ActivateAllEffect ==
    ASSUME NEW k \in ControlRecord, NEW m \in [Cameras -> CameraRecord],
           NEW s \in SUBSET Cameras, ~Detaching(m, s)
    PROVE  Numbers(k, m, ActivateAll(k, m, s)) /\ Effect(k, m, ActivateAll(k, m, s))
<1> DEFINE last == IF k.session = 0 THEN k.last + 1 ELSE k.last
           id == IF k.session = 0 THEN last ELSE k.session
           next(c) == IF c \in s /\ m[c].requested /\ ~KeepsTimeline(m[c])
                      THEN Accepting([m[c] EXCEPT !.started = TRUE, !.session = id,
                                                  !.pending = FALSE], TRUE)
                      ELSE m[c]
           a == ActivateAll(k, m, s)
<1>1. /\ k.last \in Nat /\ k.session \in Nat /\ last \in Nat /\ id \in Nat /\ id # 0
      /\ last >= k.last /\ (k.session <= k.last => id <= last)
      /\ k.session # 0 => id = k.session
  BY DEF ControlRecord
<1>2. /\ a.ctl = [k EXCEPT !.pending = FALSE, !.session = id, !.last = last]
      /\ \A c \in Cameras : a.cam[c] = next(c)
  BY DEF ActivateAll
<1> HIDE DEF a, id, last
<1>3. a.ctl.all = k.all /\ a.ctl.last = last /\ a.ctl.session = id
  BY <1>1, <1>2 DEF ControlRecord
<1>4. ASSUME NEW c \in Cameras
      PROVE  \/ Waits(m[c], next(c)) /\ next(c).session = m[c].session
             \/ Opens(m[c], next(c)) /\ next(c).session = id
  <2>1. m[c] \in CameraRecord
    OBVIOUS
  <2>2. CASE c \in s /\ m[c].requested /\ ~KeepsTimeline(m[c])
    <3>1. next(c) = Begun(m[c], id)
      BY <1>1, <2>1, <2>2 DEF Begun, CameraRecord
    <3>2. ~m[c].finalizing
      BY <2>2 DEF Detaching
    <3>3. m[c].accepting => m[c].pending \/ ~HasWindow(m[c])
      BY <2>2 DEF KeepsTimeline
    <3> HIDE DEF next
    <3> QED BY <1>1, <2>1, <3>1, <3>2, <3>3, BegunOpens
  <2>3. CASE ~(c \in s /\ m[c].requested /\ ~KeepsTimeline(m[c]))
    <3>1. next(c) = m[c]
      BY <2>3
    <3> HIDE DEF next
    <3> QED BY <3>1 DEF Waits
  <2> QED BY <2>2, <2>3
<1>5. \A c \in Cameras : m[c].session \in Nat
  BY DEF CameraRecord
<1> HIDE DEF next
<1>6. Effect(k, m, a)
  BY <1>1, <1>2, <1>3, <1>4 DEF Effect
<1>7. Numbers(k, m, a)
  BY <1>1, <1>2, <1>3, <1>4, <1>5 DEF Numbers
<1> QED
  BY <1>6, <1>7 DEF a

LEMMA ActivatedEffect ==
    ASSUME NEW k \in ControlRecord, NEW m \in [Cameras -> CameraRecord],
           NEW s \in SUBSET Cameras
    PROVE  Numbers(k, m, Activated(k, m, s)) /\ Effect(k, m, Activated(k, m, s))
<1>1. CASE ~k.all
  BY <1>1, ActivateEachEffect DEF Activated
<1>2. CASE k.all /\ Detaching(m, s)
  BY <1>2, AwaitDetachEffect DEF Activated
<1>3. CASE k.all /\ ~Detaching(m, s)
  BY <1>3, ActivateAllEffect DEF Activated
<1> QED
  BY <1>1, <1>2, <1>3

-----------------------------------------------------------------------------
\* Every step of a recording is one of these

\* A camera as a request has prepared it for the activation.
Prepared(cm, mc) ==
    /\ mc.accepting = cm.accepting /\ mc.generation = cm.generation
    /\ mc.tail = cm.tail /\ mc.finalizing = cm.finalizing
    /\ cm.accepting /\ cm.tail = 0 =>
          mc.session = cm.session /\ mc.pending = cm.pending /\ mc.started = cm.started

LEMMA PreparedStep ==
    ASSUME NEW c \in Cameras, cam[c] \in CameraRecord, NEW mc \in CameraRecord,
           Owned(cam[c]), Settled(cam[c]), Prepared(cam[c], mc),
           \/ Waits(mc, cam'[c])
           \/ /\ Opens(mc, cam'[c])
              /\ ctl'.all => cam'[c].session = ctl'.session /\ ctl'.session # 0
    PROVE  InputStep(c)
<1> DEFINE cm == cam[c]
           next == cam'[c]
<1>1. cm.generation \in Nat /\ cm.tail \in Nat
  BY DEF CameraRecord
<1>2. cm.accepting /\ cm.tail = 0 =>
        cm.requested /\ ~cm.finalizing /\ HasWindow(cm) /\ HasWindow(mc)
  BY DEF Owned, HasWindow, Prepared
<1>3. CASE Waits(mc, next)
  <2>1. /\ next.accepting = cm.accepting /\ next.generation = cm.generation
        /\ next.tail = cm.tail /\ next.finalizing = cm.finalizing
    BY <1>3 DEF Waits, Prepared
  <2>2. cm.accepting => JobSession(next) = JobSession(cm)
    BY <1>3, <2>1 DEF Waits, Prepared, JobSession
  <2>3. next.accepting /\ next.pending => cm.pending \/ next.finalizing
    <3>1. CASE cm.tail = 0
      BY <1>2, <1>3, <2>1, <3>1 DEF Waits, Prepared
    <3>2. CASE cm.tail # 0
      BY <2>1, <3>2 DEF Owned
    <3> QED BY <3>1, <3>2
  <2>4. cm.finalizing => next.finalizing
    BY <2>1
  <2> QED BY <2>1, <2>2, <2>3, <2>4 DEF InputStep, Keeps
<1>4. CASE /\ Opens(mc, next)
           /\ ctl'.all => next.session = ctl'.session /\ ctl'.session # 0
  <2>1. ~cm.finalizing /\ cm.tail = 0
    BY <1>4 DEF Opens, Prepared, Owned
  <2>2. ~cm.accepting
    <3> SUFFICES ASSUME cm.accepting PROVE FALSE
      OBVIOUS
    <3>1. HasWindow(mc) /\ mc.pending = cm.pending /\ mc.accepting
      BY <1>2, <2>1 DEF Prepared
    <3>2. cm.pending
      BY <1>4, <3>1 DEF Opens
    <3> QED BY <2>1, <3>2 DEF Settled
  <2>3. /\ next.accepting /\ ~next.pending /\ next.tail = 0 /\ ~next.finalizing
        /\ next.generation = cm.generation + 1
    BY <1>4, <2>1, <2>2 DEF Opens, Prepared
  <2>4. next.generation >= cm.generation /\ next.generation > cm.generation
    BY <1>1, <2>3
  <2> QED BY <1>4, <2>1, <2>2, <2>3, <2>4 DEF InputStep, Restarts
<1> QED
  BY <1>3, <1>4

\* A camera that was closed, prepared under mc and activated.
LEMMA FreshStep ==
    ASSUME NEW c \in Cameras, cam[c] \in CameraRecord, NEW mc \in CameraRecord,
           ~cam[c].accepting, mc.tail = 0, ~mc.finalizing,
           cam[c].finalizing => \E t \in Task : t.pc = "finish" /\ tasks[c] = <<t>>,
           c \in known => ~mc.accepting /\ mc.generation = cam[c].generation,
           mc.accepting => /\ HasWindow(mc) /\ ~mc.pending
                           /\ ctl'.all => mc.session = ctl'.session /\ ctl'.session # 0,
           \/ Waits(mc, cam'[c])
           \/ /\ Opens(mc, cam'[c])
              /\ ctl'.all => cam'[c].session = ctl'.session /\ ctl'.session # 0
    PROVE  InputStep(c)
<1> DEFINE next == cam'[c]
<1>1. cam[c].generation \in Nat /\ mc.generation \in Nat
  BY DEF CameraRecord
<1>2. next.tail = 0 /\ ~next.finalizing
  BY DEF Waits, Opens
<1>3. next.accepting =>
        /\ ~next.pending
        /\ ctl'.all => next.session = ctl'.session /\ ctl'.session # 0
  BY DEF Waits, Opens
<1>4. c \in known => /\ next.generation >= cam[c].generation
                     /\ next.accepting => next.generation > cam[c].generation
  BY <1>1 DEF Waits, Opens
<1> QED
  BY <1>2, <1>3, <1>4 DEF InputStep, Restarts

\* What the step lemmas below establish.
StepOf == Numbered /\ KeepsSession /\ \A c \in Cameras : InputStep(c)

\* The numbers of an activation, from those of the cameras it is given.
LEMMA ActivateNumbered ==
    ASSUME NEW k \in ControlRecord, NEW m \in [Cameras -> CameraRecord],
           NEW s \in SUBSET Cameras, Activate(k, m, s),
           k.last >= ctl.last, k.session <= k.last, ctl.last \in Nat,
           \A c \in Cameras : Owned(m[c]) /\ m[c].session <= k.last /\ m[c].tail <= k.last,
           ctl.all => k.all /\ k.session = ctl.session
    PROVE  Numbered /\ KeepsSession /\ ctl'.all = k.all
<1> DEFINE a == Activated(k, m, s)
<1>1. Numbers(k, m, a) /\ k.last \in Nat
  BY ActivatedEffect DEF ControlRecord
<1>2. \A c \in Cameras : SameOwner(m[c], a.cam[c]) /\ a.cam[c] \in CameraRecord
  BY ActivatedOwned
<1>3. ctl' = a.ctl /\ cam' = a.cam
  BY DEF Activate
<1> HIDE DEF a
<1>4. ctl'.last \in Nat /\ ctl'.last >= k.last /\ ctl'.all = k.all
  BY <1>1, <1>3 DEF Numbers
<1>5. ASSUME NEW c \in Cameras
      PROVE  cam'[c].session <= ctl'.last /\ cam'[c].tail <= ctl'.last
  <2>1. cam'[c].session <= ctl'.last
    BY <1>1, <1>3 DEF Numbers
  <2>2. cam'[c].tail = m[c].tail /\ m[c].tail \in Nat
    BY <1>2, <1>3 DEF SameOwner, CameraRecord
  <2> QED BY <1>1, <1>4, <2>1, <2>2
<1>6. ctl'.session <= ctl'.last /\ ctl'.last >= ctl.last
  BY <1>1, <1>3, <1>4 DEF Numbers
<1>7. KeepsSession
  BY <1>1, <1>3, <1>4 DEF Numbers, KeepsSession
<1> QED
  BY <1>4, <1>5, <1>6, <1>7 DEF Numbered

\* What every request leaves of a camera that exists.
LEMMA NFacts ==
    ASSUME NInv
    PROVE  /\ ctl \in ControlRecord /\ cam \in [Cameras -> CameraRecord] /\ known \subseteq Cameras
           /\ ctl.last \in Nat /\ ctl.session \in Nat /\ ctl.session <= ctl.last
           /\ \A c \in Cameras :
                 /\ cam[c] \in CameraRecord /\ Owned(cam[c]) /\ Settled(cam[c])
                 /\ cam[c].session \in Nat /\ cam[c].tail \in Nat
                 /\ cam[c].session <= ctl.last /\ cam[c].tail <= ctl.last
                 /\ c \notin known => ~cam[c].requested /\ ~cam[c].finalizing
BY DEF NInv, IInv, Types, CameraInv, Issued, CameraRecord, ControlRecord, Unheard

\* A request that starts recordings of cameras the receiver knows.
LEMMA StartStep ==
    ASSUME NInv, NEW k \in ControlRecord, NEW m \in [Cameras -> CameraRecord],
           Activate(k, m, known), k.last >= ctl.last, k.session <= k.last,
           ctl.all => k.all /\ k.session = ctl.session,
           \A c \in Cameras : /\ Owned(m[c]) /\ Prepared(cam[c], m[c])
                              /\ m[c].session <= k.last
    PROVE  StepOf
<1>1. k.last \in Nat
  BY DEF ControlRecord
<1>2. \A c \in Cameras : m[c].tail <= k.last
  BY <1>1, NFacts DEF Prepared
<1>3. Numbered /\ KeepsSession /\ ctl'.all = k.all
  BY <1>2, NFacts, ActivateNumbered
<1>4. Effect(k, m, Activated(k, m, known)) /\ ctl' = Activated(k, m, known).ctl
      /\ cam' = Activated(k, m, known).cam
  BY NFacts, ActivatedEffect DEF Activate
<1>5. ASSUME NEW c \in Cameras PROVE InputStep(c)
  <2>1. \/ Waits(m[c], cam'[c])
        \/ /\ Opens(m[c], cam'[c])
           /\ ctl'.all => cam'[c].session = ctl'.session /\ ctl'.session # 0
    BY <1>3, <1>4 DEF Effect
  <2>2. m[c] \in CameraRecord /\ Prepared(cam[c], m[c])
    OBVIOUS
  <2> QED BY <2>1, <2>2, NFacts, PreparedStep
<1> QED
  BY <1>3, <1>5 DEF StepOf

LEMMA StartAllStep == NInv /\ StartAll => StepOf
<1> SUFFICES ASSUME NInv, StartAll PROVE StepOf
  OBVIOUS
<1> DEFINE promotes == \E c \in known : cam[c].requested
           Reset(cm) == IF ctl.all \/ (promotes /\ cm.requested) THEN cm
                        ELSE [cm EXCEPT !.storageFailed = FALSE]
           Open(cm)  == IF ctl.all \/ cm.requested \/ cm.active THEN cm
                        ELSE [cm EXCEPT !.started = FALSE, !.session = 0, !.pending = TRUE]
           k == IF ctl.all THEN ctl
                ELSE [ctl EXCEPT !.all = TRUE, !.pending = TRUE, !.session = 0]
           Final(cm) == [Open(Reset(cm)) EXCEPT !.requested = TRUE]
           m == [c \in Cameras |->
                   IF c \in known THEN [Open(Reset(cam[c])) EXCEPT !.requested = TRUE]
                   ELSE cam[c]]
<1>1. Activate(k, m, known)
  BY DEF StartAll
<1>2. /\ k \in ControlRecord /\ k.last = ctl.last /\ k.session <= k.last
      /\ ctl.all => k.all /\ k.session = ctl.session
  <2>1. CASE ctl.all
    BY <2>1, NFacts
  <2>2. CASE ~ctl.all
    <3>1. k = [ctl EXCEPT !.all = TRUE, !.pending = TRUE, !.session = 0]
      BY <2>2
    <3>2. k \in ControlRecord /\ k.last = ctl.last /\ k.session = 0
      BY <3>1, NFacts DEF ControlRecord
    <3> HIDE DEF k
    <3> QED BY <2>2, <3>2, NFacts
  <2> QED BY <2>1, <2>2
<1>3. ASSUME NEW cm \in CameraRecord, Owned(cm)
      PROVE  /\ Final(cm) \in CameraRecord /\ Owned(Final(cm)) /\ Prepared(cm, Final(cm))
             /\ Final(cm).session \in {cm.session, 0}
  <2> DEFINE a == Reset(cm)
             b == Open(a)
             d == [b EXCEPT !.requested = TRUE]
  <2>1. /\ a \in CameraRecord /\ a.requested = cm.requested /\ a.finalizing = cm.finalizing
        /\ a.tail = cm.tail /\ a.accepting = cm.accepting /\ a.started = cm.started
        /\ a.session = cm.session /\ a.generation = cm.generation /\ a.pending = cm.pending
    BY DEF CameraRecord
  <2>2. b = a \/ (~a.requested /\ b = [a EXCEPT !.started = FALSE, !.session = 0, !.pending = TRUE])
    OBVIOUS
  <2> HIDE DEF a, b
  <2>3. /\ b \in CameraRecord /\ b.requested = a.requested /\ b.finalizing = a.finalizing
        /\ b.tail = a.tail /\ b.accepting = a.accepting /\ b.generation = a.generation
        /\ a.requested => b.started = a.started /\ b.session = a.session /\ b.pending = a.pending
        /\ b.session \in {a.session, 0}
    <3>1. CASE b = a
      BY <2>1, <3>1
    <3>2. CASE /\ ~a.requested
               /\ b = [a EXCEPT !.started = FALSE, !.session = 0, !.pending = TRUE]
      BY <2>1, <3>2 DEF CameraRecord
    <3> QED BY <2>2, <3>1, <3>2
  <2>4. /\ d \in CameraRecord /\ d.requested = TRUE /\ d.finalizing = b.finalizing
        /\ d.tail = b.tail /\ d.accepting = b.accepting /\ d.generation = b.generation
        /\ d.started = b.started /\ d.session = b.session /\ d.pending = b.pending
    BY <2>3 DEF CameraRecord
  <2>5. /\ d.finalizing = cm.finalizing /\ d.tail = cm.tail /\ d.accepting = cm.accepting
        /\ d.generation = cm.generation /\ d.session \in {cm.session, 0} /\ d.requested
        /\ cm.requested =>
              d.started = cm.started /\ d.session = cm.session /\ d.pending = cm.pending
    BY <2>1, <2>3, <2>4
  <2>6. d \in CameraRecord
    BY <2>4
  <2>7. Final(cm) = d
    BY DEF a, b
  <2> HIDE DEF d, Final
  <2>8. Owned(d)
    BY <1>3, <2>5 DEF Owned, HasWindow
  <2>9. Prepared(cm, d)
    BY <1>3, <2>5 DEF Owned, Prepared
  <2> QED BY <2>5, <2>6, <2>7, <2>8, <2>9
<1>4. ASSUME NEW c \in Cameras
      PROVE  /\ m[c] \in CameraRecord /\ Owned(m[c]) /\ Prepared(cam[c], m[c])
             /\ m[c].session \in {cam[c].session, 0}
  <2>1. cam[c] \in CameraRecord /\ Owned(cam[c])
    BY NFacts
  <2>2. m[c] = IF c \in known THEN Final(cam[c]) ELSE cam[c]
    OBVIOUS
  <2> HIDE DEF Final, m
  <2> QED BY <1>3, <2>1, <2>2 DEF Prepared
<1>5. m \in [Cameras -> CameraRecord]
  BY <1>4
<1> HIDE DEF k, m
<1>6. \A c \in Cameras : m[c].session <= k.last
  BY <1>2, <1>4, NFacts
<1>7. k.last >= ctl.last
  BY <1>2, NFacts
<1> QED
  BY <1>1, <1>2, <1>4, <1>5, <1>6, <1>7, StartStep

LEMMA StartSenderStep == NInv /\ StartSender => StepOf
<1> SUFFICES ASSUME NInv, StartSender PROVE StepOf
  OBVIOUS
<1>1. PICK live \in SUBSET known :
        LET starts == {c \in live : ~cam[c].requested}
            id == ctl.last + 1
            m  == [c \in Cameras |->
                     IF c \in starts
                     THEN [cam[c] EXCEPT !.requested = TRUE, !.pending = TRUE, !.started = TRUE,
                                         !.session = id, !.storageFailed = FALSE]
                     ELSE cam[c]]
            k  == IF starts = {} THEN ctl ELSE [ctl EXCEPT !.last = id]
        IN  Activate(k, m, known)
  BY DEF StartSender
<1> DEFINE starts == {c \in live : ~cam[c].requested}
           id == ctl.last + 1
           next(c) == [cam[c] EXCEPT !.requested = TRUE, !.pending = TRUE, !.started = TRUE,
                                     !.session = id, !.storageFailed = FALSE]
           m  == [c \in Cameras |-> IF c \in starts THEN next(c) ELSE cam[c]]
           k  == IF starts = {} THEN ctl ELSE [ctl EXCEPT !.last = id]
<1>2. Activate(k, m, known)
  BY <1>1
<1>3. ctl \in ControlRecord /\ ctl.last \in Nat /\ id \in Nat /\ starts \subseteq known
  BY NFacts
<1>4. /\ k \in ControlRecord /\ k.session = ctl.session /\ k.all = ctl.all
      /\ k.last = IF starts = {} THEN ctl.last ELSE id
  BY <1>3 DEF ControlRecord
<1>5. ASSUME NEW c \in starts
      PROVE  /\ next(c) \in CameraRecord /\ Owned(next(c)) /\ Prepared(cam[c], next(c))
             /\ next(c).session = id
  <2>1. cam[c] \in CameraRecord /\ Owned(cam[c]) /\ ~cam[c].requested
    BY <1>3, NFacts
  <2>2. /\ next(c) \in CameraRecord
        /\ next(c).finalizing = cam[c].finalizing /\ next(c).tail = cam[c].tail
        /\ next(c).accepting = cam[c].accepting /\ next(c).generation = cam[c].generation
        /\ next(c).session = id
    BY <1>3, <2>1 DEF CameraRecord
  <2> HIDE DEF next
  <2> QED BY <2>1, <2>2 DEF Owned, Prepared
<1>6. ASSUME NEW c \in Cameras
      PROVE  /\ m[c] \in CameraRecord /\ Owned(m[c]) /\ Prepared(cam[c], m[c])
             /\ m[c].session = cam[c].session \/ (starts # {} /\ m[c].session = id)
  <2>1. cam[c] \in CameraRecord /\ Owned(cam[c])
    BY NFacts
  <2>2. m[c] = IF c \in starts THEN next(c) ELSE cam[c]
    OBVIOUS
  <2> HIDE DEF next, starts, m
  <2>3. CASE c \in starts
    BY <1>5, <2>2, <2>3
  <2>4. CASE c \notin starts
    BY <2>1, <2>2, <2>4 DEF Prepared
  <2> QED BY <2>3, <2>4
<1>7. m \in [Cameras -> CameraRecord]
  BY <1>6
<1>8. /\ k.last >= ctl.last /\ k.session <= k.last
      /\ ctl.all => k.all /\ k.session = ctl.session
  BY <1>3, <1>4, NFacts
<1>9. \A c \in Cameras : m[c].session <= k.last
  <2> HIDE DEF m, starts
  <2> QED BY <1>3, <1>4, <1>6, NFacts
<1> HIDE DEF k, m
<1> QED
  BY <1>2, <1>4, <1>6, <1>7, <1>8, <1>9, StartStep

\* A camera the receiver hears of now.
LEMMA HeardCamera ==
    ASSUME NEW k \in ControlRecord, k.session <= k.last
    PROVE  LET cm == NewCamera(k)
           IN  /\ cm \in CameraRecord /\ cm.tail = 0 /\ cm.tail <= k.last
               /\ cm.session <= k.last /\ cm.requested = k.all
               /\ cm.accepting => /\ k.all /\ ~k.pending /\ k.session # 0
                                  /\ HasWindow(cm) /\ ~cm.pending /\ cm.session = k.session
<1> DEFINE cm == NewCamera(k)
           open == k.all /\ ~k.pending /\ k.session # 0
<1>1. /\ cm \in CameraRecord /\ cm.tail = 0
  BY NewCameraOwned
<1>2. /\ cm.accepting = open /\ cm.pending = (k.all /\ ~open) /\ cm.requested = k.all
      /\ cm.started = (k.all /\ k.session # 0) /\ cm.session = IF k.all THEN k.session ELSE 0
  BY DEF NewCamera
<1>3. k.all \in BOOLEAN /\ k.pending \in BOOLEAN /\ k.session \in Nat /\ k.last \in Nat
  BY DEF ControlRecord
<1> HIDE DEF cm
<1>4. cm.session <= k.last /\ cm.tail <= k.last
  BY <1>1, <1>2, <1>3
<1>5. cm.accepting => /\ k.all /\ ~k.pending /\ k.session # 0
                      /\ HasWindow(cm) /\ ~cm.pending /\ cm.session = k.session
  BY <1>2, <1>3 DEF HasWindow
<1> QED
  BY <1>1, <1>2, <1>4, <1>5 DEF cm

LEMMA DiscoverStep == NInv /\ Discover => StepOf
<1> SUFFICES ASSUME NInv, Discover PROVE StepOf
  OBVIOUS
<1>1. PICK c \in Cameras \ known :
        cam' = [cam EXCEPT ![c] = NewCamera(ctl)] /\ ctl' = ctl
  BY DEF Discover
<1> DEFINE mc == NewCamera(ctl)
<1>2. /\ mc \in CameraRecord /\ mc.tail = 0 /\ mc.tail <= ctl.last
      /\ mc.session <= ctl.last
      /\ mc.accepting => /\ ctl.session # 0 /\ HasWindow(mc) /\ ~mc.pending
                         /\ mc.session = ctl.session
  BY NFacts, HeardCamera
<1>3. ~mc.finalizing
  BY NFacts, NewCameraOwned
<1> HIDE DEF mc
<1>4. cam'[c] = mc /\ \A d \in Cameras : d # c => cam'[d] = cam[d]
  BY <1>1, NFacts DEF mc
<1>5. InputStep(c)
  <2>1. ~cam[c].accepting /\ ~cam[c].finalizing
    BY <1>1, NFacts DEF Owned
  <2> QED BY <1>1, <1>2, <1>3, <1>4, <2>1 DEF InputStep, Restarts
<1>6. ASSUME NEW d \in Cameras, d # c PROVE InputStep(d)
  <2>1. cam'[d] = cam[d]
    BY <1>4, <1>6
  <2> QED BY <2>1 DEF InputStep, Keeps
<1>7. Numbered /\ KeepsSession
  BY <1>1, <1>2, <1>4, NFacts DEF Numbered, KeepsSession
<1> QED
  BY <1>5, <1>6, <1>7 DEF StepOf

LEMMA StartCameraStep == NInv /\ StartCamera => StepOf
<1> SUFFICES ASSUME NInv, StartCamera PROVE StepOf
  OBVIOUS
<1>1. PICK c \in Cameras :
        LET cm0 == IF c \in known THEN cam[c] ELSE NewCamera(ctl)
            resets == ~ctl.all /\ ~cm0.requested /\ ~cm0.active
            cm1 == IF resets THEN [cm0 EXCEPT !.storageFailed = FALSE, !.started = FALSE,
                                              !.session = 0, !.pending = TRUE]
                   ELSE IF ~cm0.started
                   THEN [cm0 EXCEPT !.started = ctl.all /\ ctl.session # 0, !.pending = TRUE]
                   ELSE cm0
        IN  Activate(ctl, [cam EXCEPT ![c] = [cm1 EXCEPT !.requested = TRUE]], known \cup {c})
  BY DEF StartCamera
<1> DEFINE cm0 == IF c \in known THEN cam[c] ELSE NewCamera(ctl)
           resets == ~ctl.all /\ ~cm0.requested /\ ~cm0.active
           reset == [cm0 EXCEPT !.storageFailed = FALSE, !.started = FALSE,
                                !.session = 0, !.pending = TRUE]
           begun == ctl.all /\ ctl.session # 0
           wait == [cm0 EXCEPT !.started = begun, !.pending = TRUE]
           cm1 == IF resets THEN reset ELSE IF ~cm0.started THEN wait ELSE cm0
           next == [cm1 EXCEPT !.requested = TRUE]
           m == [cam EXCEPT ![c] = next]
<1>2. Activate(ctl, m, known \cup {c})
  BY <1>1
<1>3. begun \in BOOLEAN /\ ctl.all \in BOOLEAN
  BY NFacts DEF ControlRecord
<1>4. /\ cm0 \in CameraRecord /\ Owned(cm0) /\ cm0.session <= ctl.last /\ cm0.session \in Nat
      /\ c \notin known => cm0 = NewCamera(ctl)
      /\ c \in known => cm0 = cam[c]
  <2>1. NewCamera(ctl) \in CameraRecord /\ Owned(NewCamera(ctl)) /\ NewCamera(ctl).session <= ctl.last
    BY NFacts, NewCameraOwned, HeardCamera
  <2> QED BY <2>1, NFacts DEF CameraRecord
<1> HIDE DEF cm0, begun
<1>5. /\ cm1 \in CameraRecord
      /\ cm1.finalizing = cm0.finalizing /\ cm1.tail = cm0.tail
      /\ cm1.accepting = cm0.accepting /\ cm1.generation = cm0.generation
      /\ cm1.session \in {cm0.session, 0}
      /\ cm0.requested /\ cm0.started =>
            cm1.started = cm0.started /\ cm1.session = cm0.session /\ cm1.pending = cm0.pending
  <2>1. CASE cm1 = cm0
    BY <1>4, <2>1
  <2>2. CASE resets /\ cm1 = reset
    BY <1>4, <2>2 DEF CameraRecord
  <2>3. CASE ~cm0.started /\ cm1 = wait
    BY <1>3, <1>4, <2>3 DEF CameraRecord
  <2> QED BY <2>1, <2>2, <2>3
<1> HIDE DEF cm1
<1>6. /\ next \in CameraRecord /\ next.requested = TRUE
      /\ next.finalizing = cm1.finalizing /\ next.tail = cm1.tail
      /\ next.accepting = cm1.accepting /\ next.generation = cm1.generation
      /\ next.started = cm1.started /\ next.session = cm1.session /\ next.pending = cm1.pending
  BY <1>5 DEF CameraRecord
<1> HIDE DEF next
<1>7. Prepared(cm0, next) /\ next.session <= ctl.last
  <2>1. cm0.accepting /\ cm0.tail = 0 => cm0.requested /\ cm0.started
    BY <1>4 DEF Owned, HasWindow
  <2>2. next.session \in {cm0.session, 0}
    BY <1>5, <1>6
  <2>3. next.session <= ctl.last
    BY <1>4, <2>2, NFacts
  <2> QED BY <1>5, <1>6, <2>1, <2>3 DEF Prepared
<1>8. Owned(next)
  <2>1. cm0.accepting /\ cm0.tail = 0 => HasWindow(cm0) /\ next.session = cm0.session
                                         /\ next.started = cm0.started
    BY <1>4, <1>7 DEF Owned, Prepared
  <2> QED BY <1>4, <1>6, <1>7, <2>1 DEF Owned, Prepared, HasWindow
<1>9. /\ m \in [Cameras -> CameraRecord] /\ m[c] = next
      /\ \A d \in Cameras : d # c => m[d] = cam[d]
  BY <1>6, NFacts
<1> HIDE DEF m
<1>10. \A d \in Cameras : /\ Owned(m[d]) /\ m[d].session <= ctl.last /\ m[d].tail <= ctl.last
  <2>1. next.tail <= ctl.last
    <3>1. cm0.tail <= ctl.last
      BY <1>4, NFacts, HeardCamera
    <3> QED BY <1>7, <3>1 DEF Prepared
  <2> QED BY <1>7, <1>8, <1>9, <2>1, NFacts
<1>11. known \cup {c} \in SUBSET Cameras /\ ctl.last >= ctl.last
  BY NFacts
<1>12. Numbered /\ KeepsSession /\ ctl'.all = ctl.all
  BY <1>2, <1>9, <1>10, <1>11, NFacts, ActivateNumbered
<1>13. /\ Effect(ctl, m, Activated(ctl, m, known \cup {c}))
       /\ ctl' = Activated(ctl, m, known \cup {c}).ctl
       /\ cam' = Activated(ctl, m, known \cup {c}).cam
  BY <1>2, <1>9, <1>11, NFacts, ActivatedEffect DEF Activate
<1>14. ASSUME NEW d \in Cameras
       PROVE  \/ Waits(m[d], cam'[d])
              \/ /\ Opens(m[d], cam'[d])
                 /\ ctl'.all => cam'[d].session = ctl'.session /\ ctl'.session # 0
  BY <1>12, <1>13 DEF Effect
<1>15. ASSUME NEW d \in Cameras, d # c \/ c \in known PROVE InputStep(d)
  <2>1. Prepared(cam[d], m[d])
    <3>1. CASE d = c
      BY <1>4, <1>7, <1>9, <1>15, <3>1
    <3>2. CASE d # c
      BY <1>9, <3>2 DEF Prepared
    <3> QED BY <3>1, <3>2
  <2>2. m[d] \in CameraRecord
    BY <1>9
  <2> QED BY <1>14, <2>1, <2>2, NFacts, PreparedStep
<1>16. ASSUME c \notin known PROVE InputStep(c)
  <2>1. ~cam[c].accepting /\ ~cam[c].finalizing
    BY <1>16, NFacts DEF Owned
  <2>2. /\ cm0.tail = 0 /\ ~cm0.finalizing
        /\ cm0.accepting => /\ ctl.all /\ ctl.session # 0
                            /\ HasWindow(cm0) /\ ~cm0.pending /\ cm0.session = ctl.session
    BY <1>4, <1>16, NFacts, NewCameraOwned, HeardCamera
  <2>3. next.tail = 0 /\ ~next.finalizing
    BY <1>7, <2>2 DEF Prepared
  <2>4. next.accepting => HasWindow(next) /\ ~next.pending /\ next.session = ctl.session
                          /\ ctl.session # 0 /\ ctl.all
    BY <1>7, <2>2 DEF Prepared, HasWindow
  <2>5. next.accepting => (ctl'.all => next.session = ctl'.session /\ ctl'.session # 0)
    BY <1>12, <2>4 DEF KeepsSession
  <2> QED BY <1>6, <1>9, <1>14, <1>16, <2>1, <2>3, <2>4, <2>5, NFacts, FreshStep
<1> QED
  BY <1>12, <1>15, <1>16 DEF StepOf

-----------------------------------------------------------------------------
LEMMA AcceptingGeneration ==
    ASSUME NEW cm \in CameraRecord
    PROVE  /\ ~cm.accepting => Accepting(cm, FALSE) = cm
           /\ cm.accepting => Accepting(cm, FALSE).generation = cm.generation + 1
           /\ Accepting(cm, FALSE).pending = cm.pending
<1> DEFINE next == [cm EXCEPT !.accepting = FALSE, !.generation = @ + 1]
<1>1. cm.accepting \in BOOLEAN
  BY DEF CameraRecord
<1>2. next.generation = cm.generation + 1 /\ next.pending = cm.pending
  BY DEF CameraRecord
<1>3. Accepting(cm, FALSE) = IF cm.accepting = FALSE THEN cm ELSE next
  BY DEF Accepting
<1> HIDE DEF next
<1> QED BY <1>1, <1>2, <1>3

\* A stop leaves the input open for a drain, or closes it.
LEMMA StoppedStep ==
    ASSUME NEW cm \in CameraRecord, Owned(cm)
    PROVE  /\ Keeps(cm, Stopped(cm)) \/ Closes(cm, Stopped(cm))
           /\ Stopped(cm).session = cm.session
           /\ Stopped(cm).tail \in {cm.tail, cm.session}
<1> DEFINE drain == [cm EXCEPT !.tail = cm.session]
           closed == Accepting(cm, FALSE)
           ready == PrepareStop(cm)
           final == cm.finalizing \/ NeedsClose(cm)
           next == Stopped(cm)
<1>1. /\ closed \in CameraRecord /\ closed.accepting = FALSE
      /\ closed.tail = cm.tail /\ closed.finalizing = cm.finalizing
      /\ closed.session = cm.session
      /\ ~cm.accepting => closed.generation = cm.generation
      /\ cm.accepting => closed.generation = cm.generation + 1
  BY AcceptingType, AcceptingGeneration
<1>2. /\ drain \in CameraRecord /\ drain.tail = cm.session
      /\ drain.finalizing = cm.finalizing /\ drain.accepting = cm.accepting
      /\ drain.generation = cm.generation /\ drain.session = cm.session
  BY DEF CameraRecord
<1>3. cm.finalizing \in BOOLEAN /\ cm.tail \in Nat
  BY DEF CameraRecord
<1>4. /\ ready \in CameraRecord /\ ready.finalizing = cm.finalizing
      /\ ready.session = cm.session /\ ready.tail \in {cm.tail, cm.session}
      /\ \/ /\ ready.accepting = cm.accepting /\ ready.generation = cm.generation
            /\ cm.accepting => JobSession(ready) = JobSession(cm)
         \/ /\ cm.accepting /\ cm.tail = 0 /\ ready.tail = 0
            /\ ready.accepting = FALSE /\ ready.generation = cm.generation + 1
  <2>1. CASE cm.tail # 0
    BY <2>1 DEF PrepareStop
  <2>2. CASE cm.tail = 0 /\ DrainStarts(cm)
    <3>1. ready = drain
      BY <2>2 DEF PrepareStop
    <3>2. cm.session # 0
      BY <2>2 DEF DrainStarts
    <3> HIDE DEF ready, drain
    <3> QED BY <1>2, <2>2, <3>1, <3>2 DEF JobSession
  <2>3. CASE cm.tail = 0 /\ ~DrainStarts(cm)
    <3>1. ready = closed
      BY <2>3 DEF PrepareStop
    <3> HIDE DEF ready, closed
    <3>2. cm.accepting \in BOOLEAN
      BY DEF CameraRecord
    <3> QED BY <1>1, <2>3, <3>1, <3>2
  <2> QED BY <2>1, <2>2, <2>3
<1>5. next = [ready EXCEPT !.requested = FALSE, !.pending = FALSE, !.started = FALSE,
                           !.finalizing = final]
  <2>1. next = [ready EXCEPT !.requested = FALSE, !.pending = FALSE, !.started = FALSE,
                             !.finalizing = ready.finalizing \/ NeedsClose(cm)]
    BY <1>4 DEF Stopped, CameraRecord
  <2> HIDE DEF ready, next
  <2> QED BY <1>4, <2>1
<1>6. final \in BOOLEAN
  BY DEF CameraRecord, NeedsClose
<1> HIDE DEF ready, final, next
<1>7. /\ next.finalizing = final /\ next.pending = FALSE
      /\ next.tail = ready.tail /\ next.accepting = ready.accepting
      /\ next.generation = ready.generation /\ next.session = ready.session
  BY <1>4, <1>5, <1>6 DEF CameraRecord
<1>8. JobSession(next) = JobSession(ready)
  BY <1>7 DEF JobSession
<1>9. CASE /\ ready.accepting = cm.accepting /\ ready.generation = cm.generation
           /\ cm.accepting => JobSession(ready) = JobSession(cm)
  <2>1. cm.finalizing => next.finalizing
    BY <1>7 DEF final
  <2>2. Keeps(cm, next)
    BY <1>7, <1>8, <1>9, <2>1 DEF Keeps
  <2> QED BY <1>4, <1>7, <2>2 DEF next
<1>10. CASE /\ cm.accepting /\ cm.tail = 0 /\ ready.tail = 0
            /\ ready.accepting = FALSE /\ ready.generation = cm.generation + 1
  <2>1. NeedsClose(cm)
    BY <1>10 DEF Owned, NeedsClose
  <2>2. next.finalizing
    BY <1>7, <2>1 DEF final
  <2>3. Closes(cm, next)
    BY <1>7, <1>10, <2>2 DEF Closes
  <2> QED BY <1>4, <1>7, <2>3 DEF next
<1> QED
  BY <1>4, <1>9, <1>10

LEMMA StopCamerasStep ==
    ASSUME NInv, NEW s, s \subseteq known, StopCameras(s), LeaveAll \/ UNCHANGED ctl
    PROVE  StepOf
<1>1. \A c \in Cameras : cam'[c] = IF c \in s THEN Stopped(cam[c]) ELSE cam[c]
  BY DEF StopCameras
<1>2. /\ ctl'.last = ctl.last /\ ctl'.session \in {ctl.session, 0}
      /\ ctl'.all => ctl'.session = ctl.session
  BY NFacts DEF LeaveAll, ControlRecord
<1>3. ASSUME NEW c \in Cameras
      PROVE  InputStep(c) /\ cam'[c].session <= ctl'.last /\ cam'[c].tail <= ctl'.last
  <2>1. CASE c \in s
    BY <1>1, <1>2, <2>1, NFacts, StoppedStep DEF InputStep
  <2>2. CASE c \notin s
    BY <1>1, <1>2, <2>2, NFacts DEF InputStep, Keeps
  <2> QED BY <2>1, <2>2
<1>4. ctl'.last >= ctl.last /\ ctl'.session <= ctl'.last
  BY <1>2, NFacts
<1> QED
  BY <1>2, <1>3, <1>4 DEF StepOf, Numbered, KeepsSession

LEMMA StopStep == NInv /\ (StopAll \/ StopSender \/ StopCamera) => StepOf
<1> SUFFICES ASSUME NInv, StopAll \/ StopSender \/ StopCamera PROVE StepOf
  OBVIOUS
<1>1. CASE StopAll
  BY <1>1, StopCamerasStep DEF StopAll, StopEverything
<1>2. CASE StopSender
  <2>1. PICK s \in Senders :
          StopCameras({c \in s \cap known :
                         cam[c].requested \/ cam[c].active \/ cam[c].finalizing})
    BY <1>2 DEF StopSender
  <2> QED BY <1>2, <2>1, StopCamerasStep DEF StopSender
<1>3. CASE StopCamera
  <2>1. PICK c \in known : StopCameras({c})
    BY <1>3 DEF StopCamera
  <2> QED BY <1>3, <2>1, StopCamerasStep DEF StopCamera
<1> QED
  BY <1>1, <1>2, <1>3

-----------------------------------------------------------------------------
\* One camera's step of the recording state; the others do not move.
LEMMA OneCameraStep ==
    ASSUME NInv, NEW c \in Cameras, UNCHANGED ctl, InputStep(c),
           \A d \in Cameras : d # c => cam'[d] = cam[d],
           cam'[c].session <= ctl.last, cam'[c].tail <= ctl.last
    PROVE  StepOf
<1>1. ASSUME NEW d \in Cameras, d # c PROVE InputStep(d)
  BY <1>1 DEF InputStep, Keeps
<1>2. Numbered /\ KeepsSession
  BY NFacts DEF Numbered, KeepsSession
<1> QED
  BY <1>1, <1>2 DEF StepOf

LEMMA StillStep == NInv /\ UNCHANGED <<ctl, cam>> => StepOf
BY NFacts DEF StepOf, Numbered, KeepsSession, InputStep, Keeps

LEMMA PublishStep ==
    ASSUME NInv, NEW c \in Cameras, PublishSegment(c)
    PROVE  StepOf
<1> DEFINE next == [cam[c] EXCEPT !.active = TRUE]
<1>1. cam' = [cam EXCEPT ![c] = next] /\ UNCHANGED ctl
  BY NFacts DEF PublishSegment
<1>2. /\ next.accepting = cam[c].accepting /\ next.tail = cam[c].tail
      /\ next.finalizing = cam[c].finalizing /\ next.session = cam[c].session
      /\ next.generation = cam[c].generation /\ next.pending = cam[c].pending
  BY NFacts DEF CameraRecord
<1> HIDE DEF next
<1>3. cam'[c] = next /\ \A d \in Cameras : d # c => cam'[d] = cam[d]
  BY <1>1, NFacts
<1>4. InputStep(c)
  BY <1>2, <1>3 DEF InputStep, Keeps, JobSession
<1> QED
  BY <1>1, <1>2, <1>3, <1>4, NFacts, OneCameraStep

LEMMA FailWriteStep ==
    ASSUME NInv, NEW c \in Cameras, FailWrite(c)
    PROVE  StepOf
<1>1. PICK full \in {FALSE, StorageFaults} :
        cam' = [cam EXCEPT ![c].accepting = FALSE, ![c].generation = @ + 1,
                           ![c].storageFailed = @ \/ full]
  BY DEF FailWrite
<1> DEFINE next == [cam[c] EXCEPT !.accepting = FALSE, !.generation = @ + 1,
                                  !.storageFailed = @ \/ full]
<1>2. cam' = [cam EXCEPT ![c] = next]
  BY <1>1, NFacts
<1>3. /\ next.accepting = FALSE /\ next.tail = cam[c].tail /\ next.session = cam[c].session
  BY NFacts DEF CameraRecord
<1> HIDE DEF next
<1>4. cam'[c] = next /\ \A d \in Cameras : d # c => cam'[d] = cam[d]
  BY <1>2, NFacts
<1>5. budget'.faults < budget.faults
  BY DEF FailWrite, NInv, MoreTypes, Budget
<1>6. InputStep(c)
  BY <1>3, <1>4, <1>5 DEF InputStep, Fails
<1>7. UNCHANGED ctl
  BY DEF FailWrite, MayWrite, Writing
<1> QED
  BY <1>3, <1>4, <1>6, <1>7, NFacts, OneCameraStep

LEMMA WorkStep ==
    ASSUME NInv, NEW c \in Cameras, Work(c)
    PROVE  StepOf
<1>1. CASE TakeJob(c) \/ IgnoreDepth(c) \/ HoldBack(c) \/ WriteJob(c) \/ ReplayDepth(c)
             \/ ClaimFault(c) \/ RecordFault(c)
  <2>1. UNCHANGED <<ctl, cam>>
    BY <1>1 DEF TakeJob, IgnoreDepth, HoldBack, WriteJob, MayWrite, Writing, ReplayDepth,
                ClaimFault, RecordFault
  <2> QED BY <2>1, StillStep
<1>2. CASE FailWrite(c)
  BY <1>2, FailWriteStep
<1>3. CASE PublishSegment(c)
  BY <1>3, PublishStep
<1>4. CASE StopOnFault(c)
  BY <1>4, StopCamerasStep DEF StopOnFault, StopEverything
<1> QED
  BY <1>1, <1>2, <1>3, <1>4 DEF Work

LEMMA FinalizeStep ==
    ASSUME NInv, NEW c \in Cameras, NEW reason, Finalize(c, reason)
    PROVE  StepOf
<1> DEFINE marked == [cam[c] EXCEPT !.finalizing = TRUE]
           next == Accepting(marked, FALSE)
<1>1. /\ ~cam[c].finalizing /\ UNCHANGED ctl
      /\ cam' = [cam EXCEPT ![c] = next]
  BY DEF Finalize
<1>2. cam[c] \in CameraRecord /\ cam[c].tail = 0
  BY <1>1, NFacts DEF Owned
<1>3. /\ marked \in CameraRecord /\ marked.finalizing = TRUE /\ marked.accepting = cam[c].accepting
      /\ marked.tail = cam[c].tail /\ marked.session = cam[c].session
      /\ marked.generation = cam[c].generation
  BY <1>2 DEF CameraRecord
<1> HIDE DEF marked
<1>4. /\ next.accepting = FALSE /\ next.finalizing = TRUE /\ next.tail = cam[c].tail
      /\ next.session = cam[c].session
      /\ ~cam[c].accepting => next.generation = cam[c].generation
      /\ cam[c].accepting => next.generation = cam[c].generation + 1
  BY <1>3, AcceptingType, AcceptingGeneration
<1> HIDE DEF next
<1>5. cam'[c] = next /\ \A d \in Cameras : d # c => cam'[d] = cam[d]
  BY <1>1, NFacts
<1>6. InputStep(c)
  <2>1. CASE cam[c].accepting
    BY <1>2, <1>4, <1>5, <2>1 DEF InputStep, Closes
  <2>2. CASE ~cam[c].accepting
    <3>1. cam[c].accepting = FALSE
      BY <1>2, <2>2 DEF CameraRecord
    <3> QED BY <1>4, <1>5, <3>1 DEF InputStep, Keeps
  <2> QED BY <2>1, <2>2
<1> QED
  BY <1>1, <1>4, <1>5, <1>6, NFacts, OneCameraStep

LEMMA DrainStep ==
    ASSUME NInv, NEW c \in Cameras, NEW i \in DOMAIN tasks[c], DrainTail(c, i)
    PROVE  StepOf
<1> DEFINE ended == [cam[c] EXCEPT !.tail = 0]
           next == Accepting(ended, FALSE)
<1>1. UNCHANGED ctl
  BY DEF DrainTail
<1>2. CASE cam[c].tail = 0
  BY <1>1, <1>2, StillStep DEF DrainTail
<1>3. CASE cam[c].tail # 0
  <2>1. cam' = [cam EXCEPT ![c] = next]
    BY <1>3 DEF DrainTail
  <2>2. cam[c] \in CameraRecord /\ cam[c].finalizing
    BY <1>3, NFacts DEF Owned
  <2>3. /\ ended \in CameraRecord /\ ended.tail = 0 /\ ended.finalizing = cam[c].finalizing
        /\ ended.accepting = cam[c].accepting /\ ended.session = cam[c].session
        /\ ended.generation = cam[c].generation
    BY <2>2 DEF CameraRecord
  <2> HIDE DEF ended
  <2>4. /\ next.accepting = FALSE /\ next.finalizing = cam[c].finalizing /\ next.tail = 0
        /\ next.session = cam[c].session
        /\ ~cam[c].accepting => next.generation = cam[c].generation
        /\ cam[c].accepting => next.generation = cam[c].generation + 1
    BY <2>3, AcceptingType, AcceptingGeneration
  <2> HIDE DEF next
  <2>5. cam'[c] = next /\ \A d \in Cameras : d # c => cam'[d] = cam[d]
    BY <2>1, NFacts
  <2>6. InputStep(c)
    <3>1. CASE cam[c].accepting
      BY <2>2, <2>4, <2>5, <3>1 DEF InputStep, Closes
    <3>2. CASE ~cam[c].accepting
      <4>1. cam[c].accepting = FALSE
        BY <2>2, <3>2 DEF CameraRecord
      <4> QED BY <2>4, <2>5, <4>1 DEF InputStep, Keeps
    <3> QED BY <3>1, <3>2
  <2> QED BY <1>1, <2>4, <2>5, <2>6, NFacts, OneCameraStep
<1> QED
  BY <1>2, <1>3

LEMMA FinishStep ==
    ASSUME NInv, NEW c \in Cameras, NEW i \in DOMAIN tasks[c], FinishClose(c, i)
    PROVE  StepOf
<1>1. PICK t \in Task : /\ tasks[c] = <<t>> /\ i = 1 /\ t.pc = "finish"
                        /\ cam[c].finalizing /\ Progress(c, t) /\ tasks[c][i] = t
  BY Closer DEF FinishClose, NInv
<1>2. cam[c].tail = 0 /\ ~cam[c].accepting
  BY <1>1, NFacts DEF Progress, Owned
<1> DEFINE old == [cam[c] EXCEPT !.active = FALSE, !.finalizing = FALSE]
<1>3. /\ old \in CameraRecord /\ old.finalizing = FALSE /\ old.accepting = cam[c].accepting
      /\ old.tail = 0 /\ old.session = cam[c].session /\ old.generation = cam[c].generation
  BY <1>2, NFacts DEF CameraRecord
<1>4. Detached(c) = [cam EXCEPT ![c] = old]
  BY NFacts DEF Detached
<1> HIDE DEF old
<1>5. /\ Detached(c) \in [Cameras -> CameraRecord] /\ Detached(c)[c] = old
      /\ \A d \in Cameras : d # c => Detached(c)[d] = cam[d]
  BY <1>3, <1>4, NFacts
<1>6. Owned(old)
  BY <1>2, <1>3 DEF Owned
<1>7. CASE t.reason = "storage"
  <2> DEFINE next == [old EXCEPT !.pending = TRUE]
  <2>1. cam' = [Detached(c) EXCEPT ![c] = next] /\ UNCHANGED ctl
    BY <1>1, <1>5, <1>7 DEF FinishClose
  <2>2. /\ next.finalizing = FALSE /\ next.accepting = FALSE
        /\ next.tail = 0 /\ next.session = cam[c].session /\ next.generation = cam[c].generation
    <3>1. cam[c].accepting = FALSE
      BY <1>2, NFacts DEF CameraRecord
    <3> QED BY <1>3, <3>1 DEF CameraRecord
  <2> HIDE DEF next
  <2>3. cam'[c] = next /\ \A d \in Cameras : d # c => cam'[d] = cam[d]
    BY <1>5, <2>1
  <2>4. cam[c].generation \in Nat
    BY NFacts DEF CameraRecord
  <2>5. InputStep(c)
    BY <1>1, <1>2, <2>2, <2>3, <2>4 DEF InputStep, Restarts
  <2>6. cam'[c].session <= ctl.last /\ cam'[c].tail <= ctl.last
    BY <2>2, <2>3, NFacts
  <2> QED BY <2>1, <2>3, <2>5, <2>6, OneCameraStep
<1>8. CASE t.reason # "storage"
  <2> DEFINE m == Detached(c)
  <2>1. Activate(ctl, m, known)
    BY <1>1, <1>8 DEF FinishClose
  <2>2. \A d \in Cameras : Owned(m[d]) /\ m[d].session <= ctl.last /\ m[d].tail <= ctl.last
    BY <1>3, <1>5, <1>6, NFacts
  <2>3. m \in [Cameras -> CameraRecord] /\ ctl.last >= ctl.last
    BY <1>5, NFacts
  <2> HIDE DEF m
  <2>4. Numbered /\ KeepsSession /\ ctl'.all = ctl.all
    BY <2>1, <2>2, <2>3, NFacts, ActivateNumbered
  <2>5. /\ Effect(ctl, m, Activated(ctl, m, known))
        /\ ctl' = Activated(ctl, m, known).ctl
        /\ cam' = Activated(ctl, m, known).cam
    BY <2>1, <2>3, NFacts, ActivatedEffect DEF Activate
  <2>6. ASSUME NEW d \in Cameras
        PROVE  \/ Waits(m[d], cam'[d])
               \/ /\ Opens(m[d], cam'[d])
                  /\ ctl'.all => cam'[d].session = ctl'.session /\ ctl'.session # 0
    BY <2>4, <2>5 DEF Effect
  <2>7. ASSUME NEW d \in Cameras, d # c PROVE InputStep(d)
    <3>1. Prepared(cam[d], m[d])
      BY <1>5, <2>7 DEF Prepared, m
    <3>2. m[d] \in CameraRecord
      BY <2>3
    <3> QED BY <2>6, <3>1, <3>2, NFacts, PreparedStep
  <2>8. InputStep(c)
    <3>1. m[c] = old
      BY <1>5 DEF m
    <3> QED BY <1>1, <1>2, <1>3, <2>3, <2>6, <3>1, NFacts, FreshStep
  <2> QED BY <2>4, <2>7, <2>8 DEF StepOf
<1> QED
  BY <1>7, <1>8

LEMMA NextStepOf == NInv /\ [Next]_vars => StepOf
<1> SUFFICES ASSUME NInv, [Next]_vars PROVE StepOf
  OBVIOUS
<1>1. CASE Request \/ Discover
  BY <1>1, StartAllStep, StartSenderStep, StartCameraStep, StopStep, DiscoverStep DEF Request
<1>2. ASSUME NEW c \in Cameras,
             ReceivePacket(c) \/ EnqueueJob(c) \/ Work(c)
               \/ FinalizeIdle(c) \/ FinalizeFailed(c) \/ CloseTask(c)
      PROVE  StepOf
  <2>1. CASE ReceivePacket(c) \/ EnqueueJob(c)
    BY <2>1, StillStep DEF ReceivePacket, EnqueueJob
  <2>2. CASE Work(c)
    BY <2>2, WorkStep
  <2>3. CASE FinalizeIdle(c) \/ FinalizeFailed(c)
    BY <2>3, FinalizeStep DEF FinalizeIdle, FinalizeFailed
  <2>4. CASE CloseTask(c)
    <3>1. PICK i \in DOMAIN tasks[c] :
            DrainTail(c, i) \/ AwaitQueue(c, i) \/ DetachWriter(c, i) \/ FinishClose(c, i)
      BY <2>4 DEF CloseTask
    <3>2. CASE AwaitQueue(c, i) \/ DetachWriter(c, i)
      BY <3>2, StillStep DEF AwaitQueue, DetachWriter
    <3> QED BY <3>1, <3>2, DrainStep, FinishStep
  <2> QED BY <1>2, <2>1, <2>2, <2>3, <2>4
<1>3. CASE UNCHANGED vars
  BY <1>3, StillStep DEF vars
<1> QED
  BY <1>1, <1>2, <1>3 DEF Next

-----------------------------------------------------------------------------
\* What a camera carries: the steps of the media threads, the worker and the task that
\* detaches the writer only pass on what there is.

LEMMA CarriesSame ==
    ASSUME NEW c \in Cameras, NEW S, Carries(c, S), queue'[c] = queue[c],
           worker'[c] = worker[c], prestart'[c] = prestart[c], segment'[c] = segment[c]
    PROVE  Carries(c, S)'
BY DEF Carries

LEMMA EmptyCarries ==
    ASSUME NEW c \in Cameras, NEW S, Empty(c), IInv
    PROVE  Carries(c, S)
BY DEF Empty, Carries, NoWriter

LEMMA GotoJob ==
    ASSUME IInv, NEW c \in Cameras, NEW p, Goto(c, p)
    PROVE  /\ worker'[c].pc = p /\ worker'[c].job = worker[c].job
           /\ \A d \in Cameras : d # c => worker'[d] = worker[d]
<1>1. worker \in [Cameras -> [pc : Places, job : Job \cup {NoJob}]]
  BY DEF IInv, Types
<1>2. worker' = [worker EXCEPT ![c] = [worker[c] EXCEPT !.pc = p]]
  BY DEF Goto
<1>3. [worker[c] EXCEPT !.pc = p].pc = p /\ [worker[c] EXCEPT !.pc = p].job = worker[c].job
  BY <1>1
<1> QED
  BY <1>1, <1>2, <1>3

LEMMA EnqueueCarries ==
    ASSUME IInv, NEW c \in Cameras, NEW S, Carries(c, S), EnqueueJob(c),
           InputUnchanged(cam[c], ingress[c]) => ingress[c].session \in S
    PROVE  Carries(c, S)'
<1>1. UNCHANGED <<worker, segment, prestart>>
  BY DEF EnqueueJob
<1>2. CASE queue' = queue
  BY <1>1, <1>2, CarriesSame
<1>3. CASE queue' # queue
  <2>1. /\ queue[c] = <<>> /\ queue' = [queue EXCEPT ![c] = Append(queue[c], ingress[c])]
        /\ ingress[c].session \in S
    BY <1>3 DEF EnqueueJob
  <2>2. queue'[c] = <<ingress[c]>>
    BY <2>1 DEF IInv, Types
  <2>3. \A i \in DOMAIN queue'[c] : queue'[c][i].session \in S
    BY <2>1, <2>2
  <2> QED BY <1>1, <2>3 DEF Carries
<1> QED
  BY <1>2, <1>3

LEMMA TakeJobCarries ==
    ASSUME IInv, NEW c \in Cameras, NEW S, Carries(c, S), TakeJob(c)
    PROVE  Carries(c, S)'
<1>1. /\ queue[c] \in Seq(Job) /\ queue[c] # <<>>
      /\ worker' = [worker EXCEPT ![c] = [pc |-> "write", job |-> Head(queue[c])]]
      /\ queue' = [queue EXCEPT ![c] = Tail(queue[c])]
      /\ UNCHANGED <<segment, prestart>>
  BY DEF TakeJob, IInv, Types
<1>2. /\ worker'[c] = [pc |-> "write", job |-> Head(queue[c])]
      /\ queue'[c] = Tail(queue[c])
  BY <1>1 DEF IInv, Types
<1>3. Head(queue[c]).session \in S
  <2>1. 1 \in DOMAIN queue[c] /\ Head(queue[c]) = queue[c][1]
    BY <1>1
  <2> QED BY <2>1 DEF Carries
<1>4. ASSUME NEW i \in DOMAIN Tail(queue[c]) PROVE Tail(queue[c])[i].session \in S
  <2>1. i + 1 \in DOMAIN queue[c] /\ Tail(queue[c])[i] = queue[c][i + 1]
    BY <1>1
  <2> QED BY <2>1 DEF Carries
<1> QED
  BY <1>1, <1>2, <1>3, <1>4 DEF Carries

LEMMA HoldBackCarries ==
    ASSUME IInv, NEW c \in Cameras, NEW S, Carries(c, S), IgnoreDepth(c) \/ HoldBack(c)
    PROVE  Carries(c, S)'
<1>1. /\ worker[c].pc = "write" /\ Goto(c, "wait")
      /\ UNCHANGED <<queue, segment>>
  BY DEF IgnoreDepth, HoldBack, Writing
<1>2. worker'[c].pc = "wait"
  BY <1>1, GotoJob
<1>3. prestart'[c] \in {prestart[c], worker[c].job.session, 0}
  BY DEF IgnoreDepth, HoldBack, PrestartFor, IInv, Types
<1>4. prestart'[c] \in S \cup {0}
  BY <1>1, <1>3 DEF Carries
<1> QED
  BY <1>1, <1>2, <1>4 DEF Carries

LEMMA WriteCarries ==
    ASSUME IInv, NEW c \in Cameras, NEW S, Carries(c, S), WriteJob(c)
    PROVE  Carries(c, S)'
<1> DEFINE job == worker[c].job
           opened == [session |-> job.session, holds |-> {}]
<1>1. /\ worker[c].pc = "write" /\ Goto(c, "publish")
      /\ prestart' = [prestart EXCEPT ![c] = PrestartFor(c, job)]
      /\ UNCHANGED queue
  BY DEF WriteJob, MayWrite, Writing
<1>2. worker'[c].pc = "publish" /\ worker'[c].job = worker[c].job
  BY <1>1, GotoJob
<1>3. job.session \in S
  BY <1>1 DEF Carries
<1>4. prestart'[c] \in S \cup {0}
  BY <1>1 DEF Carries, PrestartFor, IInv, Types
<1>5. PICK w \in Writers(c, job) :
        segment' = [segment EXCEPT ![c] = [w EXCEPT !.holds = @ \cup {job.session}]]
  BY DEF WriteJob
<1>6. w \in [session : Nat, holds : SUBSET Nat]
  BY <1>5, WritersType
<1>7. w.session \in S /\ w.holds \subseteq S
  <2>1. w = opened \/ (w = segment[c] /\ segment[c] # NoWriter)
    BY <1>5 DEF Writers
  <2> QED BY <1>3, <2>1 DEF Carries
<1>8. segment'[c] = [w EXCEPT !.holds = @ \cup {job.session}]
  BY <1>5 DEF IInv, Types
<1>9. segment'[c].session = w.session /\ segment'[c].holds = w.holds \cup {job.session}
  BY <1>6, <1>8
<1>10. segment'[c].session \in S /\ segment'[c].holds \subseteq S
  BY <1>3, <1>7, <1>9
<1> QED
  BY <1>1, <1>2, <1>3, <1>4, <1>10 DEF Carries

LEMMA FailWriteCarries ==
    ASSUME IInv, NEW c \in Cameras, NEW S, Carries(c, S), FailWrite(c)
    PROVE  Carries(c, S)'
<1> DEFINE job == worker[c].job
           opened == [session |-> job.session, holds |-> {}]
<1>1. /\ worker[c].pc = "write"
      /\ prestart'[c] = 0 /\ queue'[c] = <<>>
  BY DEF FailWrite, MayWrite, Writing, IInv, Types
<1>2. PICK p \in {"abort", "wait"} : Goto(c, p)
  BY DEF FailWrite
<1>3. worker'[c].pc # "replay" /\ worker'[c].job = worker[c].job
  BY <1>2, GotoJob
<1>4. job.session \in S
  BY <1>1 DEF Carries
<1>5. segment'[c] \in {segment[c], opened}
  <2>1. PICK w \in Writers(c, job) \cup {segment[c]} : segment' = [segment EXCEPT ![c] = w]
    BY DEF FailWrite
  <2> QED BY <2>1 DEF Writers, IInv, Types
<1>6. /\ segment'[c] # NoWriter => segment'[c].session \in S
      /\ segment'[c].holds \subseteq S
  <2>1. CASE segment'[c] = segment[c]
    BY <2>1 DEF Carries
  <2>2. CASE segment'[c] = opened
    BY <1>4, <2>2
  <2> QED BY <1>5, <2>1, <2>2
<1> QED
  BY <1>1, <1>3, <1>4, <1>6 DEF Carries

LEMMA PublishCarries ==
    ASSUME IInv, NEW c \in Cameras, NEW S, Carries(c, S), PublishSegment(c)
    PROVE  Carries(c, S)'
<1> DEFINE place == IF worker[c].job.stream = "rgb" /\ prestart[c] # 0 THEN "replay" ELSE "wait"
<1>1. /\ worker[c].pc = "publish" /\ Goto(c, place)
      /\ UNCHANGED <<queue, segment, prestart>>
  BY DEF PublishSegment
<1>2. worker'[c].pc = place /\ worker'[c].job = worker[c].job
  BY <1>1, GotoJob
<1>3. place = "replay" => prestart[c] # 0
  OBVIOUS
<1> HIDE DEF place
<1> QED
  BY <1>1, <1>2, <1>3 DEF Carries

LEMMA ReplayCarries ==
    ASSUME IInv, NEW c \in Cameras, NEW S, Carries(c, S), ReplayDepth(c)
    PROVE  Carries(c, S)'
<1> DEFINE job == [NoJob EXCEPT !.stream = "depth", !.session = prestart[c]]
<1>1. /\ worker[c].pc = "replay" /\ UNCHANGED <<queue, segment>>
      /\ prestart[c] \in S
  BY DEF ReplayDepth, Carries
<1>2. job.session = prestart[c]
  BY DEF NoJob
<1> HIDE DEF job
<1>3. CASE /\ worker' = [worker EXCEPT ![c] = [pc |-> "write", job |-> job]]
           /\ prestart' = [prestart EXCEPT ![c] = 0]
  <2>1. worker'[c].pc = "write" /\ worker'[c].job = job /\ prestart'[c] = 0
    BY <1>3 DEF IInv, Types
  <2> QED BY <1>1, <1>2, <2>1 DEF Carries
<1>4. CASE Goto(c, "wait") /\ UNCHANGED prestart
  <2>1. worker'[c].pc = "wait"
    BY <1>4, GotoJob
  <2> QED BY <1>1, <1>4, <2>1 DEF Carries
<1> QED
  BY <1>3, <1>4 DEF ReplayDepth, job

\* The worker of a camera that aborts.
LEMMA AbortCarries ==
    ASSUME IInv, NEW c \in Cameras, NEW S, Carries(c, S), worker[c].pc # "wait",
           NEW p, p # "replay", Goto(c, p), UNCHANGED <<queue, segment, prestart>>
    PROVE  Carries(c, S)'
<1>1. worker'[c].pc = p /\ worker'[c].job = worker[c].job
  BY GotoJob
<1> QED
  BY <1>1 DEF Carries

LEMMA WorkCarries ==
    ASSUME IInv, NEW c \in Cameras, NEW S, Carries(c, S), Work(c)
    PROVE  Carries(c, S)'
<1>1. CASE ClaimFault(c) \/ RecordFault(c) \/ StopOnFault(c)
  <2>1. worker[c].pc # "wait" /\ UNCHANGED <<queue, segment, prestart>>
    BY <1>1 DEF ClaimFault, RecordFault, StopOnFault
  <2>2. PICK p \in {"wait", "fault", "stop"} : Goto(c, p)
    BY <1>1 DEF ClaimFault, RecordFault, StopOnFault
  <2> QED BY <2>1, <2>2, AbortCarries
<1> QED
  BY <1>1, TakeJobCarries, HoldBackCarries, WriteCarries, FailWriteCarries, PublishCarries,
     ReplayCarries DEF Work

LEMMA DetachCarries ==
    ASSUME IInv, NEW c \in Cameras, NEW S, Carries(c, S), NEW i \in DOMAIN tasks[c],
           DetachWriter(c, i)
    PROVE  Carries(c, S)' /\ Empty(c)'
<1>1. PICK t \in Task : t.pc = "detach" /\ tasks[c] = <<t>> /\ Progress(c, t)
  BY Closer DEF DetachWriter
<1>2. queue[c] = <<>> /\ worker[c].pc = "wait"
  BY <1>1 DEF Progress
<1>3. /\ UNCHANGED <<queue, worker>> /\ prestart'[c] = 0 /\ segment'[c] = NoWriter
  BY DEF DetachWriter, IInv, Types
<1> QED
  BY <1>2, <1>3 DEF Carries, Empty, NoWriter

\* The other cameras carry what they did.
LEMMA OthersCarry ==
    ASSUME IInv, NEW c \in Cameras,
           \/ EnqueueJob(c) \/ Work(c)
           \/ \E i \in DOMAIN tasks[c] : DetachWriter(c, i)
    PROVE  \A d \in Cameras : d # c =>
              /\ queue'[d] = queue[d] /\ worker'[d] = worker[d]
              /\ prestart'[d] = prestart[d] /\ segment'[d] = segment[d]
<1> SUFFICES ASSUME NEW d \in Cameras, d # c
             PROVE  /\ queue'[d] = queue[d] /\ worker'[d] = worker[d]
                    /\ prestart'[d] = prestart[d] /\ segment'[d] = segment[d]
  OBVIOUS
<1>1. Types
  BY DEF IInv
<1>2. queue'[d] = queue[d]
  BY <1>1 DEF EnqueueJob, Work, TakeJob, IgnoreDepth, HoldBack, WriteJob, FailWrite,
              PublishSegment, ReplayDepth, ClaimFault, RecordFault, StopOnFault, DetachWriter, Types
<1>3. prestart'[d] = prestart[d]
  BY <1>1 DEF EnqueueJob, Work, TakeJob, IgnoreDepth, HoldBack, WriteJob, FailWrite,
              PublishSegment, ReplayDepth, ClaimFault, RecordFault, StopOnFault, DetachWriter, Types
<1>4. segment'[d] = segment[d]
  BY <1>1 DEF EnqueueJob, Work, TakeJob, IgnoreDepth, HoldBack, WriteJob, FailWrite,
              PublishSegment, ReplayDepth, ClaimFault, RecordFault, StopOnFault, DetachWriter, Types
<1>5. worker'[d] = worker[d]
  BY <1>1 DEF EnqueueJob, Work, TakeJob, IgnoreDepth, HoldBack, WriteJob, FailWrite, Goto,
              PublishSegment, ReplayDepth, ClaimFault, RecordFault, StopOnFault, DetachWriter, Types
<1> QED
  BY <1>2, <1>3, <1>4, <1>5

-----------------------------------------------------------------------------
\* The sessions a camera carries have been issued

\* The steps that pass on what a camera carries, and the rest.
Handles(c) ==
    \/ EnqueueJob(c) \/ Work(c)
    \/ \E i \in DOMAIN tasks[c] : DetachWriter(c, i)

LEMMA Handling ==
    ASSUME [Next]_vars
    PROVE  (\E c \in Cameras : Handles(c)) \/ UNCHANGED <<queue, worker, segment, prestart>>
<1>1. CASE Request
  BY <1>1 DEF Request, StartAll, StartSender, StartCamera, StopAll, StopSender, StopCamera, Call
<1>2. CASE Discover \/ UNCHANGED vars
  BY <1>2 DEF Discover, vars
<1>3. ASSUME NEW c \in Cameras,
             ReceivePacket(c) \/ EnqueueJob(c) \/ Work(c)
               \/ FinalizeIdle(c) \/ FinalizeFailed(c) \/ CloseTask(c)
      PROVE  Handles(c) \/ UNCHANGED <<queue, worker, segment, prestart>>
  <2>1. CASE ReceivePacket(c) \/ FinalizeIdle(c) \/ FinalizeFailed(c)
    BY <2>1 DEF ReceivePacket, FinalizeIdle, FinalizeFailed, Finalize, WorkerVars
  <2>2. CASE CloseTask(c)
    BY <2>2 DEF CloseTask, Handles, DrainTail, AwaitQueue, FinishClose, WorkerVars
  <2> QED BY <1>3, <2>1, <2>2 DEF Handles
<1> QED
  BY <1>1, <1>2, <1>3 DEF Next

LEMMA StepCarries ==
    ASSUME NInv, [Next]_vars, NEW c \in Cameras, NEW S, Carries(c, S), 
           EnqueueJob(c) /\ InputUnchanged(cam[c], ingress[c]) => ingress[c].session \in S
    PROVE  Carries(c, S)'
<1>1. CASE UNCHANGED <<queue, worker, segment, prestart>>
  BY <1>1, CarriesSame
<1>2. ASSUME NEW d \in Cameras, Handles(d) PROVE Carries(c, S)'
  <2>1. CASE d = c
    BY <1>2, <2>1, EnqueueCarries, WorkCarries, DetachCarries DEF Handles, NInv
  <2>2. CASE d # c
    BY <1>2, <2>2, OthersCarry, CarriesSame DEF Handles, NInv
  <2> QED BY <2>1, <2>2
<1> QED
  BY <1>1, <1>2, Handling

\* Who changes the job of a media thread.
LEMMA IngressStep ==
    ASSUME NInv, [Next]_vars, NEW c \in Cameras
    PROVE  \/ ingress'[c] = ingress[c]
           \/ ingress'[c] = NoJob
           \/ /\ c \in known /\ cam' = cam /\ cam[c].accepting /\ ingress'[c] \in Job
              /\ ingress'[c].session = JobSession(cam[c])
              /\ ingress'[c].generation = cam[c].generation
<1>1. CASE Request
  BY <1>1 DEF Request, StartAll, StartSender, StartCamera, StopAll, StopSender, StopCamera, Call
<1>2. CASE Discover \/ UNCHANGED vars
  BY <1>2 DEF Discover, vars
<1>3. ASSUME NEW d \in Cameras, ReceivePacket(d)
      PROVE  \/ ingress'[c] = ingress[c]
             \/ /\ c \in known /\ cam' = cam /\ cam[c].accepting /\ ingress'[c] \in Job
                /\ ingress'[c].session = JobSession(cam[c])
                /\ ingress'[c].generation = cam[c].generation
  <2>1. PICK stream \in Streams :
          ingress' = [ingress EXCEPT ![d] = [stream |-> stream, session |-> JobSession(cam[d]),
                                             generation |-> cam[d].generation]]
    BY <1>3 DEF ReceivePacket
  <2>2. CASE d = c
    <3>1. ingress'[c] = [stream |-> stream, session |-> JobSession(cam[c]),
                         generation |-> cam[c].generation]
      BY <2>1, <2>2 DEF NInv, IInv, Types
    <3>2. JobSession(cam[c]) \in Nat /\ cam[c].generation \in Nat
      BY NFacts DEF JobSession, CameraRecord
    <3> QED BY <1>3, <2>2, <3>1, <3>2 DEF ReceivePacket, Recordable, Job
  <2>3. CASE d # c
    BY <2>1, <2>3 DEF NInv, IInv, Types
  <2> QED BY <2>2, <2>3
<1>4. ASSUME NEW d \in Cameras, EnqueueJob(d)
      PROVE  ingress'[c] = ingress[c] \/ ingress'[c] = NoJob
  BY <1>4 DEF EnqueueJob, NInv, IInv, Types
<1>5. ASSUME NEW d \in Cameras,
             Work(d) \/ FinalizeIdle(d) \/ FinalizeFailed(d) \/ CloseTask(d)
      PROVE  ingress'[c] = ingress[c]
  BY <1>5 DEF Work, TakeJob, IgnoreDepth, HoldBack, WriteJob, FailWrite, MayWrite, Writing,
              PublishSegment, ReplayDepth, ClaimFault, RecordFault, StopOnFault,
              FinalizeIdle, FinalizeFailed, Finalize, CloseTask, DrainTail, AwaitQueue,
              DetachWriter, FinishClose
<1> QED
  BY <1>1, <1>2, <1>3, <1>4, <1>5 DEF Next

LEMMA IssuedStep == NInv /\ [Next]_vars => Issued'
<1> SUFFICES ASSUME NInv, [Next]_vars PROVE Issued'
  OBVIOUS
<1>1. StepOf
  BY NextStepOf
<1>2. PICK n \in Nat : n = ctl.last
  BY NFacts
<1>3. PICK m \in Nat : m = ctl'.last
  BY NextIInv DEF NInv, IInv, Types, ControlRecord
<1>4. n <= m
  BY <1>1, <1>2, <1>3 DEF StepOf, Numbered
<1>5. ASSUME NEW c \in Cameras
      PROVE  ingress'[c].session <= m /\ Carries(c, 0..m)'
  <2>1. ingress[c].session \in 0..n /\ ingress[c] \in Job \cup {NoJob}
    BY <1>2 DEF NInv, Issued, IInv, Types, Job, NoJob
  <2>2. ingress'[c].session <= m
    <3>1. JobSession(cam[c]) \in 0..n
      BY <1>2, NFacts DEF JobSession
    <3>2. NoJob.session = 0
      BY DEF NoJob
    <3> QED BY <1>4, <2>1, <3>1, <3>2, IngressStep
  <2>3. Carries(c, 0..n)
    BY <1>2 DEF NInv, Issued
  <2>4. Carries(c, 0..n)'
    BY <2>1, <2>3, StepCarries
  <2>5. 0..n \subseteq 0..m
    BY <1>4
  <2> QED BY <2>2, <2>4, <2>5 DEF Carries
<1> QED
  BY <1>1, <1>3, <1>5 DEF Issued, StepOf, Numbered

LEMMA MoreTypesStep == NInv /\ [Next]_vars => MoreTypes'
<1> SUFFICES ASSUME NInv, [Next]_vars PROVE MoreTypes'
  OBVIOUS
<1>1. fault \in [stop : BOOLEAN, recorded : BOOLEAN] /\ budget \in Budget
  BY DEF NInv, MoreTypes
<1>2. ASSUME NEW n \in Nat, n > 0 PROVE n - 1 \in Nat
  BY <1>2
<1>3. CASE Request
  <2>1. Call /\ (ForgetFault \/ KeepFault)
    BY <1>3 DEF Request, StartAll, StartSender, StartCamera, StopAll, StopSender, StopCamera
  <2>2. budget' \in Budget
    BY <1>1, <2>1 DEF Call, Budget
  <2>3. fault' \in [stop : BOOLEAN, recorded : BOOLEAN]
    <3>1. CASE ForgetFault
      BY <3>1 DEF ForgetFault
    <3>2. CASE KeepFault
      BY <1>1, <3>2 DEF KeepFault
    <3> QED BY <2>1, <3>1, <3>2
  <2> QED BY <2>2, <2>3 DEF MoreTypes
<1>4. CASE Discover \/ UNCHANGED vars
  BY <1>1, <1>4 DEF Discover, vars, MoreTypes
<1>5. ASSUME NEW c \in Cameras, ReceivePacket(c) \/ EnqueueJob(c) PROVE MoreTypes'
  BY <1>1, <1>5 DEF ReceivePacket, EnqueueJob, MoreTypes, Budget
<1>6. ASSUME NEW c \in Cameras, Work(c) PROVE MoreTypes'
  <2>1. CASE FailWrite(c)
    BY <1>1, <2>1 DEF FailWrite, MoreTypes, Budget
  <2>2. CASE ClaimFault(c) \/ RecordFault(c)
    BY <1>1, <2>2 DEF ClaimFault, RecordFault, MoreTypes
  <2> QED
    BY <1>1, <1>6, <2>1, <2>2 DEF Work, TakeJob, IgnoreDepth, HoldBack, WriteJob,
       PublishSegment, ReplayDepth, StopOnFault, MoreTypes
<1>7. ASSUME NEW c \in Cameras, FinalizeIdle(c) \/ FinalizeFailed(c) \/ CloseTask(c)
      PROVE  MoreTypes'
  <2>1. fault' = fault
    BY <1>7 DEF FinalizeIdle, FinalizeFailed, Finalize, CloseTask, DrainTail, AwaitQueue,
                DetachWriter, FinishClose
  <2>2. CASE FinalizeIdle(c)
    <3>1. budget.idles > 0 /\ budget' = [budget EXCEPT !.idles = @ - 1]
      BY <2>2 DEF FinalizeIdle
    <3> QED BY <1>1, <2>1, <3>1 DEF MoreTypes, Budget
  <2>3. CASE FinalizeFailed(c) \/ CloseTask(c)
    <3>1. budget' = budget
      BY <2>3 DEF FinalizeFailed, CloseTask, DrainTail, AwaitQueue, DetachWriter, FinishClose
    <3> QED BY <1>1, <2>1, <3>1 DEF MoreTypes
  <2> QED BY <1>7, <2>2, <2>3
<1> QED
  BY <1>3, <1>4, <1>5, <1>6, <1>7 DEF Next

LEMMA SettledStep == NInv /\ [Next]_vars => \A c \in Cameras : Settled(cam'[c])
<1> SUFFICES ASSUME NInv, [Next]_vars, NEW c \in Cameras, cam'[c].accepting, cam'[c].pending
             PROVE  cam'[c].finalizing
  BY DEF Settled
<1>1. InputStep(c) /\ Settled(cam[c])
  BY NextStepOf, NFacts DEF StepOf
<1>2. CASE Keeps(cam[c], cam'[c])
  <2>1. cam[c].accepting /\ (cam[c].pending \/ cam'[c].finalizing)
    BY <1>2 DEF Keeps
  <2> QED BY <1>1, <1>2, <2>1 DEF Settled, Keeps
<1> QED
  BY <1>1, <1>2 DEF InputStep, Closes, Restarts, Fails

LEMMA BeginsNInv == Begins /\ budget \in Budget => NInv
<1> SUFFICES ASSUME Begins, budget \in Budget PROVE NInv
  OBVIOUS
<1>1. IInv
  BY BeginsIInv
<1>2. MoreTypes
  BY DEF Begins, MoreTypes
<1>3. /\ ctl = NoRecording /\ NoRecording.session = 0 /\ NoRecording.last = 0
      /\ NoRecording.all = FALSE /\ NoRecording \in ControlRecord
  BY DEF Begins, NoRecording, ControlRecord
<1>4. ASSUME NEW c \in Cameras
      PROVE  /\ cam[c].session <= ctl.last /\ cam[c].tail <= ctl.last /\ Settled(cam[c])
             /\ ingress[c].session <= ctl.last /\ Carries(c, 0..ctl.last)
  <2>1. cam[c] = NewCamera(NoRecording)
    BY DEF Begins
  <2>2. /\ cam[c].session <= ctl.last /\ cam[c].tail <= ctl.last /\ Settled(cam[c])
    BY <1>3, <2>1, HeardCamera DEF Settled
  <2>3. Empty(c)
    BY DEF Begins, Empty
  <2> QED BY <1>1, <1>3, <2>2, <2>3, EmptyCarries DEF Begins, NoJob
<1>5. ctl.session <= ctl.last
  BY <1>3
<1> QED
  BY <1>1, <1>2, <1>4, <1>5 DEF NInv, Issued

LEMMA InitNInv == Init => NInv
<1> SUFFICES ASSUME Init PROVE NInv
  OBVIOUS
<1>1. budget \in Budget
  BY RecordingAssumption DEF Init, Budget
<1> QED
  BY <1>1, BeginsNInv DEF Init, Begins

LEMMA NumberedInvariance == Spec => []NInv
<1>1. NInv /\ [Next]_vars => NInv'
  BY NextIInv, IssuedStep, MoreTypesStep, SettledStep DEF NInv
<1> QED
  BY <1>1, InitNInv, PTL DEF Spec

\* Every variable keeps its type, and every session number in use (of start-all, of a
\* camera's window, of the tail that is drained, of an open segment) has been handed out by
\* next_recording_session_id_locked: a camera is never opened under a number to come.
THEOREM TypeCorrect == Spec => []TypeOK
<1>1. NInv => TypeOK
  <2> SUFFICES ASSUME NInv PROVE TypeOK
    OBVIOUS
  <2>1. ASSUME NEW c \in Cameras PROVE segment[c].session <= ctl.last
    <3>1. segment[c] = NoWriter \/ segment[c].session \in 0..ctl.last
      BY DEF NInv, Issued, Carries
    <3> QED BY <3>1, NFacts DEF NoWriter
  <2>2. SessionsIssued
    BY <2>1, NFacts DEF SessionsIssued
  <2> QED BY <2>2 DEF NInv, IInv, Types, MoreTypes, Budget, TypeOK, CameraRecord, ControlRecord,
                  Task, Places
<1> QED
  BY <1>1, NumberedInvariance, PTL

\* While the tail of a stopped recording is drained, no request, no maintenance and no other
\* recording closes the camera's input (set_record_accepting): only a failed write does.
THEOREM DrainKept == Spec => DrainKeepsInput
<1>1. ASSUME NInv, [Next]_vars, NEW c \in Cameras,
             cam[c].tail # 0, cam'[c].tail # 0, cam[c].accepting, ~cam'[c].accepting
      PROVE  budget'.faults < budget.faults
  <2>1. InputStep(c)
    BY <1>1, NextStepOf DEF StepOf
  <2> QED BY <1>1, <2>1 DEF InputStep, Keeps, Closes, Restarts, Fails
<1>2. NInv /\ [Next]_vars =>
        [\A c \in Cameras :
            /\ cam[c].tail # 0 /\ cam'[c].tail # 0
            /\ cam[c].accepting /\ ~cam'[c].accepting
            => budget'.faults < budget.faults]_vars
  BY <1>1
<1> QED
  BY <1>2, NumberedInvariance, PTL DEF Spec, DrainKeepsInput

\* All cameras that begin to record under start-all get its session, whether they are opened
\* by the request, by the end of a close task or as they are heard of; the session stands
\* until start-all ends.
THEOREM SessionShared == Spec => AllShareOneSession
<1>1. ASSUME NInv, [Next]_vars, NEW c \in Cameras,
             ctl'.all, ~cam[c].accepting, cam'[c].accepting
      PROVE  cam'[c].session = ctl'.session /\ ctl'.session # 0
  <2>1. InputStep(c)
    BY <1>1, NextStepOf DEF StepOf
  <2>2. ~Keeps(cam[c], cam'[c])
    <3>1. cam[c].accepting \in BOOLEAN /\ cam'[c].accepting \in BOOLEAN
      BY <1>1, NextIInv DEF NInv, IInv, Types, CameraRecord
    <3> QED BY <1>1, <3>1 DEF Keeps
  <2> QED BY <1>1, <2>1, <2>2 DEF InputStep, Closes, Restarts, Fails
<1>2. NInv /\ [Next]_vars => KeepsSession
  BY NextStepOf DEF StepOf
<1>3. NInv /\ [Next]_vars =>
        [/\ (ctl.all /\ ctl'.all /\ ctl.session # 0) => ctl'.session = ctl.session
         /\ \A c \in Cameras :
               (ctl'.all /\ ~cam[c].accepting /\ cam'[c].accepting)
                   => cam'[c].session = ctl'.session /\ ctl'.session # 0]_vars
  BY <1>1, <1>2 DEF KeepsSession
<1> QED
  BY <1>3, NumberedInvariance, PTL DEF Spec, AllShareOneSession

-----------------------------------------------------------------------------
\* A segment holds packets of one session

LEMMA FaultsStep ==
    ASSUME NInv, PureInv, [Next]_vars
    PROVE  /\ budget'.faults = 0
           /\ \A c \in Cameras : ~FailWrite(c)
<1>1. budget \in Budget /\ budget.faults = 0
  BY DEF NInv, MoreTypes, PureInv
<1>2. \A c \in Cameras : ~FailWrite(c)
  BY <1>1 DEF FailWrite
<1>3. CASE Request
  <2>1. Call
    BY <1>3 DEF Request, StartAll, StartSender, StartCamera, StopAll, StopSender, StopCamera
  <2> QED BY <1>1, <1>2, <2>1 DEF Call, Budget
<1>4. CASE Discover \/ UNCHANGED vars
  BY <1>1, <1>2, <1>4 DEF Discover, vars
<1>5. ASSUME NEW c \in Cameras,
             ReceivePacket(c) \/ EnqueueJob(c) \/ Work(c)
               \/ FinalizeIdle(c) \/ FinalizeFailed(c) \/ CloseTask(c)
      PROVE  budget'.faults = 0
  <2>1. CASE ReceivePacket(c)
    BY <1>1, <2>1 DEF ReceivePacket, Budget
  <2>2. CASE FinalizeIdle(c)
    BY <1>1, <2>2 DEF FinalizeIdle, Budget
  <2>3. CASE EnqueueJob(c) \/ FinalizeFailed(c) \/ CloseTask(c)
    BY <1>1, <2>3 DEF EnqueueJob, FinalizeFailed, CloseTask, DrainTail, AwaitQueue,
                      DetachWriter, FinishClose
  <2>4. CASE Work(c)
    BY <1>1, <1>2, <2>4 DEF Work, TakeJob, IgnoreDepth, HoldBack, WriteJob, PublishSegment,
                      ReplayDepth, ClaimFault, RecordFault, StopOnFault
  <2> QED BY <1>5, <2>1, <2>2, <2>3, <2>4
<1> QED
  BY <1>2, <1>3, <1>4, <1>5 DEF Next

\* No camera is forgotten.
LEMMA KnownStep ==
    ASSUME [Next]_vars, NEW c \in known
    PROVE  c \in known'
<1>1. CASE Request
  BY <1>1 DEF Request, StartAll, StartSender, StartCamera, StopAll, StopSender, StopCamera,
              Activate
<1>2. CASE Discover \/ UNCHANGED vars
  BY <1>2 DEF Discover, vars
<1>3. ASSUME NEW d \in Cameras,
             ReceivePacket(d) \/ EnqueueJob(d) \/ Work(d)
               \/ FinalizeIdle(d) \/ FinalizeFailed(d) \/ CloseTask(d)
      PROVE  c \in known'
  BY <1>3 DEF ReceivePacket, EnqueueJob, Work, TakeJob, IgnoreDepth, HoldBack, WriteJob,
              FailWrite, MayWrite, Writing, PublishSegment, ReplayDepth, ClaimFault, RecordFault,
              StopOnFault, FinalizeIdle, FinalizeFailed, Finalize, CloseTask, DrainTail,
              AwaitQueue, DetachWriter, FinishClose, Activate
<1> QED
  BY <1>1, <1>2, <1>3 DEF Next

\* Without failures the worker never gets to where it would abort.
LEMMA PlaceStep ==
    ASSUME NInv, PureInv, [Next]_vars, NEW c \in Cameras
    PROVE  worker'[c].pc \in {"wait", "write", "publish", "replay"}
<1>1. worker[c].pc \in {"wait", "write", "publish", "replay"}
  BY DEF PureInv, Pure
<1>2. ASSUME worker'[c] = worker[c] PROVE worker'[c].pc \in {"wait", "write", "publish", "replay"}
  BY <1>1, <1>2
<1>3. ASSUME Work(c) PROVE worker'[c].pc \in {"wait", "write", "publish", "replay"}
  <2>1. worker \in [Cameras -> [pc : Places, job : Job \cup {NoJob}]]
    BY DEF NInv, IInv, Types
  <2>2. CASE TakeJob(c)
    BY <2>1, <2>2 DEF TakeJob
  <2>3. CASE IgnoreDepth(c) \/ HoldBack(c) \/ WriteJob(c) \/ PublishSegment(c)
    <3>1. \E p \in {"wait", "publish", "replay"} : Goto(c, p)
      BY <2>3 DEF IgnoreDepth, HoldBack, WriteJob, PublishSegment
    <3> QED BY <3>1, GotoJob DEF NInv
  <2>4. CASE ReplayDepth(c)
    <3>1. CASE Goto(c, "wait")
      BY <3>1, GotoJob DEF NInv
    <3> QED BY <2>1, <2>4, <3>1 DEF ReplayDepth
  <2>5. ~(ClaimFault(c) \/ RecordFault(c) \/ StopOnFault(c) \/ FailWrite(c))
    BY <1>1, FaultsStep DEF ClaimFault, RecordFault, StopOnFault
  <2> QED BY <1>3, <2>2, <2>3, <2>4, <2>5 DEF Work
<1>4. CASE UNCHANGED worker
  BY <1>2, <1>4
<1>5. ASSUME NEW d \in Cameras, Handles(d)
      PROVE  worker'[c].pc \in {"wait", "write", "publish", "replay"}
  <2>1. CASE d = c
    BY <1>2, <1>3, <1>5, <2>1 DEF Handles, EnqueueJob, DetachWriter
  <2>2. CASE d # c
    BY <1>2, <1>5, <2>2, OthersCarry DEF Handles, NInv
  <2> QED BY <2>1, <2>2
<1> QED
  BY <1>4, <1>5, Handling

\* A closed camera of which nothing is left stays so.
LEMMA EmptyStep ==
    ASSUME NInv, [Next]_vars, NEW c \in Cameras, Empty(c), ~cam[c].accepting
    PROVE  Empty(c)'
<1>1. ASSUME /\ queue'[c] = queue[c] /\ worker'[c] = worker[c]
             /\ prestart'[c] = prestart[c] /\ segment'[c] = segment[c]
      PROVE  Empty(c)'
  BY <1>1 DEF Empty, NoWriter
<1>2. CASE UNCHANGED <<queue, worker, segment, prestart>>
  BY <1>1, <1>2
<1>3. ASSUME NEW d \in Cameras, Handles(d) PROVE Empty(c)'
  <2>1. CASE d = c
    <3>1. CASE EnqueueJob(c)
      BY <1>1, <3>1 DEF EnqueueJob, InputUnchanged
    <3>2. ~Work(c)
      BY DEF Empty, Work, TakeJob, IgnoreDepth, HoldBack, WriteJob, FailWrite, MayWrite, Writing,
             PublishSegment, ReplayDepth, ClaimFault, RecordFault, StopOnFault
    <3>3. ASSUME NEW i \in DOMAIN tasks[c], DetachWriter(c, i) PROVE Empty(c)'
      <4>1. Types
        BY DEF NInv, IInv
      <4>2. segment'[c] = NoWriter /\ prestart'[c] = 0
        BY <3>3, <4>1 DEF DetachWriter, Types
      <4> QED BY <3>3, <4>2 DEF DetachWriter, Empty, NoWriter
    <3> QED BY <1>3, <2>1, <3>1, <3>2, <3>3 DEF Handles
  <2>2. CASE d # c
    BY <1>1, <1>3, <2>2, OthersCarry DEF Handles, NInv
  <2> QED BY <2>1, <2>2
<1> QED
  BY <1>2, <1>3, Handling

\* A close task gets to its last step only by detaching the writer.
Unfinished(c) == \A t \in Task : tasks'[c] = <<t>> => t.pc # "finish"

LEMMA TasksStep ==
    ASSUME NInv, [Next]_vars, NEW c \in Cameras
    PROVE  \/ tasks'[c] = tasks[c] \/ Unfinished(c)
           \/ \E i \in DOMAIN tasks[c] : DetachWriter(c, i)
<1>1. tasks \in [Cameras -> Seq(Task)] /\ CameraInv(c)
  BY DEF NInv, IInv, Types
<1>2. ASSUME NEW reason \in {"stop", "idle", "storage"}, ~cam[c].finalizing,
             tasks'[c] = Append(tasks[c], Close(reason))
      PROVE  Unfinished(c)
  <2>1. Close(reason) \in Task /\ Close(reason).pc = "tail"
    BY DEF Close, Task
  <2>2. tasks'[c] = <<Close(reason)>>
    BY <1>1, <1>2, <2>1, SingleTask DEF CameraInv, OneTask
  <2> QED BY <2>1, <2>2, SingleTask DEF Unfinished
<1>3. ASSUME NEW s, StopCameras(s) PROVE tasks'[c] = tasks[c] \/ Unfinished(c)
  <2>1. CASE c \in s /\ NeedsClose(cam[c])
    BY <1>2, <1>3, <2>1 DEF StopCameras, NeedsClose
  <2> QED BY <1>3, <2>1 DEF StopCameras
<1>4. CASE Request
  BY <1>3, <1>4 DEF Request, StartAll, StartSender, StartCamera, StopAll, StopSender, StopCamera,
                    StopEverything
<1>5. CASE Discover \/ UNCHANGED vars
  BY <1>5 DEF Discover, vars
<1>6. ASSUME NEW d \in Cameras,
             ReceivePacket(d) \/ EnqueueJob(d) \/ Work(d)
      PROVE  tasks'[c] = tasks[c] \/ Unfinished(c)
  BY <1>3, <1>6 DEF ReceivePacket, EnqueueJob, Work, TakeJob, IgnoreDepth, HoldBack, WriteJob,
              FailWrite, MayWrite, Writing, PublishSegment, ReplayDepth, ClaimFault, RecordFault,
              StopOnFault, StopEverything
<1>7. ASSUME NEW d \in Cameras, FinalizeIdle(d) \/ FinalizeFailed(d)
      PROVE  tasks'[c] = tasks[c] \/ Unfinished(c)
  <2>1. PICK reason \in {"stop", "idle", "storage"} :
          ~cam[d].finalizing /\ tasks' = [tasks EXCEPT ![d] = Append(tasks[d], Close(reason))]
    BY <1>7 DEF FinalizeIdle, FinalizeFailed, Finalize
  <2> QED BY <1>1, <1>2, <2>1
<1>8. ASSUME NEW d \in Cameras, CloseTask(d), d # c PROVE tasks'[c] = tasks[c]
  BY <1>1, <1>8 DEF CloseTask, DrainTail, AwaitQueue, DetachWriter, FinishClose, Step
<1>9. ASSUME CloseTask(c)
      PROVE  Unfinished(c) \/ \E i \in DOMAIN tasks[c] : DetachWriter(c, i)
  <2>1. PICK i \in DOMAIN tasks[c] :
          DrainTail(c, i) \/ AwaitQueue(c, i) \/ DetachWriter(c, i) \/ FinishClose(c, i)
    BY <1>9 DEF CloseTask
  <2>2. PICK t \in Task : tasks[c] = <<t>> /\ i = 1
    BY Closer DEF NInv
  <2>3. CASE DrainTail(c, i) \/ AwaitQueue(c, i)
    <3>1. PICK u \in Task : u.pc \in {"queue", "detach"} /\ tasks'[c] = <<u>>
      BY <2>2, <2>3, StepTask DEF DrainTail, AwaitQueue, NInv
    <3> QED BY <3>1, SingleTask DEF Unfinished
  <2>4. CASE FinishClose(c, i)
    <3>1. tasks'[c] = <<>>
      BY <1>1, <2>2, <2>4, SingleTask DEF FinishClose
    <3> QED BY <3>1, SingleTask DEF Unfinished
  <2> QED BY <2>1, <2>3, <2>4
<1> QED
  BY <1>4, <1>5, <1>6, <1>7, <1>8, <1>9 DEF Next

\* With the last step of the task nothing of the recording is left, not even depth that
\* waited for an RGB packet.
LEMMA FinishedStep ==
    ASSUME NInv, PureInv, [Next]_vars, NEW c \in Cameras,
           NEW t \in Task, t.pc = "finish", tasks'[c] = <<t>>
    PROVE  prestart'[c] = 0
<1>1. ~Unfinished(c)
  BY DEF Unfinished
<1>2. CASE \E i \in DOMAIN tasks[c] : DetachWriter(c, i)
  BY <1>2 DEF DetachWriter, NInv, IInv, Types
<1>3. CASE tasks'[c] = tasks[c]
  <2>1. Progress(c, t) /\ cam[c].finalizing
    BY <1>3, SingleTask DEF NInv, IInv, CameraInv, OneTask
  <2>2. Empty(c) /\ prestart[c] = 0
    BY <1>3, <2>1 DEF PureInv, Pure, Progress, Empty
  <2>3. ~cam[c].accepting
    BY <2>1, NFacts DEF Progress, Owned
  <2> QED BY <2>2, <2>3, EmptyStep DEF Empty
<1> QED
  BY <1>1, <1>2, <1>3, TasksStep

-----------------------------------------------------------------------------
LEMMA GenerationStep ==
    ASSUME NInv, PureInv, [Next]_vars, NEW c \in Cameras, c \in known
    PROVE  cam'[c].generation >= cam[c].generation
<1>1. cam[c].generation \in Nat
  BY NFacts DEF CameraRecord
<1>2. InputStep(c) /\ ~Fails(c)
  BY NextStepOf, FaultsStep DEF StepOf, Fails, PureInv
<1> QED
  BY <1>1, <1>2 DEF InputStep, Keeps, Closes, Restarts

\* The job of a media thread is of the input as it was read, or of one before.
LEMMA ReadBefore ==
    ASSUME NInv, PureInv, [Next]_vars, NEW c \in Cameras
    PROVE  /\ c \notin known' => ingress'[c] = NoJob
           /\ ingress'[c] # NoJob => ingress'[c].generation <= cam'[c].generation
<1>1. /\ c \notin known => ingress[c] = NoJob
      /\ ingress[c] # NoJob => ingress[c].generation <= cam[c].generation
  BY DEF PureInv, Pure
<1>2. cam[c].generation \in Nat /\ cam'[c].generation \in Nat
  BY NFacts, NextIInv DEF NInv, IInv, Types, CameraRecord
<1>3. c \notin known' => ingress'[c] = NoJob
  BY <1>1, IngressStep, KnownStep
<1>4. ASSUME ingress'[c] # NoJob PROVE ingress'[c].generation <= cam'[c].generation
  <2>1. CASE ingress'[c] = ingress[c]
    <3>1. c \in known
      BY <1>1, <1>4, <2>1
    <3>2. ingress[c].generation \in Nat
      BY DEF NInv, IInv, Types, Job, NoJob
    <3> QED BY <1>1, <1>2, <1>4, <2>1, <3>1, <3>2, GenerationStep
  <2>2. CASE cam' = cam /\ ingress'[c].generation = cam[c].generation
    BY <1>2, <2>2
  <2> QED BY <1>4, <2>1, <2>2, IngressStep
<1> QED
  BY <1>3, <1>4

LEMMA BoundStep ==
    ASSUME NInv, PureInv, [Next]_vars, NEW c \in Cameras
    PROVE  \E n \in Nat : Bound(c, n)'
<1>1. InputStep(c) /\ ~Fails(c)
  BY NextStepOf, FaultsStep DEF StepOf, Fails, PureInv
<1>2. PICK n \in Nat : Bound(c, n)
  BY DEF PureInv, Pure
<1>3. cam[c].accepting \in BOOLEAN /\ cam'[c].accepting \in BOOLEAN
  BY NFacts, NextIInv DEF NInv, IInv, Types, CameraRecord
<1>4. Carries(c, {n})'
  <2>1. EnqueueJob(c) /\ InputUnchanged(cam[c], ingress[c]) => ingress[c].session \in {n}
    BY <1>2 DEF EnqueueJob, InputUnchanged, Bound
  <2>2. Carries(c, {n})
    BY <1>2 DEF Bound
  <2> QED BY <2>1, <2>2, StepCarries
<1>5. CASE Keeps(cam[c], cam'[c])
  <2>1. ASSUME cam'[c].accepting PROVE JobSession(cam'[c]) = n
    BY <1>2, <1>5, <2>1 DEF Keeps, Bound
  <2>2. ASSUME cam'[c].accepting, ingress'[c] # NoJob,
               ingress'[c].generation = cam'[c].generation
        PROVE  ingress'[c].session = n
    <3>1. cam[c].accepting /\ cam'[c].generation = cam[c].generation
      BY <1>5, <2>2 DEF Keeps
    <3> QED BY <1>2, <2>2, <3>1, IngressStep DEF Bound
  <2> QED BY <1>4, <2>1, <2>2 DEF Bound
<1>6. CASE Closes(cam[c], cam'[c])
  BY <1>4, <1>6 DEF Closes, Bound
<1>7. CASE Restarts(c)
  <2>1. ~cam[c].accepting
    BY <1>7 DEF Restarts
  <2>2. Empty(c)
    <3>1. CASE ~cam[c].finalizing
      BY <2>1, <3>1 DEF PureInv, Pure
    <3>2. CASE cam[c].finalizing
      <4>1. PICK t \in Task : t.pc = "finish" /\ tasks[c] = <<t>>
        BY <1>7, <3>2 DEF Restarts
      <4>2. Progress(c, t)
        BY <4>1 DEF NInv, IInv, CameraInv
      <4> QED BY <4>1, <4>2 DEF PureInv, Pure, Progress, Empty
    <3> QED BY <3>1, <3>2
  <2>3. Empty(c)'
    BY <2>1, <2>2, EmptyStep
  <2>4. PICK m \in Nat : m = JobSession(cam'[c])
    BY NextIInv DEF NInv, IInv, Types, CameraRecord, JobSession
  <2>5. Carries(c, {m})'
    BY <2>3, NextIInv DEF Empty, Carries, NoWriter, NInv
  <2>6. ASSUME cam'[c].accepting, ingress'[c] # NoJob,
               ingress'[c].generation = cam'[c].generation
        PROVE  FALSE
    <3>1. ingress'[c] = ingress[c]
      BY <2>1, <2>6, IngressStep
    <3>2. c \in known /\ ingress[c].generation <= cam[c].generation
      BY <2>6, <3>1 DEF PureInv, Pure
    <3>3. cam'[c].generation > cam[c].generation
      BY <1>7, <2>6, <3>2 DEF Restarts
    <3>4. cam[c].generation \in Nat /\ cam'[c].generation \in Nat
      BY NFacts, NextIInv DEF NInv, IInv, Types, CameraRecord
    <3> QED BY <2>6, <3>1, <3>2, <3>3, <3>4
  <2> QED BY <2>4, <2>5, <2>6 DEF Bound
<1> QED
  BY <1>1, <1>5, <1>6, <1>7 DEF InputStep

LEMMA PureStep ==
    ASSUME NInv, PureInv, [Next]_vars
    PROVE  PureInv'
<1>1. ASSUME NEW c \in Cameras, ~cam'[c].accepting, ~cam'[c].finalizing
      PROVE  Empty(c)'
  <2>1. InputStep(c) /\ ~Fails(c)
    BY NextStepOf, FaultsStep DEF StepOf, Fails, PureInv
  <2>2. cam[c].accepting \in BOOLEAN /\ cam'[c].accepting \in BOOLEAN
    BY NFacts, NextIInv DEF NInv, IInv, Types, CameraRecord
  <2>3. ~cam[c].accepting
    BY <1>1, <2>1, <2>2 DEF InputStep, Keeps, Closes, Restarts
  <2>4. Empty(c)
    <3>1. CASE ~cam[c].finalizing
      BY <2>3, <3>1 DEF PureInv, Pure
    <3>2. CASE cam[c].finalizing
      <4>1. PICK t \in Task : t.pc = "finish" /\ tasks[c] = <<t>>
        BY <1>1, <2>1, <3>2 DEF InputStep, Keeps, Closes, Restarts
      <4>2. Progress(c, t)
        BY <4>1 DEF NInv, IInv, CameraInv
      <4> QED BY <4>1, <4>2 DEF PureInv, Pure, Progress, Empty
    <3> QED BY <3>1, <3>2
  <2> QED BY <2>3, <2>4, EmptyStep
<1>2. ASSUME NEW c \in Cameras PROVE Pure(c)'
  BY <1>1, <1>2, PlaceStep, FinishedStep, ReadBefore, BoundStep DEF Pure
<1> QED
  BY <1>2, FaultsStep DEF PureInv

LEMMA BeginsPure == Begins /\ budget.faults = 0 => PureInv
<1> SUFFICES ASSUME Begins, budget.faults = 0 PROVE PureInv
  OBVIOUS
<1>1. ASSUME NEW c \in Cameras PROVE Pure(c)
  <2>1. cam[c] = NewCamera(NoRecording) /\ Empty(c) /\ ingress[c] = NoJob /\ tasks[c] = <<>>
    BY DEF Begins, Empty
  <2>2. ~cam[c].accepting
    <3>1. NewCamera(NoRecording).accepting
            = (NoRecording.all /\ ~NoRecording.pending /\ NoRecording.session # 0)
      BY DEF NewCamera
    <3>2. NoRecording.all = FALSE
      BY DEF NoRecording
    <3> QED BY <2>1, <3>1, <3>2
  <2>3. Bound(c, 0)
    BY <2>1, <2>2, BeginsIInv, EmptyCarries DEF Bound
  <2> QED BY <2>1, <2>3 DEF Pure, Empty
<1> QED
  BY <1>1 DEF PureInv

\* Whatever a segment holds is of the session it was opened for.
LEMMA PureSegments == PureInv => OneSessionPerSegment
<1> SUFFICES ASSUME PureInv, NEW c \in Cameras
             PROVE  segment[c].holds \subseteq {segment[c].session}
  BY DEF OneSessionPerSegment
<1>1. PICK n \in Nat : Bound(c, n)
  BY DEF PureInv, Pure
<1>2. segment[c].holds \subseteq {n} /\ (segment[c] # NoWriter => segment[c].session = n)
  BY <1>1 DEF Bound, Carries
<1>3. segment[c] = NoWriter => segment[c].holds = {}
  BY DEF NoWriter
<1> QED
  BY <1>2, <1>3

\* If no write fails, no packet of one recording session gets into a segment of another:
\* not the tail that is drained after a stop (JobSession, InputUnchanged), not depth kept
\* for its RGB (PrestartFor), not what was queued before the next recording began.
THEOREM SessionsUnmixed == MaxFaults = 0 => (Spec => []OneSessionPerSegment)
<1> SUFFICES ASSUME MaxFaults = 0 PROVE Spec => []OneSessionPerSegment
  OBVIOUS
<1>1. Init => PureInv
  <2> SUFFICES ASSUME Init PROVE PureInv
    OBVIOUS
  <2> QED BY BeginsPure DEF Init, Begins
<1>2. NInv /\ PureInv /\ [Next]_vars => PureInv'
  BY PureStep
<1> QED
  BY <1>1, <1>2, NumberedInvariance, PureSegments, PTL DEF Spec

\* The same for the instance TLC runs, whose budget of failed writes is empty.
THEOREM CallsUnmixed == RecordingSpec => []OneSessionWithoutFaults
<1> DEFINE Inv == config = "calls" => NInv /\ PureInv
<1>1. RecordingInit => Inv
  <2> SUFFICES ASSUME Calls!Init PROVE NInv /\ PureInv
    BY DEF RecordingInit
  <2>1. budget \in Budget /\ budget.faults = 0
    BY DEF Calls!Init, Budget
  <2>2. Begins
    BY DEF Calls!Init, Begins, Calls!NoRecording, NoRecording, Calls!NewCamera, NewCamera,
           Calls!NoJob, NoJob, Calls!NoWriter, NoWriter
  <2> QED BY <2>1, <2>2, BeginsNInv, BeginsPure
<1>2. Inv /\ [RecordingNext]_<<vars, config>> => Inv'
  <2> SUFFICES ASSUME Inv, [RecordingNext]_<<vars, config>>, config' = "calls"
               PROVE  (NInv /\ PureInv)'
    OBVIOUS
  <2>1. config = "calls" /\ [Next]_vars
    BY DEF RecordingNext
  <2>2. NInv'
    BY <2>1, NextIInv, IssuedStep, MoreTypesStep, SettledStep DEF NInv
  <2> QED BY <2>1, <2>2, PureStep
<1>3. Inv => OneSessionWithoutFaults
  BY PureSegments DEF OneSessionWithoutFaults
<1> QED
  BY <1>1, <1>2, <1>3, PTL DEF RecordingSpec
=============================================================================
