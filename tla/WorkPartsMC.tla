----------------------------- MODULE WorkPartsMC ------------------------------
(***************************************************************************)
(* The components whose threads, processes or messages wait for each other, *)
(* each on its own and checked together: an instance is chosen in the       *)
(* initial state, and the behaviour is its behaviour. What they have in     *)
(* common is that the work must get done; that what is done is right is     *)
(* checked in DataPartsMC.                                                  *)
(***************************************************************************)
EXTENDS Integers

VARIABLES
    part,  \* the component of this behaviour; never changes
    v1, v2, v3, v4, v5, v6, v7, v8, v9, v10, v11, v12, v13, v14, v15, v16, v17, v18, v19, v20,
    v21  \* its variables, in the order of its WITH

vars == <<part, v1, v2, v3, v4, v5, v6, v7, v8, v9, v10, v11, v12, v13, v14, v15, v16, v17,
            v18, v19, v20, v21>>

Finalizers == INSTANCE SegmentFinalizers WITH
    Cameras <- {1, 2}, Workers <- {1, 2}, MaxPending <- 2, MaxSegments <- 2, MaxFaults <- 1,
    open <- v1, started <- v2, writer <- v3, closeTask <- v4, handing <- v5, outstanding <- v6,
    queue <- v7, active <- v8, alive <- v9, asleep <- v10, closed <- v11, phase <- v12,
    toClose <- v13, faults <- v14
Backpressure == INSTANCE RecordBackpressure WITH
    Cameras <- {1, 2}, RgbSizes <- {3, 9}, DepthSizes <- {1}, CameraMax <- 8, TotalMax <- 12,
    MaxPackets <- 4, MaxSwitches <- 2,
    input <- v1, queue <- v2, bytes <- v3, prestart <- v4, worker <- v5, active <- v6,
    ingress <- v7, total <- v8, prestartTotal <- v9, budget <- v10
SegmentEnd == INSTANCE SegmentClose WITH
    Segments <- {1, 2}, TaskAudio <- TRUE, MaxCrashes <- 1, MaxFaults <- 1,
    mode <- v1, dir <- v2, published <- v3, seg <- v4, service <- v5, up <- v6,
    toRecover <- v7, crashes <- v8, faults <- v9
Decode == INSTANCE ParallelDecode WITH
    Callers <- {1, 2}, Workers <- {3}, Chunks <- 2, Helpers <- 1, QueueMax <- 1,
    tasks <- v1, call <- v2, hands <- v3
Discovery == INSTANCE ReceiverDiscovery WITH
    Receivers <- {1, 2}, Hosts <- {1, 2}, Fallback <- 2, Sticky <- 1, MaxChanges <- 2,
    at <- v1, target <- v2, exchange <- v3, sinceSeen <- v4, sinceSuccess <- v5, window <- v6,
    candidates <- v7, saved <- v8, silent <- v9, changes <- v10
Fixed == INSTANCE CameraRuntime WITH
    Devices <- {1}, Configured <- {1}, NumSlots <- 1, MaxActive <- 2, RestartAttempts <- 2,
    FlapEvents <- {0, 2}, MaxFaults <- 2,
    present <- v1, sdk <- v2, camera <- v3, cooling <- v4, turn <- v5, scan <- v6,
    message <- v7, shown <- v8, known <- v9, flapEvents <- v10, faults <- v11
Further == INSTANCE CameraRuntime WITH
    Devices <- {1}, Configured <- {}, NumSlots <- 2, MaxActive <- 2, RestartAttempts <- 2,
    FlapEvents <- {0, 2}, MaxFaults <- 1,
    present <- v1, sdk <- v2, camera <- v3, cooling <- v4, turn <- v5, scan <- v6,
    message <- v7, shown <- v8, known <- v9, flapEvents <- v10, faults <- v11
Photos == INSTANCE PhotoCapture WITH
    Ids <- {"a"}, Burst <- {"a"}, PendingMax <- 1, QueueMax <- 1, PhotoQueueMax <- 1,
    MaxSubmits <- 2, MaxFaults <- 1,
    files <- v1, requests <- v2, pending <- v3, old <- v4, shot <- v5, jobs <- v6,
    cancelled <- v7, hand <- v8, result <- v9, waiting <- v10, wire <- v11, acks <- v12,
    photoQueue <- v13, photoPending <- v14, completed <- v15, reserved <- v16, stage <- v17,
    staged <- v18, nas <- v19, submits <- v20, faults <- v21
Keyframes == INSTANCE ScheduledKeyframe WITH
    Targets <- {2, 4}, Offsets <- {-1, 2}, MaxU <- 4, Lateness <- 2, RetryAfter <- 1,
    MaxTime <- 5, MaxRequests <- 2, MaxLost <- 1,
    now <- v1, offset <- v2, requests <- v3, applied <- v4, observed <- v5, target <- v6,
    lastEvent <- v7, armed <- v8, asked <- v9, event <- v10, eventFor <- v11, lost <- v12

\* A component with fewer variables leaves the others at 0.
Unused21 == v21 = 0
Unused20 == v20 = 0 /\ Unused21
Unused19 == v19 = 0 /\ Unused20
Unused18 == v18 = 0 /\ Unused19
Unused17 == v17 = 0 /\ Unused18
Unused16 == v16 = 0 /\ Unused17
Unused15 == v15 = 0 /\ Unused16
Unused14 == v14 = 0 /\ Unused15
Unused13 == v13 = 0 /\ Unused14
Unused12 == v12 = 0 /\ Unused13
Unused11 == v11 = 0 /\ Unused12
Unused10 == v10 = 0 /\ Unused11
Unused9 == v9 = 0 /\ Unused10
Unused8 == v8 = 0 /\ Unused9
Unused7 == v7 = 0 /\ Unused8
Unused6 == v6 = 0 /\ Unused7
Unused5 == v5 = 0 /\ Unused6
Unused4 == v4 = 0 /\ Unused5
\* ... and leaves them alone.
Keep22 == UNCHANGED part
Keep21 == UNCHANGED v21 /\ Keep22
Keep20 == UNCHANGED v20 /\ Keep21
Keep19 == UNCHANGED v19 /\ Keep20
Keep18 == UNCHANGED v18 /\ Keep19
Keep17 == UNCHANGED v17 /\ Keep18
Keep16 == UNCHANGED v16 /\ Keep17
Keep15 == UNCHANGED v15 /\ Keep16
Keep14 == UNCHANGED v14 /\ Keep15
Keep13 == UNCHANGED v13 /\ Keep14
Keep12 == UNCHANGED v12 /\ Keep13
Keep11 == UNCHANGED v11 /\ Keep12
Keep10 == UNCHANGED v10 /\ Keep11
Keep9 == UNCHANGED v9 /\ Keep10
Keep8 == UNCHANGED v8 /\ Keep9
Keep7 == UNCHANGED v7 /\ Keep8
Keep6 == UNCHANGED v6 /\ Keep7
Keep5 == UNCHANGED v5 /\ Keep6
Keep4 == UNCHANGED v4 /\ Keep5

Init ==
    \/ part = "finalizers" /\ Finalizers!Init /\ Unused15
    \/ part = "backpressure" /\ Backpressure!Init /\ Unused11
    \/ part = "close" /\ SegmentEnd!Init /\ Unused10
    \/ part = "decode" /\ Decode!Init /\ Unused4
    \/ part = "discovery" /\ Discovery!Init /\ Unused11
    \/ part = "configured" /\ Fixed!Init /\ Unused12
    \/ part = "further" /\ Further!Init /\ Unused12
    \/ part = "photos" /\ Photos!Init
    \/ part = "keyframes" /\ Keyframes!Init /\ Unused13

Next ==
    /\ UNCHANGED part
    /\ \/ part = "finalizers" /\ Finalizers!Next /\ Keep15
       \/ part = "backpressure" /\ Backpressure!Next /\ Keep11
       \/ part = "close" /\ SegmentEnd!Next /\ Keep10
       \/ part = "decode" /\ Decode!Next /\ Keep4
       \/ part = "discovery" /\ Discovery!Next /\ Keep11
       \/ part = "configured" /\ Fixed!Next /\ Keep12
       \/ part = "further" /\ Further!Next /\ Keep12
       \/ part = "photos" /\ Photos!Next
       \/ part = "keyframes" /\ Keyframes!Next /\ Keep13

\* The Fairness of each component: its threads run, and time passes.  A behaviour is one
\* component's, so each of these is about the action of that component.
Fairness ==
    /\ \A c \in {1, 2} :
          /\ WF_vars(\/ part = "finalizers" /\ Keep15 /\ Finalizers!WaitForSlot(c)
                     \/ part = "backpressure" /\ Keep11 /\ Backpressure!Worker(c)
                     \/ part = "close" /\ Keep10 /\ SegmentEnd!CloseGoesOn(c)
                     \/ part = "decode" /\ Keep4 /\ Decode!Caller(c)
                     \/ part = "configured" /\ Keep12 /\ c = 1 /\ Fixed!CoolDownPasses(c) /\ Fixed!KeepsChoice
                     \/ part = "further" /\ Keep12 /\ c = 1 /\ Further!CoolDownPasses(c) /\ Further!KeepsChoice)
          /\ WF_vars(\/ part = "finalizers" /\ Keep15 /\ Finalizers!HandOver(c)
                     \/ part = "backpressure" /\ Keep11 /\ Backpressure!Enqueue(c, "rgb")
                     \/ part = "decode" /\ Keep4 /\ Decode!Worker(3))
          /\ WF_vars(\/ part = "finalizers" /\ Keep15 /\ Finalizers!Detach(c)
                     \/ part = "backpressure" /\ Keep11 /\ Backpressure!Enqueue(c, "depth"))
          /\ WF_vars(part = "finalizers" /\ Keep15 /\ Finalizers!Finalizer(c))
    /\ \A n \in {0, 1, 2} :
          WF_vars(\/ part = "close" /\ Keep10 /\ SegmentEnd!Recover(n)
                  \/ part = "configured" /\ Keep12 /\ n = 1 /\ Fixed!Worker(n) /\ Fixed!KeepsChoice
                  \/ part = "further" /\ Keep12 /\ n > 0 /\ Further!Worker(n) /\ Further!KeepsChoice)
    /\ \A s \in Finalizers!Segments, owner \in Finalizers!Owners :
          WF_vars(part = "finalizers" /\ Keep15 /\ Finalizers!Closer(s, owner))
    /\ WF_vars(\/ part = "finalizers" /\ Keep15 /\ Finalizers!StopThread
               \/ part = "close" /\ Keep10 /\ SegmentEnd!Restart
               \/ part = "discovery" /\ Keep11 /\ Discovery!Decide
               \/ part = "configured" /\ Keep12 /\ Fixed!MainLoop /\ Fixed!KeepsChoice
               \/ part = "further" /\ Keep12 /\ Further!MainLoop /\ Further!KeepsChoice
               \/ part = "photos" /\ Keep22 /\ Photos!Work
               \/ part = "keyframes" /\ Keep13 /\ Keyframes!Frame(v1))
    /\ WF_vars(\/ part = "close" /\ Keep10 /\ SegmentEnd!RecoveryEnds
               \/ part = "photos" /\ Keep22 /\ Photos!Poll("a", FALSE)
               \/ part = "keyframes" /\ Keep13 /\ Keyframes!ForcedIdr)
    /\ WF_vars(\/ part = "photos" /\ Keep22 /\ Photos!FrameTakes("a")
               \/ part = "keyframes" /\ Keep13 /\ Keyframes!TimePasses)
    /\ WF_vars(part = "photos" /\ Keep22 /\ Photos!TimePasses("a"))
    /\ WF_vars(part = "photos" /\ Keep22 /\ Photos!Expire("a"))
    /\ SF_vars(part = "discovery" /\ Keep11 /\ Discovery!Collect(Discovery!Up))

Spec == Init /\ [][Next]_vars /\ Fairness

-----------------------------------------------------------------------------
\* What is due, numbered in each component, and when it is done: a shutdown and the
\* detached segments of a camera (Finalizers), the packet of a camera's blocked media thread
\* (Backpressure), a ready segment (SegmentEnd), a frame to decode (Decode), a photo
\* (Photos), two key frames (Keyframes).  Cameras and frames are alike: one is enough.
Items == {0, 1, 2}
Stream(n) == IF n = 1 THEN "rgb" ELSE "depth"
Due(n) ==
    \/ part = "finalizers" /\ n = 0 /\ Finalizers!Stopping
    \/ part = "finalizers" /\ n > 0 /\ Finalizers!Detached(Finalizers!Segment(1, n))
    \/ part = "backpressure" /\ n > 0 /\ Backpressure!Blocked(1, Stream(n))
    \/ part = "close" /\ n \in SegmentEnd!Names /\ SegmentEnd!AwaitsPublication(n)
    \/ part = "decode" /\ n = 1
    \/ part = "photos" /\ n = 1 /\ Photos!Waits("a")
    \/ part = "keyframes" /\ n > 0 /\ Keyframes!Asked(n)
Done(n) ==
    \/ part = "finalizers" /\ n = 0 /\ Finalizers!Stopped
    \/ part = "finalizers" /\ n > 0 /\ Finalizers!Closed(Finalizers!Segment(1, n))
    \/ part = "backpressure" /\ n > 0 /\ ~Backpressure!Blocked(1, Stream(n))
    \/ part = "close" /\ n \in SegmentEnd!Names /\ SegmentEnd!LeftHidden(n)
    \/ part = "decode" /\ n = 1 /\ Decode!Returned(n)
    \/ part = "photos" /\ n = 1 /\ ~Photos!Waits("a")
    \/ part = "keyframes" /\ n > 0 /\ Keyframes!Answered(n)
Delayed == part = "finalizers" /\ (Finalizers!SlotWaiter \/ Finalizers!LateFailure)

\* Work that is due gets done: FinalizersFinish, EnqueueEnds, ReadyIsPublished, CallsReturn,
\* PhotosAnswered and KeyframesCome of the components.
WorkGetsDone == <>[]~Delayed => \A n \in Items : Due(n) ~> Done(n)

OnlyAt(r, h) == part = "discovery" /\ Discovery!OnlyAt(r, h)
Targeted(r, h) == part = "discovery" /\ Discovery!Targeted(r, h)
Plugged == \/ part = "configured" /\ Fixed!Plugged(1)
           \/ part = "further" /\ Further!Plugged(1)
ComeUp == \/ part = "configured" /\ Fixed!Up(1)
          \/ part = "further" /\ (Further!Up(1) \/ Further!Excused(1))
PhotosIdle == part = "photos" => Photos!Idle

\* A sender settles: FindsTheReceiver and PluggedComesUp of the components, and it stops
\* sending photos (PhotosAnswered).
SenderSettles ==
    /\ \A r \in {1, 2}, h \in {1, 2} : <>[]OnlyAt(r, h) => []<>Targeted(r, h)
    /\ <>[]Plugged => <>[]ComeUp
    /\ <>[]PhotosIdle
==============================================================================
