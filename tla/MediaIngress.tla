---------------------------- MODULE MediaIngress ----------------------------
(***************************************************************************)
(* How the RGB packets of one route get from the receiver's media connections *)
(* into its record queue (receiver_app: tcp_loop, media_client_loop,          *)
(* claim_media_ingress, handle_media_packet, enqueue_record_job) while the      *)
(* sender reconnects.  Every connection has a session and a thread; the threads *)
(* of an old and of a new connection may both have a packet in hand.  A session  *)
(* takes the route over with its first packet and shuts the socket of the one    *)
(* before it down, by a file descriptor that may have been used again since.     *)
(*                                                                         *)
(* The sender numbers its frames; on one connection none is missing (see           *)
(* SenderMediaPath), on a new one those buffered for the old one may be.          *)
(***************************************************************************)
EXTENDS Naturals, Sequences

CONSTANTS
    Fds,         \* file descriptors: numbers
    Buffer,      \* bound: packets in flight on a connection
    MaxSessions, MaxFrames \* bounds

VARIABLES
    wire,        \* the packets in flight, per session
    link,        \* "none", "open", "left" by the sender, "shut" by the receiver
    fd, thread, packet, victim, \* of a session's thread: its place, the packet in hand, superseded_fd
    owner,       \* media_ingress_owners_[route]: [session, fd]; session 0 is none
    ingress,     \* rgb_ingress_session_id, rgb_ingress_waiting_for_idr
    queue,       \* what entered the record queue
    handled,     \* keyframes whose handling is over
    frames       \* frames sent

vars == <<wire, link, fd, thread, packet, victim, owner, ingress, queue, handled, frames>>

Sessions == 1..MaxSessions
NoFd == 0
Nothing == [frame |-> 0, idr |-> FALSE]

Init ==
    /\ wire = [s \in Sessions |-> <<>>] /\ link = [s \in Sessions |-> "none"]
    /\ fd = [s \in Sessions |-> NoFd] /\ thread = [s \in Sessions |-> "none"]
    /\ packet = [s \in Sessions |-> Nothing] /\ victim = [s \in Sessions |-> NoFd]
    /\ owner = [session |-> 0, fd |-> NoFd] /\ ingress = [session |-> 0, waiting |-> FALSE]
    /\ queue = <<>> /\ handled = {} /\ frames = 0

Newest(s) == link[s] # "none" /\ \A t \in Sessions : t > s => link[t] = "none"
Route == <<owner, ingress, queue, handled>>
Thread == <<fd, thread, packet, victim>>

-----------------------------------------------------------------------------
\* The sender

Send(s, idr) ==
    /\ Newest(s) /\ link[s] = "open" /\ Len(wire[s]) < Buffer
    /\ frames < MaxFrames /\ frames' = frames + 1
    /\ wire' = [wire EXCEPT ![s] = Append(@, [frame |-> frames + 1, idr |-> idr])]
    /\ UNCHANGED <<link, Thread, Route>>

\* The sender gives its connection up, or finds it closed; frames may be left out.
Leave(s) ==
    /\ link[s] \in {"open", "shut"} /\ link' = [link EXCEPT ![s] = "left"]
    /\ frames' \in {frames, frames + 1} /\ frames' <= MaxFrames
    /\ UNCHANGED <<wire, Thread, Route>>

InUse == {fd[s] : s \in {t \in Sessions : thread[t] \notin {"none", "done"}}}
FreeFds == Fds \ InUse

\* The next connection, and tcp_loop: the lowest descriptor that is free, a session, a thread.
Connect(s) ==
    /\ link[s] = "none" /\ \A t \in Sessions : t < s => link[t] = "left"
    /\ FreeFds # {}
    /\ link' = [link EXCEPT ![s] = "open"]
    /\ fd' = [fd EXCEPT ![s] = CHOOSE f \in FreeFds : \A g \in FreeFds : f <= g]
    /\ thread' = [thread EXCEPT ![s] = "reading"]
    /\ UNCHANGED <<wire, packet, victim, frames, Route>>

-----------------------------------------------------------------------------
\* media_client_loop and claim_media_ingress: a packet is read and claims the route;
\* one of an older session is dropped.
\* (Mutant of Stale: a session is not compared with the owner's.)
StaleNever(s) == FALSE
Stale(s) == s < owner.session

ReadAndClaim(s) ==
    /\ thread[s] = "reading" /\ wire[s] # <<>>
    /\ wire' = [wire EXCEPT ![s] = Tail(@)]
    /\ IF Stale(s) THEN UNCHANGED <<thread, packet, victim, owner>>
       ELSE LET shuts == owner.session \notin {0, s} /\ owner.fd \notin {NoFd, fd[s]}
            IN /\ packet' = [packet EXCEPT ![s] = Head(wire[s])]
               /\ owner' = [session |-> s, fd |-> fd[s]]
               /\ victim' = [victim EXCEPT ![s] = IF shuts THEN owner.fd ELSE NoFd]
               /\ thread' = [thread EXCEPT ![s] = IF shuts THEN "shutting" ELSE "handling"]
    /\ UNCHANGED <<link, fd, ingress, queue, handled, frames>>

\* Whoever has the descriptor now is shut down.
ShutVictim(s) ==
    /\ thread[s] = "shutting" /\ thread' = [thread EXCEPT ![s] = "handling"]
    /\ link' = [t \in Sessions |-> IF victim[s] \in InUse /\ fd[t] = victim[s] /\ thread[t] # "done" /\ link[t] = "open"
                                   THEN "shut" ELSE link[t]]
    /\ victim' = [victim EXCEPT ![s] = NoFd]
    /\ UNCHANGED <<wire, fd, packet, frames, Route>>

\* handle_media_packet under mutex_: a session that is new to the camera waits for an IDR.
WaitsForIdr(s) == IF ingress.session = s THEN ingress.waiting ELSE ~packet[s].idr

Handle(s) ==
    /\ thread[s] = "handling"
    /\ LET drop == WaitsForIdr(s) /\ ~packet[s].idr
       IN /\ ingress' = [session |-> s, waiting |-> drop]
          /\ thread' = [thread EXCEPT ![s] = IF drop THEN "reading" ELSE "enqueuing"]
    /\ UNCHANGED <<wire, link, fd, packet, victim, owner, queue, handled, frames>>

\* enqueue_record_job: under the route's lock, if the session still owns it.
Current(s) == owner.session = s

Enqueue(s) ==
    /\ thread[s] = "enqueuing" /\ thread' = [thread EXCEPT ![s] = "reading"]
    /\ queue' = IF Current(s) THEN Append(queue, packet[s]) ELSE queue
    /\ handled' = IF packet[s].idr THEN handled \cup {<<s, packet[s].frame>>} ELSE handled
    /\ UNCHANGED <<wire, link, fd, packet, victim, owner, ingress, frames>>

\* The connection ends: mark_media_ingress_session_closed; then the thread closes it.
ReadFails(s) ==
    /\ thread[s] = "reading" /\ (link[s] = "shut" \/ (link[s] = "left" /\ wire[s] = <<>>))
    /\ owner' = IF owner.session = s THEN [owner EXCEPT !.fd = NoFd] ELSE owner
    /\ thread' = [thread EXCEPT ![s] = "closing"]
    /\ UNCHANGED <<wire, link, fd, packet, victim, ingress, queue, handled, frames>>

Close(s) ==
    /\ thread[s] = "closing" /\ thread' = [thread EXCEPT ![s] = "done"]
    /\ link' = [link EXCEPT ![s] = IF @ = "open" THEN "shut" ELSE @] /\ wire' = [wire EXCEPT ![s] = <<>>]
    /\ packet' = [packet EXCEPT ![s] = Nothing]
    /\ UNCHANGED <<fd, victim, frames, Route>>

Next == \E s \in Sessions :
    \/ (\E idr \in BOOLEAN : Send(s, idr)) \/ Leave(s) \/ Connect(s)
    \/ ReadAndClaim(s) \/ ShutVictim(s) \/ Handle(s) \/ Enqueue(s) \/ ReadFails(s) \/ Close(s)

Spec == Init /\ [][Next]_vars

-----------------------------------------------------------------------------
\* No frame of an old connection gets behind one of a newer connection, and every
\* frame recorded is a keyframe or follows the frame before it, however the threads
\* of two connections overtake each other; nor is a keyframe of the connection that
\* owns the route lost on the way.
IngressInOrder ==
    /\ \A i \in 2..Len(queue) :
        IF queue[i].idr THEN queue[i].frame > queue[i - 1].frame ELSE queue[i].frame = queue[i - 1].frame + 1
    /\ Len(queue) > 0 => queue[1].idr
    /\ \A k \in handled : k[1] = owner.session => \E i \in 1..Len(queue) : queue[i].frame = k[2]
=============================================================================
