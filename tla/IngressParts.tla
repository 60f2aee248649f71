---------------------------- MODULE IngressParts -----------------------------
(*****************************************************************************)
(* The way of a packet into the record queues side by side: the queues       *)
(* (RecordBackpressure), the connections of a stream (MediaIngress) and      *)
(* packets in fragments (UdpReassembly), under names that no other           *)
(* component has, and what each promises.                                    *)
(*****************************************************************************)

\* The record queues of all cameras
CONSTANTS QueueCameras, RgbSizes, DepthSizes, CameraMax, TotalMax, MaxPackets, MaxSwitches
VARIABLES input, queue, bytes, prestart, worker, active, ingress, total, prestartTotal, budget
Queues == INSTANCE RecordBackpressure WITH
    Cameras <- QueueCameras
queueVars == <<input, queue, bytes, prestart, worker, active, ingress, total, prestartTotal,
               budget>>

\* The connections of one stream
CONSTANTS Fds, Buffer, MaxSessions, MaxFrames
VARIABLES wire, link, fd, thread, packet, victim, owner, rgbIngress, recorded, handled, frames
Ingress == INSTANCE MediaIngress WITH
    queue <- recorded, ingress <- rgbIngress
ingressVars == <<wire, link, fd, thread, packet, victim, owner, rgbIngress, recorded, handled,
                 frames>>

\* The fragments of one endpoint
CONSTANTS Packets, MaxAssemblies, MaxBytes, MaxDatagrams
VARIABLES assemblies, stats, delivered, datagrams
Udp == INSTANCE UdpReassembly
udpVars == <<assemblies, stats, delivered, datagrams>>

-----------------------------------------------------------------------------
\* The bytes of the record queues are those of the packets in them, within their budgets.
BytesAccounted == Queues!BytesAccounted

\* Frames come in order, and from the connection that owns the stream (handle_media).
IngressInOrder == Ingress!IngressInOrder

\* Only whole packets come out of datagrams, and each begun is accounted for.
ReassemblyAccounted == Udp!ReassemblyAccounted
==============================================================================
