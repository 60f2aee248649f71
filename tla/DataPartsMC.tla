----------------------------- MODULE DataPartsMC ------------------------------
(***************************************************************************)
(* The components outside the sender's media path, the recording sessions   *)
(* and the uploader, checked together: each behaviour is that of one        *)
(* component, chosen in the initial state, while the others rest in an      *)
(* initial state of theirs. Here every state and every step must be right;  *)
(* what must get done is in WorkPartsMC.                                    *)
(***************************************************************************)
EXTENDS ClockParts, IngressParts, DepthParts, SegmentParts, SenderParts, Naturals, Integers

\* Constants that a configuration file cannot write.
RgbPayloads == {<<"sps", "pps", "idr", "idr">>, <<"p">>, <<"sps", "pps">>, <<"idr">>,
                <<"sps", "pps", "sps", "pps", "idr">>}
BaseOffsets == <<0, 9>>
SkewSettings == <<0, 3>>
KeyframeOffsets == {-1, 2}
UdpPackets == {[key |-> 1, size |-> 2, chunks |-> 2], [key |-> 1, size |-> 3, chunks |-> 3],
               [key |-> 2, size |-> 2, chunks |-> 2], [key |-> 3, size |-> 4, chunks |-> 2]}
FrameShapes == {[w |-> 1, h |-> 1], [w |-> 2, h |-> 1], [w |-> 1, h |-> 3]}
DepthCodecs == {"none", "zlib", "lz4", "plz4", "pzlib", "qdelta", "rvl",
                "q8lz4", "q8zlib", "pq8zlib", "pq8lz4", "pq12zlib"}

VARIABLE part  \* the component of this behaviour; never changes

-----------------------------------------------------------------------------
\* Where there are several, the initial state in which a component rests.
Rests(p, choice) == IF part = p THEN TRUE ELSE choice

Init ==
    /\ part \in {"clock map", "clock client", "queues", "ingress", "udp", "depth pool", "decode",
                 "depth codec", "finalizers", "close", "timeline", "media", "exposure",
                 "discovery", "photos", "keyframes", "cameras"}
    /\ Decode!Init /\ Rests("decode", \A c \in Callers : call[c].bad = {})
    /\ Rests("depth codec", /\ shape = [w |-> 1, h |-> 1] /\ frame = <<0>>
                            /\ codec = "none" /\ scale = 0 /\ quant = 3)
    /\ Rests("close", endMode = "direct") /\ Rests("timeline", expectsRgb = TRUE)
    /\ Rests("media", mediaRecovery = TRUE)
    /\ Rests("exposure", /\ mode = "pid" /\ reported = TRUE
                         /\ controls = [exposure |-> ExposureMin, gain |-> GainMin])
    /\ Rests("discovery", at = [r \in Hubs |-> Discovery!None])
    /\ Rests("keyframes", offset = Keyframe!NoClock)
    /\ Rests("cameras", present = {} /\ flapEvents = 1)
    /\ Clock!Init /\ Measure!Init /\ Queues!Init /\ Ingress!Init /\ Udp!Init /\ Pool!Init
    /\ Codec!Init /\ Finalizers!Init /\ End!Init /\ Timeline!Init /\ Media!Init
    /\ Exposure!Init /\ Discovery!Init /\ Photo!Init /\ Keyframe!Init /\ Runtime!Init

Next ==
    /\ UNCHANGED part
    /\ IF part = "clock map" THEN Clock!Next ELSE UNCHANGED clockVars
    /\ IF part = "clock client" THEN Measure!Next ELSE UNCHANGED measureVars
    /\ IF part = "queues" THEN Queues!Next ELSE UNCHANGED queueVars
    /\ IF part = "ingress" THEN Ingress!Next ELSE UNCHANGED ingressVars
    /\ IF part = "udp" THEN Udp!Next ELSE UNCHANGED udpVars
    /\ IF part = "depth pool" THEN Pool!Next ELSE UNCHANGED poolVars
    /\ IF part = "decode" THEN Decode!Next ELSE UNCHANGED decodeVars
    /\ IF part = "depth codec" THEN Codec!Next ELSE UNCHANGED codecVars
    /\ IF part = "finalizers" THEN Finalizers!Next ELSE UNCHANGED finalizerVars
    /\ IF part = "close" THEN End!Next ELSE UNCHANGED endVars
    /\ IF part = "timeline" THEN Timeline!Next ELSE UNCHANGED timelineVars
    /\ IF part = "media" THEN Media!Next ELSE UNCHANGED mediaVars
    /\ IF part = "exposure" THEN Exposure!Next ELSE UNCHANGED exposureVars
    /\ IF part = "discovery" THEN Discovery!Next ELSE UNCHANGED discoveryVars
    /\ IF part = "photos" THEN Photo!Next ELSE UNCHANGED photoVars
    /\ IF part = "keyframes" THEN Keyframe!Next ELSE UNCHANGED keyframeVars
    /\ IF part = "cameras" THEN Runtime!Next ELSE UNCHANGED runtimeVars

vars == <<part, clockVars, measureVars, queueVars, ingressVars, udpVars, poolVars, decodeVars,
          codecVars, finalizerVars, endVars, timelineVars, mediaVars, exposureVars,
          discoveryVars, photoVars, keyframeVars, runtimeVars>>

Spec == Init /\ [][Next]_vars
==============================================================================
