--------------------------- MODULE ScheduledKeyframe ---------------------------
(***************************************************************************)
(* Key frames on demand at one camera of a sender: the receiver asks for one at a   *)
(* global time (all cameras of a recording at the same), for one at once, or for     *)
(* one at once that only a preview wants; recovery and warm-up ask too.  Requests     *)
(* that meet are merged.  The encoder is told with the first frame that is due, and    *)
(* told again until an IDR comes out.  (request_, consume_ and report_ of              *)
(* camera_support, scheduled_keyframe.hpp and handle_receiver_control_message.)        *)
(***************************************************************************)
EXTENDS Naturals, Integers

CONSTANTS
    Targets,       \* global times that may be asked for
    Offsets,       \* receiver - sender clock
    MaxU,          \* the largest time
    Lateness,      \* fallback_lateness_us
    RetryAfter,    \* kForceKeyframeRetryIntervalUs
    MaxTime, MaxRequests, MaxLost \* bounds

VARIABLES
    now,
    offset,        \* of the clock client; -99 when it has none
    requests, applied, observed, \* force_rgb_keyframe_*
    target, lastEvent,           \* force_rgb_keyframe_target_sender_system_us, _last_event_us
    armed,         \* the encoder has an event to answer
    asked,         \* the targets asked for since every earlier request was observed: [at, low]
    event,         \* the last event: [ts, at]: the frame's time and the time
    eventFor,      \* asked, at that event
    lost

vars == <<now, offset, requests, applied, observed, target, lastEvent, armed, asked, event, eventFor, lost>>

NoClock == -99

Init ==
    /\ now = 1 /\ offset \in Offsets \cup {NoClock} /\ requests = 0 /\ applied = 0 /\ observed = 0 /\ target = 0
    /\ lastEvent = 0 /\ armed = FALSE /\ asked = {} /\ event = [ts |-> 0, at |-> 0] /\ eventFor = {} /\ lost = 0

\* sender_system_time_from_global, and no conversion while there is no clock.
SenderTime(global) ==
    IF global = 0 \/ offset = NoClock THEN global
    ELSE IF offset >= 0 THEN (IF global > offset THEN global - offset ELSE 1)
    ELSE IF global <= MaxU + offset THEN global - offset ELSE MaxU

\* merge_keyframe_target
Earlier(a, b) == IF a < b THEN a ELSE b
\* (Mutant of Merged: a preview's request pulls a scheduled key frame forward.)
MergedAtOnce(asking, low) == IF target = 0 \/ asking = 0 THEN 0 ELSE Earlier(target, asking)
Merged(asking, low) ==
    IF target = 0 THEN 0
    ELSE IF asking = 0 THEN (IF low THEN target ELSE 0)
    ELSE Earlier(target, asking)

\* request_rgb_keyframe; low: its reason begins with web_rgb_.
IsPending == observed < requests
Request(asking, low) ==
    /\ requests < MaxRequests /\ requests' = requests + 1
    /\ target' = IF IsPending THEN Merged(asking, low) ELSE asking
    /\ lastEvent' = IF IsPending THEN lastEvent ELSE 0
    /\ asked' = (IF IsPending THEN asked ELSE {}) \cup {[at |-> asking, low |-> low /\ IsPending /\ target # 0]}
    /\ UNCHANGED <<now, offset, applied, observed, armed, event, eventFor, lost>>

\* handle_receiver_control_message, force_rgb_keyframe
Control == \E global \in Targets \cup {0}, low \in BOOLEAN : Request(SenderTime(global), low /\ global = 0)

\* scheduled_keyframe_due
Due(at, ts, time) == at = 0 \/ ts >= at \/ (time >= at /\ time - at >= Lateness)
\* (Mutant of MayRetry: an event is not repeated.)
MayRetryNever == lastEvent = 0
MayRetry == lastEvent = 0 \/ now - lastEvent >= RetryAfter

\* consume_rgb_keyframe_request with a frame captured at ts; the encoder may lose the event.
Frame(ts) ==
    /\ IsPending /\ Due(target, ts, now) /\ MayRetry
    /\ applied' = requests /\ lastEvent' = now /\ event' = [ts |-> ts, at |-> now] /\ eventFor' = asked
    /\ \/ armed' = TRUE /\ UNCHANGED lost
       \/ lost < MaxLost /\ lost' = lost + 1 /\ UNCHANGED armed
    /\ UNCHANGED <<now, offset, requests, observed, target, asked>>

\* An IDR comes out of the encoder, for the event or of itself: report_forced_rgb_keyframe.
Idr ==
    /\ armed' = FALSE /\ applied # 0 /\ observed < applied /\ lastEvent # 0 /\ observed' = applied
    /\ LET all == applied >= requests
       IN /\ target' = IF all THEN 0 ELSE target
          /\ lastEvent' = IF all THEN 0 ELSE lastEvent
    /\ UNCHANGED <<now, offset, requests, applied, asked, event, eventFor, lost>>
OwnIdr == ~armed /\ Idr
ForcedIdr == armed /\ Idr

\* A forced IDR that nobody waits for any more.
LateIdr == /\ armed /\ (observed >= applied \/ lastEvent = 0) /\ armed' = FALSE
           /\ UNCHANGED <<now, offset, requests, applied, observed, target, lastEvent, asked, event, eventFor, lost>>

\* The clock goes to MaxTime, and on from there by moving the last event back.
TimePasses ==
    /\ IF now < MaxTime THEN now' = now + 1 /\ UNCHANGED lastEvent
       ELSE lastEvent > 1 /\ lastEvent' = lastEvent - 1 /\ UNCHANGED now
    /\ UNCHANGED <<offset, requests, applied, observed, target, armed, asked, event, eventFor, lost>>

\* The clock client gets another offset.
ClockChanges == /\ offset' \in Offsets \ {offset}
                /\ UNCHANGED <<now, requests, applied, observed, target, lastEvent, armed, asked, event, eventFor, lost>>

Frames == \E ts \in {now - 1, now} : Frame(ts)
Next == Control \/ Frames \/ OwnIdr \/ ForcedIdr \/ LateIdr \/ TimePasses \/ ClockChanges

\* The camera gives frames, the encoder answers an event it has, and time passes.
Fairness == WF_vars(Frame(now)) /\ WF_vars(ForcedIdr) /\ WF_vars(TimePasses)
Spec == Init /\ [][Next]_vars /\ Fairness

-----------------------------------------------------------------------------
\* The encoder is told with a frame only when somebody asked for a key frame at that
\* frame's time or before, or that time is long over; a preview's wish to have one at
\* once does not count beside a scheduled one.
KeyframesOnTime ==
    eventFor # {} => \E a \in eventFor : ~a.low /\ Due(a.at, event.ts, event.at)

Asked(n) == requests >= n
Answered(n) == observed >= n

\* Every request is answered by a key frame, also when the encoder loses events.
KeyframesCome == \A n \in 1..MaxRequests : Asked(n) ~> Answered(n)
=============================================================================
