--------------------------- MODULE AdaptiveExposure ---------------------------
(***************************************************************************)
(* The software exposure loop of a camera: AdaptiveExposureController and         *)
(* maybe_update_adaptive_exposure, which meters frames, writes the controls to     *)
(* the device and waits until the frames show them, when they report any.          *)
(*                                                                         *)
(* Luma is kept by class: the midtones against their target, the upper tones       *)
(* (P95) and highlights (P99) against their limits, the clipped share against       *)
(* what is allowed.  The size of a step, which the code computes in floating        *)
(* point, is any step within the configured limits.  Midtone control, as in all     *)
(* the deployed configurations.                                                *)
(***************************************************************************)
EXTENDS Integers, Sequences

CONSTANTS
    ExposureMin, ExposureMax, SoftFloor, GainMin, GainMax,
    MaxExposureStep, MaxRecoveryStep, MaxGainStep,
    MeteringWindow, UnderexposedSamples, ReversalSamples, ReleaseSamples, DiscardFrames

VARIABLES
    mode,         \* config control_mode
    controls,     \* the controller's exposure_, gain_
    device, shown, \* what the device was told, and what its frames show
    reported,     \* frames have come with both values (color_exposure, color_gain)
    metered,      \* metering_samples_: of each, did its frame show the controls?
    dark,         \* consecutive_underexposed_
    limit, recovery, \* highlight_limit_active_, highlight_recovery_samples_
    lastDir, pendDir, pendCount, \* adjustment and pending reversal directions
    discard, waiting, \* discard_frames_remaining, waiting_for_metadata
    wished, darkRun, \* what the evaluations asked for since the last adjustment
    broken,       \* a write failed, a metadata wait timed out, or metadata came late
    adjusted      \* the last adjustment: how it came about

vars == <<mode, controls, device, shown, reported, metered, dark, limit, recovery, lastDir, pendDir,
          pendCount, discard, waiting, wished, darkRun, broken, adjusted>>

Controls == [exposure: ExposureMin..ExposureMax, gain: GainMin..GainMax]
Samples == [mid: {"dark", "ok", "bright"}, upper: {"low", "near", "over"}, soft: BOOLEAN,
            clip: {"none", "some", "excess", "broad"}]
Larger(a, b) == IF a >= b THEN a ELSE b
Smaller(a, b) == IF a <= b THEN a ELSE b

Init ==
    /\ mode \in {"proportional", "pid"}
    /\ controls \in Controls /\ device = controls /\ shown = controls
    /\ reported \in BOOLEAN
    /\ metered = <<>> /\ dark = 0 /\ limit = FALSE /\ recovery = 0
    /\ lastDir = 0 /\ pendDir = 0 /\ pendCount = 0
    /\ discard = 0 /\ waiting = FALSE
    /\ wished = [dir |-> 0, count |-> 0] /\ darkRun = 0
    /\ broken = FALSE
    /\ adjusted = [settled |-> TRUE, confirmed |-> TRUE]

-----------------------------------------------------------------------------
\* evaluate

Severe(s) == s.clip \in {"excess", "broad"}

\* The highlight limit: set by clipping, released after samples without it.
Recovered(s) == s.clip = "none" /\ (s.upper = "low" \/ s.mid = "dark")
LimitAfter(s) == Severe(s) \/ (limit /\ ~(Recovered(s) /\ recovery + 1 >= ReleaseSamples))
RecoveryAfter(s) == IF limit /\ LimitAfter(s) /\ Recovered(s) THEN recovery + 1 ELSE 0

Hold == [controls |-> controls, urgent |-> FALSE]
Exposures(targets, urgent) == {[controls |-> [controls EXCEPT !.exposure = e], urgent |-> urgent] : e \in targets}
Gains(targets, urgent) == {[controls |-> [controls EXCEPT !.gain = g], urgent |-> urgent] : g \in targets}
Lowered(steps, floor) == {Larger(floor, controls.exposure - k) : k \in steps}
Raised(steps, ceiling) == {Smaller(ceiling, controls.exposure + k) : k \in steps}

DarkAfter(over, s, held) ==
    IF over \/ s.mid # "dark" \/ held THEN 0 ELSE Smaller(dark + 1, UnderexposedSamples)

\* evaluate_proportional: the decisions it may come to, with the dark count
Proportional(s) ==
    LET soft == s.soft /\ s.upper # "low"
        over == Severe(s) \/ s.upper = "over" \/ soft \/ s.mid = "bright"
        floor == IF ~Severe(s) /\ s.mid # "bright" THEN SoftFloor ELSE ExposureMin
        brighter ==
            IF dark + 1 < UnderexposedSamples THEN {Hold}
            ELSE IF controls.exposure < ExposureMax
            THEN {Hold} \cup Exposures(Raised(1..MaxExposureStep, ExposureMax), FALSE)
            ELSE IF controls.gain < GainMax /\ s.upper = "low"
            THEN Gains({Smaller(GainMax, controls.gain + MaxGainStep)}, FALSE) ELSE {Hold}
    IN IF over
       THEN {[decision |-> d, dark |-> 0] : d \in
               IF controls.gain > GainMin
               THEN Gains({IF Severe(s) THEN GainMin ELSE Larger(GainMin, controls.gain - MaxGainStep)}, Severe(s))
               ELSE IF controls.exposure > floor
               THEN Exposures(Lowered(1..MaxExposureStep, floor), Severe(s))
               ELSE {Hold}}
       ELSE IF s.mid # "dark" THEN {[decision |-> Hold, dark |-> 0]}
       ELSE (IF LimitAfter(s) \/ s.upper # "low" THEN {[decision |-> Hold, dark |-> 0]} ELSE {})
            \cup (IF LimitAfter(s) THEN {}
                  ELSE {[decision |-> d, dark |-> DarkAfter(over, s, FALSE)] : d \in brighter})

\* evaluate_pid: integral and derivative may move the exposure either way
Pid(s) ==
    LET protect == Severe(s) /\ (s.mid # "dark" \/ (s.clip = "broad" /\ s.upper = "over"))
        over == protect \/ s.mid = "bright"
        \* with the share clipped the step grows, up to eight times
        steps == IF protect THEN 8 * MaxGainStep ELSE MaxGainStep
        moves(ceiling) == {e \in ExposureMin..ceiling :
                              controls.exposure - MaxExposureStep <= e /\ e <= controls.exposure + MaxExposureStep}
        ceiling == IF LimitAfter(s) THEN Smaller(ExposureMax, controls.exposure + MaxRecoveryStep) ELSE ExposureMax
        brighter ==
            IF dark + 1 < UnderexposedSamples THEN {Hold}
            ELSE IF controls.exposure < ceiling THEN Exposures(moves(ceiling), FALSE)
            ELSE IF controls.gain < GainMax
            THEN Gains({Smaller(GainMax, controls.gain + k) : k \in 1..MaxGainStep}, FALSE) ELSE {Hold}
    IN {[decision |-> d, dark |-> DarkAfter(over, s, FALSE)] : d \in
          IF over
          THEN IF controls.gain > GainMin
               THEN Gains({Larger(GainMin, controls.gain - k) : k \in 1..steps}, protect)
               ELSE IF controls.exposure > ExposureMin THEN Exposures(moves(ExposureMax), protect)
               ELSE {Hold}
          ELSE IF s.mid = "dark" THEN brighter ELSE {Hold}}

Decisions(s) == IF mode = "pid" THEN Pid(s) ELSE Proportional(s)

-----------------------------------------------------------------------------
\* filter_direction_reversal

Direction(c) ==
    IF c.exposure # controls.exposure THEN (IF c.exposure > controls.exposure THEN 1 ELSE -1)
    ELSE IF c.gain # controls.gain THEN (IF c.gain > controls.gain THEN 1 ELSE -1) ELSE 0

AtOnce(d) ==
    \/ d.urgent /\ Direction(d.controls) < 0
    \/ lastDir = 0 \/ Direction(d.controls) = lastDir \/ ReversalSamples <= 1

\* (Mutant of Pending: a sample that asks for nothing does not start it anew.)
PendingKept(d) ==
    IF Direction(d.controls) = 0 THEN [dir |-> pendDir, count |-> pendCount]
    ELSE IF AtOnce(d) THEN [dir |-> 0, count |-> 0]
    ELSE [dir |-> Direction(d.controls),
          count |-> IF Direction(d.controls) = pendDir THEN pendCount + 1 ELSE 1]
Pending(d) ==
    IF Direction(d.controls) = 0 \/ AtOnce(d) THEN [dir |-> 0, count |-> 0]
    ELSE [dir |-> Direction(d.controls),
          count |-> IF Direction(d.controls) = pendDir THEN pendCount + 1 ELSE 1]

Passes(d) ==
    Direction(d.controls) # 0 /\ (AtOnce(d) \/ Pending(d).count >= ReversalSamples)

-----------------------------------------------------------------------------
\* maybe_update_adaptive_exposure

\* AdaptiveExposureController::commit, and what follows an applied decision
Commit(d, settled, wish, darks) ==
    /\ controls' = d.controls /\ device' = d.controls
    /\ lastDir' = Direction(d.controls) /\ dark' = 0
    /\ metered' = <<>> /\ discard' = DiscardFrames
    /\ wished' = [dir |-> 0, count |-> 0] /\ darkRun' = 0
    /\ adjusted' = [settled |-> settled \/ broken,
                    confirmed |->
                       /\ \/ Direction(d.controls) = lastDir \/ lastDir = 0
                          \/ d.urgent \/ wish.count >= ReversalSamples
                       /\ mode = "proportional" /\ Direction(d.controls) = 1 => darks >= UnderexposedSamples]
    /\ UNCHANGED broken

\* apply_adaptive_exposure_decision throws, or a control reads back wrong.
ApplyFails ==
    /\ device' \in Controls
    /\ broken' = TRUE
    /\ UNCHANGED <<controls, lastDir, discard, adjusted>>

\* What a sample leaves behind, with a decision that it may lead to.
DarksAfter(s) == IF s.mid = "dark" THEN Smaller(darkRun + 1, UnderexposedSamples) ELSE 0
Outcomes ==
    UNION {{[decision |-> r.decision, dark |-> r.dark, limit |-> LimitAfter(s),
             recovery |-> RecoveryAfter(s), darks |-> DarksAfter(s)] : r \in Decisions(s)} : s \in Samples}

Evaluate ==
    LET window == Append(metered, reported => shown = controls)
        kept == IF Len(window) > MeteringWindow THEN Tail(window) ELSE window
    IN IF Len(kept) < MeteringWindow
       THEN /\ metered' = kept
            /\ UNCHANGED <<controls, device, dark, limit, recovery, lastDir, pendDir, pendCount,
                           discard, wished, darkRun, broken, adjusted>>
       ELSE \E o \in Outcomes :
            LET d == o.decision
                dir == Direction(d.controls)
                wish == [dir |-> dir, count |-> IF dir = 0 THEN 0
                            ELSE IF dir = wished.dir THEN Smaller(wished.count + 1, ReversalSamples) ELSE 1]
                pend == IF Passes(d) THEN [dir |-> 0, count |-> 0] ELSE Pending(d)
            IN /\ limit' = o.limit /\ recovery' = o.recovery
               /\ pendDir' = pend.dir /\ pendCount' = pend.count
               /\ \/ /\ Passes(d) /\ Commit(d, \A i \in 1..Len(kept) : kept[i], wish, o.darks)
                  \/ /\ \/ Passes(d) /\ ApplyFails
                        \/ ~Passes(d) /\ UNCHANGED <<controls, device, lastDir, discard, adjusted, broken>>
                     /\ metered' = kept /\ dark' = o.dark
                     /\ wished' = wish /\ darkRun' = o.darks

\* Without metadata nothing is awaited: the wait is over with the next frame.
Awaiting == waiting /\ reported /\ shown # controls

\* meter_mjpg_luma has no sample to offer.
MeteringFails ==
    /\ waiting' = FALSE
    /\ UNCHANGED <<controls, device, metered, dark, limit, recovery, lastDir, pendDir, pendCount,
                   discard, wished, darkRun, broken, adjusted>>

\* A color frame that is due to be metered: dropped, waited for, or evaluated.
Frame ==
    /\ IF discard > 0
       THEN /\ discard' = discard - 1
            /\ UNCHANGED <<controls, device, metered, dark, limit, recovery, lastDir, pendDir,
                           pendCount, waiting, wished, darkRun, broken, adjusted>>
       ELSE /\ ~Awaiting
            /\ \/ Evaluate /\ waiting' = (controls' # controls)
               \/ MeteringFails
    /\ UNCHANGED <<mode, shown, reported>>

\* The metadata deadline passes.
MetadataTimeout ==
    /\ Awaiting /\ discard = 0
    /\ waiting' = FALSE /\ broken' = TRUE
    /\ UNCHANGED <<mode, controls, device, shown, reported, metered, dark, limit, recovery, lastDir,
                   pendDir, pendCount, discard, wished, darkRun, adjusted>>

\* The frames begin to show what the device was told.
FramesFollow ==
    /\ shown # device /\ shown' = device
    /\ UNCHANGED <<mode, controls, device, reported, metered, dark, limit, recovery, lastDir, pendDir,
                   pendCount, discard, waiting, wished, darkRun, broken, adjusted>>

\* update_color_metadata: a frame comes with both values for the first time, and
\* the values stay. When that is behind a wait that ended without them, the frames
\* may still show the controls before.
MetadataAppears ==
    /\ ~reported /\ reported' = TRUE
    /\ broken' = (broken \/ (~waiting /\ shown # controls))
    /\ UNCHANGED <<mode, controls, device, shown, metered, dark, limit, recovery, lastDir, pendDir,
                   pendCount, discard, waiting, wished, darkRun, adjusted>>

Next == Frame \/ MetadataTimeout \/ FramesFollow \/ MetadataAppears

Spec == Init /\ [][Next]_vars

-----------------------------------------------------------------------------
\* The loop does not chase its own tail: with a device that reports its controls an
\* adjustment is decided on frames that all show the one before (unless a write
\* failed, the wait timed out, or the reports began in the middle of it); and with
\* any, it reverses the direction, or (proportional control) brightens a dark picture,
\* only after as many samples in a row asked for it as are configured; clipping alone
\* is acted upon at once.
AdjustsOnEvidence == adjusted.settled /\ adjusted.confirmed
=============================================================================
