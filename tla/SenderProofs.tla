---------------------------- MODULE SenderProofs ----------------------------
(***************************************************************************)
(* Proofs about the sender outside its media path, for any values of the constants:  *)
(* its exposure control (AdaptiveExposure), the receiver it follows                   *)
(* (ReceiverDiscovery), the photos and the keyframes it is asked for (PhotoCapture,    *)
(* ScheduledKeyframe) and its cameras (CameraRuntime).                              *)
(***************************************************************************)
EXTENDS SenderParts, Integers, Sequences, FiniteSets, FiniteSetTheorems,
        SequenceTheorems, WellFoundedInduction, TLAPS

ExposureConstants ==
    /\ ExposureMin \in Int /\ ExposureMax \in Int /\ SoftFloor \in Int
    /\ GainMin \in Int /\ GainMax \in Int
    /\ MaxExposureStep \in Nat /\ MaxRecoveryStep \in Nat /\ MaxGainStep \in Nat
    /\ MeteringWindow \in Nat /\ UnderexposedSamples \in Nat /\ ReversalSamples \in Nat

ControlTypes == [exposure : Int, gain : Int]

ExposureTyped ==
    /\ controls \in ControlTypes
    /\ metered \in Seq(BOOLEAN)
    /\ dark \in Nat /\ darkRun \in Nat /\ pendCount \in Nat
    /\ lastDir \in {-1, 0, 1} /\ pendDir \in {-1, 0, 1}
    /\ wished \in [dir : {-1, 0, 1}, count : Nat]

\* As long as nothing failed, reports that do not show the controls are waited for, and
\* those metered show them.
ShownOrAwaited ==
    \/ broken
    \/ /\ device = controls /\ (reported /\ shown # controls => waiting)
       /\ \A i \in 1..Len(metered) : metered[i] = TRUE

\* What is counted was asked for by as many samples in a row.
CountsBacked ==
    /\ dark <= darkRun
    /\ pendDir # 0 => /\ pendDir = wished.dir
                      /\ Exposure!Smaller(pendCount, ReversalSamples) <= wished.count

ExposureInv == ExposureTyped /\ ShownOrAwaited /\ CountsBacked /\ Exposure!AdjustsOnEvidence

-----------------------------------------------------------------------------
\* The decisions

\* Controls a decision may come to, and whether it is urgent.
DecisionTypes == [controls : ControlTypes, urgent : BOOLEAN]

LEMMA HoldIs ==
    ASSUME ExposureTyped
    PROVE  Exposure!Hold \in DecisionTypes /\ Exposure!Direction(Exposure!Hold.controls) = 0
PROOF
<1>1. Exposure!Hold.controls = controls /\ Exposure!Hold.urgent = FALSE
  BY DEF Exposure!Hold
<1>2. Exposure!Hold \in DecisionTypes
  BY DEF Exposure!Hold, DecisionTypes, ExposureTyped
<1> QED BY <1>1, <1>2 DEF Exposure!Direction

LEMMA ExposuresAre ==
    ASSUME ExposureTyped, NEW T \in SUBSET Int, NEW u \in BOOLEAN, NEW d \in Exposure!Exposures(T, u)
    PROVE  /\ d \in DecisionTypes /\ d.urgent = u
           /\ (\A e \in T : e <= controls.exposure) => Exposure!Direction(d.controls) # 1
PROOF
<1>1. PICK e \in T : d = [controls |-> [controls EXCEPT !.exposure = e], urgent |-> u]
  BY DEF Exposure!Exposures
<1> DEFINE c == [controls EXCEPT !.exposure = e]
<1>2. c \in ControlTypes /\ c.exposure = e /\ c.gain = controls.gain
  BY DEF ExposureTyped, ControlTypes
<1>3. d.controls = c /\ d.urgent = u
  BY <1>1
<1> HIDE DEF c
<1>4. d \in DecisionTypes
  <2>1. d = [controls |-> c, urgent |-> u]
    BY <1>1 DEF c
  <2> QED BY <2>1, <1>2 DEF DecisionTypes
<1>5. ASSUME e <= controls.exposure PROVE Exposure!Direction(c) # 1
  BY <1>2, <1>5 DEF Exposure!Direction, ExposureTyped, ControlTypes
<1> QED BY <1>3, <1>4, <1>5

LEMMA GainsAre ==
    ASSUME ExposureTyped, NEW T \in SUBSET Int, NEW u \in BOOLEAN, NEW d \in Exposure!Gains(T, u)
    PROVE  /\ d \in DecisionTypes /\ d.urgent = u
           /\ (\A g \in T : g <= controls.gain) => Exposure!Direction(d.controls) # 1
PROOF
<1>1. PICK g \in T : d = [controls |-> [controls EXCEPT !.gain = g], urgent |-> u]
  BY DEF Exposure!Gains
<1> DEFINE c == [controls EXCEPT !.gain = g]
<1>2. c \in ControlTypes /\ c.gain = g /\ c.exposure = controls.exposure
  BY DEF ExposureTyped, ControlTypes
<1>3. d.controls = c /\ d.urgent = u
  BY <1>1
<1> HIDE DEF c
<1>4. d \in DecisionTypes
  <2>1. d = [controls |-> c, urgent |-> u]
    BY <1>1 DEF c
  <2> QED BY <2>1, <1>2 DEF DecisionTypes
<1>5. ASSUME g <= controls.gain PROVE Exposure!Direction(c) # 1
  BY <1>2, <1>5 DEF Exposure!Direction, ExposureTyped, ControlTypes
<1> QED BY <1>3, <1>4, <1>5

LEMMA Types ==
    ASSUME ExposureTyped
    PROVE  controls.exposure \in Int /\ controls.gain \in Int /\ dark \in Nat /\ darkRun \in Nat
PROOF
BY DEF ExposureTyped, ControlTypes

\* What a decision on a sample has to be.
Sound(s, r) ==
    /\ r.decision \in DecisionTypes
    /\ r.dark \in Nat /\ r.dark <= Exposure!DarksAfter(s)
    /\ mode = "proportional" /\ Exposure!Direction(r.decision.controls) = 1
           => Exposure!DarksAfter(s) >= UnderexposedSamples

LEMMA DarkIs ==
    ASSUME ExposureConstants, ExposureTyped, CountsBacked, NEW s \in Exposure!Samples, NEW over \in BOOLEAN
    PROVE  /\ Exposure!DarkAfter(over, s, FALSE) \in Nat
           /\ Exposure!DarkAfter(over, s, FALSE) <= Exposure!DarksAfter(s)
           /\ Exposure!DarksAfter(s) \in Nat
           /\ s.mid = "dark" /\ ~(dark + 1 < UnderexposedSamples)
                  => Exposure!DarksAfter(s) >= UnderexposedSamples
PROOF
<1>1. dark \in Nat /\ darkRun \in Nat /\ UnderexposedSamples \in Nat /\ dark <= darkRun
  BY DEF ExposureConstants, ExposureTyped, CountsBacked
<1> QED BY <1>1 DEF Exposure!DarkAfter, Exposure!DarksAfter, Exposure!Smaller

LEMMA ProportionalIs ==
    ASSUME ExposureConstants, ExposureTyped, CountsBacked, NEW s \in Exposure!Samples,
           NEW r \in Exposure!Proportional(s)
    PROVE  Sound(s, r)
PROOF
<1> USE Types
<1>1. CASE r = [decision |-> Exposure!Hold, dark |-> 0]
  <2>1. r.decision = Exposure!Hold /\ r.dark = 0
    BY <1>1
  <2>2. Exposure!DarksAfter(s) \in Nat
    BY DarkIs
  <2> QED BY <2>1, <2>2, HoldIs DEF Sound
<1>2. ASSUME NEW d \in Exposure!Gains({IF Exposure!Severe(s) THEN GainMin
                 ELSE Exposure!Larger(GainMin, controls.gain - MaxGainStep)}, Exposure!Severe(s)),
             controls.gain > GainMin, r = [decision |-> d, dark |-> 0]
      PROVE  Sound(s, r)
  <2> DEFINE g == IF Exposure!Severe(s) THEN GainMin
                 ELSE Exposure!Larger(GainMin, controls.gain - MaxGainStep)
  <2>1. g \in Int /\ g <= controls.gain /\ Exposure!Severe(s) \in BOOLEAN
    BY <1>2 DEF Exposure!Larger, ExposureConstants, Exposure!Severe
  <2> HIDE DEF g
  <2>2. {g} \in SUBSET Int /\ \A x \in {g} : x <= controls.gain
    BY <2>1
  <2>3. d \in Exposure!Gains({g}, Exposure!Severe(s))
    BY <1>2 DEF g
  <2>4. d \in DecisionTypes /\ Exposure!Direction(d.controls) # 1
    BY <2>1, <2>2, <2>3, GainsAre
  <2>5. Exposure!DarksAfter(s) \in Nat /\ r.decision = d /\ r.dark = 0
    BY <1>2, DarkIs
  <2> QED BY <2>4, <2>5 DEF Sound
<1>3. ASSUME NEW floor \in Int, controls.exposure > floor,
             NEW d \in Exposure!Exposures(Exposure!Lowered(1..MaxExposureStep, floor), Exposure!Severe(s)),
             r = [decision |-> d, dark |-> 0]
      PROVE  Sound(s, r)
  <2> DEFINE T == Exposure!Lowered(1..MaxExposureStep, floor)
  <2>1. T \in SUBSET Int /\ \A e \in T : e <= controls.exposure
    BY <1>3 DEF Exposure!Lowered, Exposure!Larger, ExposureConstants
  <2> HIDE DEF T
  <2>2. Exposure!Severe(s) \in BOOLEAN /\ d \in Exposure!Exposures(T, Exposure!Severe(s))
    BY <1>3 DEF Exposure!Severe, T
  <2>3. d \in DecisionTypes /\ Exposure!Direction(d.controls) # 1
    BY <2>1, <2>2, ExposuresAre
  <2>4. Exposure!DarksAfter(s) \in Nat /\ r.decision = d /\ r.dark = 0
    BY <1>3, DarkIs
  <2> QED BY <2>3, <2>4 DEF Sound
<1>4. ASSUME NEW over \in BOOLEAN, NEW d, r = [decision |-> d, dark |-> Exposure!DarkAfter(over, s, FALSE)],
             s.mid = "dark",
             \/ d = Exposure!Hold
             \/ ~(dark + 1 < UnderexposedSamples)
                    /\ d \in Exposure!Exposures(Exposure!Raised(1..MaxExposureStep, ExposureMax), FALSE)
             \/ ~(dark + 1 < UnderexposedSamples)
                    /\ d \in Exposure!Gains({Exposure!Smaller(GainMax, controls.gain + MaxGainStep)}, FALSE)
      PROVE  Sound(s, r)
  <2>1. r.decision = d /\ r.dark = Exposure!DarkAfter(over, s, FALSE)
    BY <1>4
  <2>2. CASE d = Exposure!Hold
    <3>1. Exposure!Hold \in DecisionTypes /\ Exposure!Direction(Exposure!Hold.controls) = 0
      BY HoldIs
    <3>2. r.dark \in Nat /\ r.dark <= Exposure!DarksAfter(s)
      BY <2>1, DarkIs
    <3>3. r.decision \in DecisionTypes /\ Exposure!Direction(r.decision.controls) = 0
      BY <2>1, <2>2, <3>1
    <3> QED BY <3>2, <3>3 DEF Sound
  <2>3. CASE ~(dark + 1 < UnderexposedSamples)
                 /\ d \in Exposure!Exposures(Exposure!Raised(1..MaxExposureStep, ExposureMax), FALSE)
    <3>1. Exposure!Raised(1..MaxExposureStep, ExposureMax) \in SUBSET Int
      BY DEF Exposure!Raised, Exposure!Smaller, ExposureConstants
    <3>2. d \in DecisionTypes
      BY <2>3, <3>1, ExposuresAre
    <3> QED BY <1>4, <2>1, <2>3, <3>2, DarkIs DEF Sound
  <2>4. CASE ~(dark + 1 < UnderexposedSamples)
                 /\ d \in Exposure!Gains({Exposure!Smaller(GainMax, controls.gain + MaxGainStep)}, FALSE)
    <3>1. {Exposure!Smaller(GainMax, controls.gain + MaxGainStep)} \in SUBSET Int
      BY DEF Exposure!Smaller, ExposureConstants
    <3>2. d \in DecisionTypes
      BY <2>4, <3>1, GainsAre
    <3> QED BY <1>4, <2>1, <2>4, <3>2, DarkIs DEF Sound
  <2> QED BY <1>4, <2>2, <2>3, <2>4
<1> DEFINE soft == s.soft /\ s.upper # "low"
           over == Exposure!Severe(s) \/ s.upper = "over" \/ soft \/ s.mid = "bright"
           floor == IF ~Exposure!Severe(s) /\ s.mid # "bright" THEN SoftFloor ELSE ExposureMin
           brighter ==
               IF dark + 1 < UnderexposedSamples THEN {Exposure!Hold}
               ELSE IF controls.exposure < ExposureMax
               THEN {Exposure!Hold} \cup Exposure!Exposures(Exposure!Raised(1..MaxExposureStep, ExposureMax), FALSE)
               ELSE IF controls.gain < GainMax /\ s.upper = "low"
               THEN Exposure!Gains({Exposure!Smaller(GainMax, controls.gain + MaxGainStep)}, FALSE)
                   ELSE {Exposure!Hold}
           lower ==
               IF controls.gain > GainMin
               THEN Exposure!Gains({IF Exposure!Severe(s) THEN GainMin
                   ELSE Exposure!Larger(GainMin, controls.gain - MaxGainStep)}, Exposure!Severe(s))
               ELSE IF controls.exposure > floor
               THEN Exposure!Exposures(Exposure!Lowered(1..MaxExposureStep, floor), Exposure!Severe(s))
               ELSE {Exposure!Hold}
<1>5. r \in IF over THEN {[decision |-> d, dark |-> 0] : d \in lower}
            ELSE IF s.mid # "dark" THEN {[decision |-> Exposure!Hold, dark |-> 0]}
            ELSE (IF Exposure!LimitAfter(s)
                \/ s.upper # "low" THEN {[decision |-> Exposure!Hold, dark |-> 0]} ELSE {})
                 \cup (IF Exposure!LimitAfter(s) THEN {}
                       ELSE {[decision |-> d, dark |-> Exposure!DarkAfter(over, s, FALSE)] : d \in brighter})
  BY DEF Exposure!Proportional
<1>6. floor \in {SoftFloor, ExposureMin} /\ over \in BOOLEAN
  OBVIOUS
<1>7. ASSUME NEW d \in lower
      PROVE  \/ /\ controls.gain > GainMin
                /\ d \in Exposure!Gains({IF Exposure!Severe(s) THEN GainMin
                       ELSE Exposure!Larger(GainMin, controls.gain - MaxGainStep)}, Exposure!Severe(s))
             \/ controls.exposure > floor
                    /\ d \in Exposure!Exposures(Exposure!Lowered(1..MaxExposureStep, floor), Exposure!Severe(s))
             \/ d = Exposure!Hold
  BY <1>7
<1>8. ASSUME NEW d \in brighter
      PROVE  \/ d = Exposure!Hold
             \/ ~(dark + 1 < UnderexposedSamples)
                    /\ d \in Exposure!Exposures(Exposure!Raised(1..MaxExposureStep, ExposureMax), FALSE)
             \/ ~(dark + 1 < UnderexposedSamples)
                    /\ d \in Exposure!Gains({Exposure!Smaller(GainMax, controls.gain + MaxGainStep)}, FALSE)
  BY <1>8
<1> HIDE DEF lower, brighter, floor, over
<1>9. \/ \E d \in lower : r = [decision |-> d, dark |-> 0]
      \/ r = [decision |-> Exposure!Hold, dark |-> 0]
      \/ s.mid = "dark" /\ \E d \in brighter : r = [decision |-> d, dark |-> Exposure!DarkAfter(over, s, FALSE)]
  BY <1>5
<1>10. floor \in Int
  BY <1>6 DEF ExposureConstants
<1>11. ASSUME NEW d \in lower, r = [decision |-> d, dark |-> 0] PROVE Sound(s, r)
  BY <1>11, <1>7, <1>1, <1>2, <1>3, <1>10
<1>12. ASSUME NEW d \in brighter, s.mid = "dark",
              r = [decision |-> d, dark |-> Exposure!DarkAfter(over, s, FALSE)]
       PROVE  Sound(s, r)
  BY <1>12, <1>6, <1>8, <1>4
<1> QED BY <1>1, <1>9, <1>11, <1>12

LEMMA PidIs ==
    ASSUME ExposureConstants, ExposureTyped, CountsBacked, mode # "proportional",
           NEW s \in Exposure!Samples, NEW r \in Exposure!Pid(s)
    PROVE  Sound(s, r)
PROOF
<1> USE Types
<1> DEFINE protect == Exposure!Severe(s) /\ (s.mid # "dark" \/ (s.clip = "broad" /\ s.upper = "over"))
           over == protect \/ s.mid = "bright"
           moves(c) == {e \in ExposureMin..c :
                           controls.exposure - MaxExposureStep <= e
                               /\ e <= controls.exposure + MaxExposureStep}
           ceiling == IF Exposure!LimitAfter(s)
               THEN Exposure!Smaller(ExposureMax, controls.exposure + MaxRecoveryStep) ELSE ExposureMax
           brighter ==
               IF dark + 1 < UnderexposedSamples THEN {Exposure!Hold}
               ELSE IF controls.exposure < ceiling THEN Exposure!Exposures(moves(ceiling), FALSE)
               ELSE IF controls.gain < GainMax
               THEN Exposure!Gains({Exposure!Smaller(GainMax, controls.gain + k) : k \in 1..MaxGainStep}, FALSE)
                   ELSE {Exposure!Hold}
           steps == IF protect THEN 8 * MaxGainStep ELSE MaxGainStep
           any == IF over
                  THEN IF controls.gain > GainMin
                       THEN Exposure!Gains({Exposure!Larger(GainMin, controls.gain - k) : k \in 1..steps}, protect)
                       ELSE IF controls.exposure > ExposureMin
                           THEN Exposure!Exposures(moves(ExposureMax), protect)
                       ELSE {Exposure!Hold}
                  ELSE IF s.mid = "dark" THEN brighter ELSE {Exposure!Hold}
<1>1. PICK d \in any : r = [decision |-> d, dark |-> Exposure!DarkAfter(over, s, FALSE)]
  BY DEF Exposure!Pid
<1>2. /\ {Exposure!Larger(GainMin, controls.gain - k) : k \in 1..steps} \in SUBSET Int
      /\ {Exposure!Smaller(GainMax, controls.gain + k) : k \in 1..MaxGainStep} \in SUBSET Int
  BY DEF Exposure!Larger, Exposure!Smaller, ExposureConstants
<1>3. moves(ceiling) \in SUBSET Int /\ moves(ExposureMax) \in SUBSET Int
  BY DEF Exposure!Smaller, ExposureConstants
<1>4. protect \in BOOLEAN
  BY DEF Exposure!Severe
<1> DEFINE lowers == {Exposure!Larger(GainMin, controls.gain - k) : k \in 1..steps}
           raises == {Exposure!Smaller(GainMax, controls.gain + k) : k \in 1..MaxGainStep}
<1>5. \/ d = Exposure!Hold \/ d \in Exposure!Gains(lowers, protect) \/ d \in Exposure!Gains(raises, FALSE)
      \/ d \in Exposure!Exposures(moves(ceiling), FALSE)
      \/ d \in Exposure!Exposures(moves(ExposureMax), protect)
  BY <1>1
<1>6. d \in DecisionTypes
  <2> HIDE DEF lowers, raises, moves, protect, ceiling, any
  <2>1. lowers \in SUBSET Int /\ raises \in SUBSET Int
    BY <1>2 DEF lowers, raises
  <2> QED BY <1>3, <1>4, <1>5, <2>1, HoldIs, GainsAre, ExposuresAre
<1>7. r.decision = d /\ r.dark = Exposure!DarkAfter(over, s, FALSE) /\ over \in BOOLEAN
  BY <1>1
<1> HIDE DEF over
<1> QED BY <1>6, <1>7, DarkIs DEF Sound

LEMMA DecisionIs ==
    ASSUME ExposureConstants, ExposureTyped, CountsBacked, NEW s \in Exposure!Samples,
           NEW r \in Exposure!Decisions(s)
    PROVE  Sound(s, r)
PROOF
<1>1. CASE mode = "pid"
  BY <1>1, PidIs DEF Exposure!Decisions
<1>2. CASE mode # "pid"
  BY <1>2, ProportionalIs DEF Exposure!Decisions
<1> QED BY <1>1, <1>2

-----------------------------------------------------------------------------
\* The steps

\* What the metering keeps of the frames, the one that came included.
LEMMA KeptIs ==
    ASSUME ExposureTyped, MeteringWindow \in Nat
    PROVE  LET meters == Append(metered, reported => shown = controls)
               kept == IF Len(meters) > MeteringWindow THEN Tail(meters) ELSE meters
           IN  /\ kept \in Seq(BOOLEAN)
               /\ (\A i \in 1..Len(metered) : metered[i] = TRUE) /\ (reported => shown = controls) =>
                     \A i \in 1..Len(kept) : kept[i] = TRUE
PROOF
<1>1. PICK b \in BOOLEAN : b = (reported => shown = controls)
  OBVIOUS
<1> DEFINE meters == Append(metered, b)
<1>2. metered \in Seq(BOOLEAN)
  BY DEF ExposureTyped
<1>3. /\ meters \in Seq(BOOLEAN) /\ meters # <<>> /\ Len(meters) = Len(metered) + 1
             /\ Len(metered) \in Nat
      /\ \A i \in 1..Len(metered) : meters[i] = metered[i]
      /\ meters[Len(metered) + 1] = b
  BY <1>2, AppendProperties, LenProperties
<1>4. (\A i \in 1..Len(metered) : metered[i] = TRUE) /\ b = TRUE =>
          \A i \in 1..Len(meters) : meters[i] = TRUE
  <2> SUFFICES ASSUME \A i \in 1..Len(metered) : metered[i] = TRUE, b = TRUE, NEW i \in 1..Len(meters)
               PROVE  meters[i] = TRUE
    OBVIOUS
  <2> HIDE DEF meters
  <2>1. i \in 1..Len(metered) \/ i = Len(metered) + 1
    BY <1>3
  <2> QED BY <1>3, <2>1
<1> HIDE DEF meters
<1>5. /\ Tail(meters) \in Seq(BOOLEAN) /\ Len(Tail(meters)) = Len(meters) - 1 /\ Len(meters) \in Nat
      /\ \A i \in 1..Len(Tail(meters)) : Tail(meters)[i] = meters[i + 1]
  BY <1>3, HeadTailProperties, LenProperties
<1>6. (\A i \in 1..Len(meters) : meters[i] = TRUE)
          => \A i \in 1..Len(Tail(meters)) : Tail(meters)[i] = TRUE
  <2> SUFFICES ASSUME \A i \in 1..Len(meters) : meters[i] = TRUE, NEW i \in 1..Len(Tail(meters))
               PROVE  Tail(meters)[i] = TRUE
    OBVIOUS
  <2>1. i + 1 \in 1..Len(meters) /\ Tail(meters)[i] = meters[i + 1]
    BY <1>5
  <2> QED BY <2>1
<1> DEFINE kept == IF Len(meters) > MeteringWindow THEN Tail(meters) ELSE meters
<1>7. /\ kept \in Seq(BOOLEAN)
      /\ (\A i \in 1..Len(metered) : metered[i] = TRUE) /\ b = TRUE =>
            \A i \in 1..Len(kept) : kept[i] = TRUE
  BY <1>3, <1>4, <1>5, <1>6
<1>8. meters = Append(metered, reported => shown = controls)
  BY <1>1 DEF meters
<1> QED BY <1>1, <1>7, <1>8

LEMMA DirectionIs ==
    ASSUME NEW c
    PROVE  Exposure!Direction(c) \in {-1, 0, 1}
PROOF
BY DEF Exposure!Direction

\* A direction that is pending was asked for by as many samples in a row.
Wish(d) ==
    LET dir == Exposure!Direction(d.controls)
    IN  [dir |-> dir, count |-> IF dir = 0 THEN 0
             ELSE IF dir = wished.dir THEN Exposure!Smaller(wished.count + 1, ReversalSamples) ELSE 1]

LEMMA WishIs ==
    ASSUME ExposureConstants, ExposureTyped, CountsBacked, NEW d
    PROVE  /\ Wish(d) \in [dir : {-1, 0, 1}, count : Nat]
           /\ Wish(d).dir = Exposure!Direction(d.controls)
           /\ Exposure!Pending(d).dir \in {-1, 0, 1} /\ Exposure!Pending(d).count \in Nat
           /\ Exposure!Pending(d).dir # 0 => /\ Exposure!Pending(d).dir = Wish(d).dir
                                    /\ Exposure!Smaller(Exposure!Pending(d).count, ReversalSamples) <= Wish(d).count
           /\ Exposure!Passes(d) => \/ Exposure!Direction(d.controls) = lastDir \/ lastDir = 0
                           \/ d.urgent \/ Wish(d).count >= ReversalSamples
PROOF
<1>1. PICK dir : dir = Exposure!Direction(d.controls)
  OBVIOUS
<1>2. dir \in {-1, 0, 1}
  BY <1>1, DirectionIs
<1>3. /\ wished.dir \in {-1, 0, 1} /\ wished.count \in Nat /\ pendCount \in Nat
             /\ pendDir \in {-1, 0, 1}
      /\ ReversalSamples \in Nat
      /\ pendDir # 0 => pendDir = wished.dir /\ Exposure!Smaller(pendCount, ReversalSamples) <= wished.count
  BY DEF ExposureTyped, CountsBacked, ExposureConstants
<1>4. PICK n : n = IF dir = 0 THEN 0
                   ELSE IF dir = wished.dir THEN Exposure!Smaller(wished.count + 1, ReversalSamples) ELSE 1
  OBVIOUS
<1>5. n \in Nat
  BY <1>2, <1>3, <1>4 DEF Exposure!Smaller
<1>6. Wish(d) = [dir |-> dir, count |-> n]
  BY <1>1, <1>4 DEF Wish
<1>7. Wish(d) \in [dir : {-1, 0, 1}, count : Nat] /\ Wish(d).dir = dir /\ Wish(d).count = n
  BY <1>2, <1>5, <1>6
<1>8. /\ Exposure!Pending(d).dir = IF dir = 0 \/ Exposure!AtOnce(d) THEN 0 ELSE dir
      /\ Exposure!Pending(d).count = IF dir = 0 \/ Exposure!AtOnce(d) THEN 0
             ELSE IF dir = pendDir THEN pendCount + 1
             ELSE 1
  BY <1>1 DEF Exposure!Pending
<1>9. Exposure!Pending(d).dir \in {-1, 0, 1} /\ Exposure!Pending(d).count \in Nat
  BY <1>2, <1>3, <1>8
<1>10. ASSUME Exposure!Pending(d).dir # 0
       PROVE  Exposure!Pending(d).dir = dir
                  /\ Exposure!Smaller(Exposure!Pending(d).count, ReversalSamples) <= n
  <2>1. /\ Exposure!Pending(d).dir = dir /\ dir # 0
        /\ Exposure!Pending(d).count = IF dir = pendDir THEN pendCount + 1 ELSE 1
    BY <1>8, <1>10
  <2>2. CASE dir = pendDir
    BY <1>3, <1>4, <2>1, <2>2 DEF Exposure!Smaller
  <2>3. CASE dir # pendDir
    BY <1>3, <1>4, <2>1, <2>3 DEF Exposure!Smaller
  <2> QED BY <2>2, <2>3, <2>1
<1>11. ASSUME Exposure!Passes(d)
       PROVE  dir = lastDir \/ lastDir = 0 \/ d.urgent \/ n >= ReversalSamples
  <2>1. dir # 0 /\ (Exposure!AtOnce(d) \/ Exposure!Pending(d).count >= ReversalSamples)
    BY <1>1, <1>11 DEF Exposure!Passes
  <2>2. CASE Exposure!AtOnce(d)
    <3>1. (d.urgent /\ dir < 0) \/ lastDir = 0 \/ dir = lastDir \/ ReversalSamples <= 1
      BY <1>1, <2>2 DEF Exposure!AtOnce
    <3>2. ReversalSamples <= 1 => n >= ReversalSamples
      BY <1>3, <1>4, <2>1 DEF Exposure!Smaller
    <3> QED BY <3>1, <3>2
  <2>3. CASE ~Exposure!AtOnce(d) /\ Exposure!Pending(d).count >= ReversalSamples
    <3>1. Exposure!Pending(d).dir # 0
      BY <1>8, <2>1, <2>3
    <3>2. Exposure!Smaller(Exposure!Pending(d).count, ReversalSamples) <= n
      BY <3>1, <1>10
    <3> QED BY <1>3, <1>5, <1>9, <2>3, <3>2 DEF Exposure!Smaller
  <2> QED BY <2>1, <2>2, <2>3
<1> QED BY <1>1, <1>7, <1>9, <1>10, <1>11

LEMMA EvaluateStep ==
    ASSUME ExposureConstants, ExposureInv, UNCHANGED <<mode, shown, reported>>, ~Exposure!Awaiting,
           Exposure!Evaluate, waiting' = (controls' # controls)
    PROVE  ExposureInv'
PROOF
<1> DEFINE meters == Append(metered, reported => shown = controls)
           kept == IF Len(meters) > MeteringWindow THEN Tail(meters) ELSE meters
<1>1. /\ kept \in Seq(BOOLEAN)
      /\ ~broken => device = controls /\ (reported => shown = controls) /\ \A i \in 1..Len(kept) : kept[i] = TRUE
  <2>1. ~broken => device = controls /\ (reported => shown = controls) /\ \A i \in 1..Len(metered) : metered[i] = TRUE
    BY DEF ExposureInv, ShownOrAwaited, Exposure!Awaiting
  <2> QED BY <2>1, KeptIs DEF ExposureInv, ExposureConstants
<1>2. \/ /\ metered' = kept
         /\ UNCHANGED <<controls, device, dark, pendDir, pendCount, wished, darkRun, broken,
                adjusted, lastDir>>
      \/ \E s \in Exposure!Samples : \E r \in Exposure!Decisions(s) :
            LET d == r.decision
                pend == IF Exposure!Passes(d) THEN [dir |-> 0, count |-> 0] ELSE Exposure!Pending(d)
            IN  /\ pendDir' = pend.dir /\ pendCount' = pend.count
                /\ \/ Exposure!Passes(d) /\ Exposure!Commit(d, \A i \in 1..Len(kept) : kept[i], Wish(d), Exposure!DarksAfter(s))
                   \/ /\ \/ Exposure!Passes(d) /\ Exposure!ApplyFails
                         \/ ~Exposure!Passes(d) /\ UNCHANGED <<controls, device, lastDir, discard, adjusted,
                                broken>>
                      /\ metered' = kept /\ dark' = r.dark
                      /\ wished' = Wish(d) /\ darkRun' = Exposure!DarksAfter(s)
  <2>1. CASE Len(kept) < MeteringWindow
    BY <2>1 DEF Exposure!Evaluate
  <2>2. CASE ~(Len(kept) < MeteringWindow)
    <3>1. PICK o \in Exposure!Outcomes :
              LET d == o.decision
                  pend == IF Exposure!Passes(d) THEN [dir |-> 0, count |-> 0] ELSE Exposure!Pending(d)
              IN  /\ pendDir' = pend.dir /\ pendCount' = pend.count
                  /\ \/ Exposure!Passes(d) /\ Exposure!Commit(d, \A i \in 1..Len(kept) : kept[i], Wish(d), o.darks)
                     \/ /\ \/ Exposure!Passes(d) /\ Exposure!ApplyFails
                           \/ ~Exposure!Passes(d) /\ UNCHANGED <<controls, device, lastDir, discard, adjusted,
                                  broken>>
                        /\ metered' = kept /\ dark' = o.dark
                        /\ wished' = Wish(d) /\ darkRun' = o.darks
      BY <2>2 DEF Exposure!Evaluate, Wish
    <3>2. PICK s \in Exposure!Samples : \E r \in Exposure!Decisions(s) :
              o = [decision |-> r.decision, dark |-> r.dark, limit |-> Exposure!LimitAfter(s),
                   recovery |-> Exposure!RecoveryAfter(s), darks |-> Exposure!DarksAfter(s)]
      BY DEF Exposure!Outcomes
    <3>3. PICK r \in Exposure!Decisions(s) :
              o.decision = r.decision /\ o.dark = r.dark /\ o.darks = Exposure!DarksAfter(s)
      BY <3>2
    <3> QED BY <3>1, <3>3
  <2> QED BY <2>1, <2>2
<1> HIDE DEF meters, kept
<1>3. CASE /\ metered' = kept
           /\ UNCHANGED <<controls, device, dark, pendDir, pendCount, wished, darkRun, broken,
                  adjusted, lastDir>>
  <2>1. ExposureTyped' /\ CountsBacked' /\ Exposure!AdjustsOnEvidence'
    BY <1>1, <1>3 DEF ExposureInv, ExposureTyped, CountsBacked, Exposure!AdjustsOnEvidence
  <2>2. ShownOrAwaited'
    BY <1>1, <1>3 DEF ShownOrAwaited
  <2> QED BY <2>1, <2>2 DEF ExposureInv
<1>4. ASSUME NEW s \in Exposure!Samples, NEW r \in Exposure!Decisions(s), NEW d, d = r.decision, NEW pend,
             pend = IF Exposure!Passes(d) THEN [dir |-> 0, count |-> 0] ELSE Exposure!Pending(d),
             pendDir' = pend.dir, pendCount' = pend.count,
             \/ Exposure!Passes(d) /\ Exposure!Commit(d, \A i \in 1..Len(kept) : kept[i], Wish(d), Exposure!DarksAfter(s))
             \/ /\ \/ Exposure!Passes(d) /\ Exposure!ApplyFails
                   \/ ~Exposure!Passes(d) /\ UNCHANGED <<controls, device, lastDir, discard, adjusted, broken>>
                /\ metered' = kept /\ dark' = r.dark
                /\ wished' = Wish(d) /\ darkRun' = Exposure!DarksAfter(s)
      PROVE  ExposureInv'
  <2>1. /\ d \in DecisionTypes /\ d.controls \in ControlTypes
        /\ r.dark \in Nat /\ r.dark <= Exposure!DarksAfter(s) /\ Exposure!DarksAfter(s) \in Nat
        /\ mode = "proportional" /\ Exposure!Direction(d.controls) = 1
               => Exposure!DarksAfter(s) >= UnderexposedSamples
    <3>1. Sound(s, r)
      BY DecisionIs DEF ExposureInv
    <3>2. Exposure!DarksAfter(s) \in Nat
      BY DarkIs DEF ExposureInv
    <3> QED BY <1>4, <3>1, <3>2 DEF Sound, DecisionTypes
  <2>2. /\ Wish(d) \in [dir : {-1, 0, 1}, count : Nat]
        /\ pendDir' \in {-1, 0, 1} /\ pendCount' \in Nat
        /\ pendDir' # 0 => pendDir' = Wish(d).dir
               /\ Exposure!Smaller(pendCount', ReversalSamples) <= Wish(d).count
        /\ Exposure!Passes(d) => \/ Exposure!Direction(d.controls) = lastDir \/ lastDir = 0
                        \/ d.urgent \/ Wish(d).count >= ReversalSamples
        /\ Exposure!Passes(d) => pendDir' = 0
    <3>1. CASE Exposure!Passes(d)
      <4>1. pendDir' = 0 /\ pendCount' = 0
        BY <1>4, <3>1
      <4> QED BY <4>1, WishIs DEF ExposureInv
    <3>2. CASE ~Exposure!Passes(d)
      <4>1. pendDir' = Exposure!Pending(d).dir /\ pendCount' = Exposure!Pending(d).count
        BY <1>4, <3>2
      <4> QED BY <3>2, <4>1, WishIs DEF ExposureInv
    <3> QED BY <3>1, <3>2
  <2>3. CASE Exposure!Passes(d) /\ Exposure!Commit(d, \A i \in 1..Len(kept) : kept[i], Wish(d), Exposure!DarksAfter(s))
    <3>1. /\ controls' = d.controls /\ device' = d.controls /\ dark' = 0 /\ metered' = <<>>
          /\ lastDir' = Exposure!Direction(d.controls) /\ darkRun' = 0 /\ broken' = broken
          /\ wished' = [dir |-> 0, count |-> 0]
      BY <2>3 DEF Exposure!Commit
    <3>2. controls' # controls
      BY <2>3, <3>1 DEF Exposure!Passes, Exposure!Direction
    <3>3. ExposureTyped'
      <4>1. <<>> \in Seq(BOOLEAN) /\ Exposure!Direction(d.controls) \in {-1, 0, 1}
        BY EmptySeq, DirectionIs
      <4> QED BY <2>1, <2>2, <3>1, <4>1 DEF ExposureTyped
    <3>4. ShownOrAwaited'
      <4>1. waiting'
        BY <3>2
      <4>2. \A i \in 1..Len(metered') : metered'[i] = TRUE
        BY <3>1
      <4> QED BY <3>1, <4>1, <4>2 DEF ShownOrAwaited
    <3>5. CountsBacked'
      BY <2>2, <2>3, <3>1 DEF CountsBacked
    <3>6. Exposure!AdjustsOnEvidence'
      <4>1. (\A i \in 1..Len(kept) : kept[i]) \/ broken
        BY <1>1
      <4>2. /\ \/ Exposure!Direction(d.controls) = lastDir \/ lastDir = 0
               \/ d.urgent \/ Wish(d).count >= ReversalSamples
            /\ mode = "proportional" /\ Exposure!Direction(d.controls) = 1
                   => Exposure!DarksAfter(s) >= UnderexposedSamples
        BY <2>1, <2>2, <2>3
      <4>3. adjusted' = [settled |-> (\A i \in 1..Len(kept) : kept[i]) \/ broken,
                         confirmed |->
                            /\ \/ Exposure!Direction(d.controls) = lastDir \/ lastDir = 0
                               \/ d.urgent \/ Wish(d).count >= ReversalSamples
                            /\ mode = "proportional" /\ Exposure!Direction(d.controls) = 1 =>
                                  Exposure!DarksAfter(s) >= UnderexposedSamples]
        BY <2>3 DEF Exposure!Commit
      <4> QED BY <4>1, <4>2, <4>3 DEF Exposure!AdjustsOnEvidence
    <3> QED BY <3>3, <3>4, <3>5, <3>6 DEF ExposureInv
  <2>4. CASE /\ \/ Exposure!Passes(d) /\ Exposure!ApplyFails
                \/ ~Exposure!Passes(d) /\ UNCHANGED <<controls, device, lastDir, discard, adjusted, broken>>
             /\ metered' = kept /\ dark' = r.dark
             /\ wished' = Wish(d) /\ darkRun' = Exposure!DarksAfter(s)
    <3>1. UNCHANGED <<controls, lastDir, adjusted>> /\ (broken' \/ UNCHANGED <<device, broken>>)
      BY <2>4 DEF Exposure!ApplyFails
    <3>2. ExposureTyped'
      BY <1>1, <2>1, <2>2, <2>4, <3>1 DEF ExposureInv, ExposureTyped
    <3>3. ShownOrAwaited'
      BY <1>1, <2>4, <3>1 DEF ShownOrAwaited
    <3>4. CountsBacked'
      BY <2>1, <2>2, <2>4 DEF CountsBacked
    <3> QED BY <3>1, <3>2, <3>3, <3>4 DEF ExposureInv, Exposure!AdjustsOnEvidence
  <2> QED BY <1>4, <2>3, <2>4
<1> QED BY <1>2, <1>3, <1>4

LEMMA ExposureStep ==
    ASSUME ExposureConstants, ExposureInv, [Exposure!Next]_(Exposure!vars)
    PROVE  ExposureInv'
PROOF
<1> DEFINE Loop == <<controls, metered, dark, darkRun, pendDir, pendCount, lastDir, wished, adjusted>>
<1>1. ASSUME UNCHANGED Loop, ShownOrAwaited' PROVE ExposureInv'
  BY <1>1 DEF ExposureInv, ExposureTyped, CountsBacked, Exposure!AdjustsOnEvidence
<1>2. CASE Exposure!Frame
  <2>1. CASE discard > 0
    <3>1. UNCHANGED Loop /\ UNCHANGED <<device, shown, reported, waiting, broken>>
      BY <1>2, <2>1 DEF Exposure!Frame
    <3>2. ShownOrAwaited'
      BY <3>1 DEF ExposureInv, ShownOrAwaited
    <3> QED BY <1>1, <3>1, <3>2
  <2>2. CASE ~(discard > 0) /\ Exposure!MeteringFails
    <3>1. UNCHANGED Loop /\ UNCHANGED <<device, shown, reported, broken>> /\ waiting' = FALSE
          /\ ~Exposure!Awaiting
      BY <1>2, <2>2 DEF Exposure!Frame, Exposure!MeteringFails
    <3>2. ShownOrAwaited'
      BY <3>1 DEF ExposureInv, ShownOrAwaited, Exposure!Awaiting
    <3> QED BY <1>1, <3>1, <3>2
  <2>3. CASE ~(discard > 0) /\ ~Exposure!MeteringFails
    BY <1>2, <2>3, EvaluateStep DEF Exposure!Frame
  <2> QED BY <2>1, <2>2, <2>3
<1>3. CASE Exposure!MetadataTimeout
  <2>1. UNCHANGED Loop /\ ShownOrAwaited'
    BY <1>3 DEF Exposure!MetadataTimeout, ShownOrAwaited
  <2> QED BY <1>1, <2>1
<1>4. CASE Exposure!FramesFollow
  <2>1. UNCHANGED Loop /\ UNCHANGED <<device, reported, waiting, broken>> /\ shown' = device
    BY <1>4 DEF Exposure!FramesFollow
  <2>2. ShownOrAwaited'
    BY <2>1 DEF ExposureInv, ShownOrAwaited
  <2> QED BY <1>1, <2>1, <2>2
<1>5. CASE UNCHANGED Exposure!vars
  <2>1. UNCHANGED Loop /\ UNCHANGED <<device, shown, reported, waiting, broken>>
    BY <1>5 DEF Exposure!vars
  <2>2. ShownOrAwaited'
    BY <2>1 DEF ExposureInv, ShownOrAwaited
  <2> QED BY <1>1, <2>1, <2>2
<1>6. CASE Exposure!MetadataAppears
  <2>1. /\ UNCHANGED Loop /\ UNCHANGED <<device, shown, waiting>>
        /\ broken' = (broken \/ (~waiting /\ shown # controls))
    BY <1>6 DEF Exposure!MetadataAppears
  <2>2. ShownOrAwaited'
    BY <2>1 DEF ExposureInv, ShownOrAwaited
  <2> QED BY <1>1, <2>1, <2>2
<1> QED BY <1>2, <1>3, <1>4, <1>5, <1>6 DEF Exposure!Next

\* Whatever the frames show and report and whatever fails: with a device that reports
\* its controls an adjustment is decided on frames that show the one before, unless a
\* write failed, the wait for them timed out or the reports began in the middle of it;
\* and with any, a reversal, or a brightening, on as many samples as are configured.
THEOREM ExposureOnEvidence == ASSUME ExposureConstants PROVE Exposure!Spec => []AdjustsOnEvidence
<1>1. Exposure!Init => ExposureInv
  <2> SUFFICES ASSUME Exposure!Init PROVE ExposureInv
    OBVIOUS
  <2>1. controls \in ControlTypes
    BY DEF Exposure!Init, Exposure!Controls, ControlTypes, ExposureConstants
  <2>2. <<>> \in Seq(BOOLEAN)
    BY EmptySeq
  <2>3. ExposureTyped
    BY <2>1, <2>2 DEF Exposure!Init, ExposureTyped
  <2> QED BY <2>3 DEF Exposure!Init, ExposureInv, ShownOrAwaited, CountsBacked,
       Exposure!AdjustsOnEvidence
<1>2. ExposureInv /\ [Exposure!Next]_(Exposure!vars) => ExposureInv'
  BY ExposureStep
<1>3. ExposureInv => Exposure!AdjustsOnEvidence
  BY DEF ExposureInv
<1> QED BY <1>1, <1>2, <1>3, PTL DEF Exposure!Spec, AdjustsOnEvidence

-----------------------------------------------------------------------------
(*****************************************************************************)
(* The receiver a sender follows (ReceiverDiscovery).                        *)
(*****************************************************************************)

\* Receivers have numbers other than None, and so have addresses.
DiscoveryConstants ==
    /\ Hubs \subseteq Nat \ {0} /\ Discovery!None \notin Hosts
    /\ Fallback \in Hosts /\ Sticky \in Nat

Ages == 0..Discovery!Never
Candidates == [id : Hubs, host : Hosts]
TargetTypes == [id : Hubs \cup {Discovery!None}, host : Hosts]

DiscoveryTyped ==
    /\ at \in [Hubs -> Hosts \cup {Discovery!None}]
    /\ target \in TargetTypes /\ saved \in TargetTypes
    /\ sinceSeen \in Ages /\ sinceSuccess \in Ages
    /\ candidates \in SUBSET Candidates
    /\ silent \in [Discovery!Peers -> Ages] /\ changes \in Nat

\* A receiver silent for a shorter time than the sender's two ages say has just answered.
SilenceKnown ==
    target.id # Discovery!None =>
        \/ sinceSeen <= silent[<<target.id, target.host>>]
        \/ sinceSuccess <= silent[<<target.id, target.host>>]
        \/ window /\ Discovery!Same # {}

DiscoveryInv == DiscoveryTyped /\ SilenceKnown

LEMMA FirstAnswer ==
    ASSUME DiscoveryConstants, NEW cs \in SUBSET Candidates, cs # {}
    PROVE  Discovery!FirstOf(cs) \in cs
PROOF
<1> DEFINE ids == {c.id : c \in cs}
<1>1. ids \in SUBSET Nat /\ ids # {}
  BY DEF Candidates, DiscoveryConstants
<1>2. PICK m \in ids : \A n \in ids : <<n, m>> \notin OpToRel(<, Nat)
  <2> HIDE DEF ids
  <2> QED BY <1>1, NatLessThanWellFounded, WFMin, Zenon
<1>3. ASSUME NEW n \in ids PROVE m <= n
  <2>1. m \in Nat /\ n \in Nat
    BY <1>1, <1>3
  <2>2. ~(n < m)
    BY <1>2, <1>3, <2>1 DEF OpToRel
  <2> QED BY <2>1, <2>2
<1>4. PICK c \in cs : m = c.id
  OBVIOUS
<1>5. \A d \in cs : c.id <= d.id
  BY <1>3, <1>4
<1> QED BY <1>5 DEF Discovery!FirstOf

LEMMA LaterIs ==
    ASSUME DiscoveryConstants, NEW a \in Ages
    PROVE  /\ Discovery!Later(a) \in Ages
           /\ \A b \in Ages : a <= b => Discovery!Later(a) <= Discovery!Later(b)
PROOF
BY DEF DiscoveryConstants, Ages, Discovery!Later, Discovery!Never

LEMMA SetTargetTyped ==
    ASSUME DiscoveryConstants, DiscoveryTyped, NEW t \in TargetTypes, Discovery!SetTarget(t)
    PROVE  target' = t /\ sinceSuccess' \in Ages
PROOF
BY DEF Discovery!SetTarget, DiscoveryTyped, DiscoveryConstants, Ages, Discovery!Never

LEMMA CollectStep ==
    ASSUME DiscoveryConstants, DiscoveryInv, NEW answered \in SUBSET Discovery!Up,
           Discovery!Collect(answered)
    PROVE  DiscoveryInv'
PROOF
<1> USE DEF DiscoveryInv
<1>1. ASSUME NEW r \in answered PROVE r \in Hubs /\ at[r] \in Hosts
  BY <1>1 DEF Discovery!Up, DiscoveryTyped
<1>2. candidates' \in SUBSET Candidates
  BY <1>1 DEF Discovery!Collect, Candidates
<1>3. ASSUME NEW p \in Discovery!Peers
      PROVE  /\ silent'[p] \in Ages
             /\ silent'[p] = IF \E r \in answered : r = p[1] \/ at[r] = p[2] THEN 0
                    ELSE Discovery!Later(silent[p])
  <2>1. silent[p] \in Ages /\ Discovery!Later(silent[p]) \in Ages
    BY LaterIs DEF DiscoveryTyped
  <2>2. 0 \in Ages
    BY DEF Ages, Discovery!Never, DiscoveryConstants
  <2> QED BY <2>1, <2>2 DEF Discovery!Collect
<1>4. silent' \in [Discovery!Peers -> Ages]
  BY <1>3 DEF Discovery!Collect
<1>5. DiscoveryTyped'
  <2>1. sinceSeen' \in Ages /\ sinceSuccess' \in Ages
    BY LaterIs DEF Discovery!Collect, DiscoveryTyped
  <2> QED BY <1>2, <1>4, <2>1 DEF Discovery!Collect, DiscoveryTyped
<1>6. SilenceKnown'
  <2> SUFFICES ASSUME target.id # Discovery!None PROVE SilenceKnown'
    BY DEF Discovery!Collect, SilenceKnown
  <2> DEFINE p == <<target.id, target.host>>
  <2>1. p \in Discovery!Peers /\ p[1] = target.id /\ p[2] = target.host
    BY DEF DiscoveryTyped, TargetTypes, Discovery!Peers
  <2>2. target' = target /\ window'
    BY DEF Discovery!Collect
  <2>3. CASE \E r \in answered : r = p[1] \/ at[r] = p[2]
    <3>1. PICK r \in answered : r = target.id \/ at[r] = target.host
      BY <2>3
    <3> DEFINE c == [id |-> r, host |-> at[r]]
    <3>2. c \in candidates'
      BY DEF Discovery!Collect
    <3>3. c.id = target'.id \/ c.host = target'.host
      BY <3>1, <2>2
    <3> HIDE DEF c
    <3>4. Discovery!Same' # {}
      BY <3>2, <3>3, <2>2 DEF Discovery!Same
    <3> QED BY <3>4, <2>2 DEF SilenceKnown
  <2>4. CASE ~\E r \in answered : r = p[1] \/ at[r] = p[2]
    <3>1. silent'[p] = Discovery!Later(silent[p]) /\ silent[p] \in Ages
      BY <2>1, <2>4, <1>3 DEF DiscoveryTyped
    <3>2. sinceSeen <= silent[p] \/ sinceSuccess <= silent[p]
      BY DEF SilenceKnown, Discovery!Collect
    <3>3. sinceSeen' = Discovery!Later(sinceSeen) /\ sinceSuccess' = Discovery!Later(sinceSuccess)
      BY DEF Discovery!Collect
    <3>4. sinceSeen' <= silent'[p] \/ sinceSuccess' <= silent'[p]
      BY <3>1, <3>2, <3>3, LaterIs DEF DiscoveryTyped
    <3> QED BY <3>4, <2>2 DEF SilenceKnown
  <2> QED BY <2>3, <2>4
<1> QED BY <1>5, <1>6

\* A decision: what it may do to the target, and to the ages.
LEMMA DecideStep ==
    ASSUME DiscoveryConstants, DiscoveryInv, Discovery!Decide
    PROVE  DiscoveryInv' /\ Discovery!LeavesSilent
PROOF
<1> USE DEF DiscoveryInv
<1>1. 0 \in Ages /\ Discovery!None \notin Hubs
  BY DEF Ages, Discovery!Never, DiscoveryConstants, Discovery!None
<1>2. ASSUME NEW c \in Candidates, Discovery!Adopt(c),
             c.id = target.id \/ c.host = target.host \/ (~Discovery!Recent /\ Discovery!Same = {})
      PROVE  DiscoveryInv' /\ Discovery!LeavesSilent
  <2> DEFINE t == [host |-> c.host, id |-> c.id]
  <2>1. t \in TargetTypes
    BY DEF Candidates, TargetTypes
  <2>2. t.id = c.id /\ t.host = c.host
    OBVIOUS
  <2>3. Discovery!SetTarget(t) /\ sinceSeen' = 0 /\ saved' \in {saved, t}
    BY <1>2 DEF Discovery!Adopt
  <2> HIDE DEF t
  <2>4. target' = t /\ sinceSuccess' \in Ages
    BY <2>1, <2>3, SetTargetTyped
  <2>5. DiscoveryTyped'
    BY <1>1, <2>1, <2>3, <2>4 DEF Discovery!Decide, DiscoveryTyped
  <2>6. SilenceKnown'
    <3>1. ASSUME target'.id # Discovery!None
          PROVE  silent'[<<target'.id, target'.host>>] \in Ages
      BY <3>1, <2>5 DEF DiscoveryTyped, TargetTypes, Discovery!Peers
    <3>2. ASSUME NEW a \in Ages PROVE 0 <= a
      BY DEF Ages, Discovery!Never, DiscoveryConstants
    <3> QED BY <3>1, <3>2, <2>3 DEF SilenceKnown
  <2>7. Discovery!LeavesSilent
    <3> SUFFICES ASSUME target.id # Discovery!None, ~Discovery!Recent, Discovery!Same = {}
                 PROVE  silent[<<target.id, target.host>>] > Sticky
      BY <1>2, <2>2, <2>4 DEF Discovery!LeavesSilent
    <3>1. silent[<<target.id, target.host>>] \in Ages
      BY DEF DiscoveryTyped, TargetTypes, Discovery!Peers
    <3>2. sinceSeen > Sticky /\ sinceSuccess > Sticky
      BY DEF Discovery!Recent, DiscoveryTyped, Ages, Discovery!Never, DiscoveryConstants
    <3>3. \/ sinceSeen <= silent[<<target.id, target.host>>]
          \/ sinceSuccess <= silent[<<target.id, target.host>>]
      BY DEF SilenceKnown
    <3> QED BY <3>1, <3>2, <3>3 DEF Ages, Discovery!Never, DiscoveryConstants, DiscoveryTyped
  <2> QED BY <2>5, <2>6, <2>7
<1>3. CASE Discovery!Same # {}
  <2>1. Discovery!Same \in SUBSET Candidates
    BY DEF Discovery!Same, DiscoveryTyped
  <2>2. Discovery!FirstOf(Discovery!Same) \in Discovery!Same
    BY <1>3, <2>1, FirstAnswer
  <2>3. PICK c : c = Discovery!FirstOf(Discovery!Same)
    OBVIOUS
  <2>4. c \in Candidates /\ (c.id = target.id \/ c.host = target.host)
    BY <2>1, <2>2, <2>3 DEF Discovery!Same
  <2>5. Discovery!Adopt(c)
    BY <1>3, <2>3 DEF Discovery!Decide
  <2>6. c.id = target.id \/ c.host = target.host \/ (~Discovery!Recent /\ Discovery!Same = {})
    BY <2>4
  <2> QED
    <3> HIDE DEF DiscoveryInv
    <3> QED BY <2>4, <2>5, <2>6, <1>2
<1>4. CASE Discovery!Same = {} /\ ~Discovery!Recent /\ candidates # {}
  <2>1. PICK c : c = Discovery!FirstOf(candidates)
    OBVIOUS
  <2>2. c \in Candidates
    BY <1>4, <2>1, FirstAnswer DEF DiscoveryTyped
  <2>3. Discovery!Adopt(c)
    BY <1>4, <2>1 DEF Discovery!Decide
  <2> QED BY <2>2, <2>3, <1>4, <1>2
<1>5. CASE Discovery!Same = {} /\ Discovery!Recent
  <2>1. /\ UNCHANGED <<at, silent, target, sinceSuccess, sinceSeen, saved, changes>>
        /\ candidates' = {}
    BY <1>5 DEF Discovery!Decide
  <2>2. DiscoveryTyped'
    BY <2>1 DEF DiscoveryTyped
  <2>3. SilenceKnown'
    BY <1>5, <2>1 DEF SilenceKnown
  <2> QED BY <2>1, <2>2, <2>3 DEF Discovery!LeavesSilent
<1>6. CASE Discovery!Same = {} /\ ~Discovery!Recent /\ candidates = {}
  <2>1. Discovery!SetTarget(Discovery!NoTarget)
            /\ UNCHANGED <<at, silent, sinceSeen, saved, changes>> /\ candidates' = {}
    BY <1>6 DEF Discovery!Decide
  <2>2. Discovery!NoTarget \in TargetTypes /\ Discovery!NoTarget.id = Discovery!None
    BY DEF Discovery!NoTarget, TargetTypes, DiscoveryConstants
  <2>3. target' = Discovery!NoTarget /\ sinceSuccess' \in Ages
    BY <2>1, <2>2, SetTargetTyped
  <2>4. DiscoveryTyped'
    BY <2>1, <2>2, <2>3 DEF DiscoveryTyped
  <2>5. SilenceKnown'
    BY <2>2, <2>3 DEF SilenceKnown
  <2>6. Discovery!LeavesSilent
    <3> SUFFICES ASSUME target.id # Discovery!None
                 PROVE  silent[<<target.id, target.host>>] > Sticky
      BY DEF Discovery!LeavesSilent
    <3>1. silent[<<target.id, target.host>>] \in Ages
      BY DEF DiscoveryTyped, TargetTypes, Discovery!Peers
    <3>2. sinceSeen > Sticky /\ sinceSuccess > Sticky
      BY <1>6 DEF Discovery!Recent, DiscoveryTyped, Ages, Discovery!Never, DiscoveryConstants
    <3>3. \/ sinceSeen <= silent[<<target.id, target.host>>]
          \/ sinceSuccess <= silent[<<target.id, target.host>>]
      BY <1>6 DEF SilenceKnown
    <3> QED BY <3>1, <3>2, <3>3 DEF Ages, Discovery!Never, DiscoveryConstants, DiscoveryTyped
  <2> QED BY <2>4, <2>5, <2>6
<1> QED BY <1>3, <1>4, <1>5, <1>6

LEMMA DiscoveryStep ==
    ASSUME DiscoveryConstants, DiscoveryInv, [Discovery!Next]_Discovery!vars
    PROVE  DiscoveryInv' /\ [Discovery!LeavesSilent]_Discovery!vars
PROOF
<1> USE DEF DiscoveryInv
<1>0. ASSUME NEW a \in Ages PROVE 0 <= a
  BY DEF Ages, Discovery!Never, DiscoveryConstants
<1>1. 0 \in Ages /\ Discovery!Never \in Ages
  BY DEF Ages, Discovery!Never, DiscoveryConstants
<1>2. ASSUME NEW r \in Hubs, Discovery!ReceiverChanges(r) PROVE DiscoveryInv'
                 /\ Discovery!LeavesSilent
  <2>1. DiscoveryTyped'
    BY <1>2 DEF Discovery!ReceiverChanges, DiscoveryTyped
  <2>2. SilenceKnown' /\ Discovery!LeavesSilent
    BY <1>2 DEF Discovery!ReceiverChanges, SilenceKnown, Discovery!Same, Discovery!LeavesSilent
  <2> QED BY <2>1, <2>2
<1>3. CASE Discovery!SenderRestarts
  <2>1. /\ target' = saved /\ saved' = saved /\ at' = at /\ candidates' = {} /\ ~window'
        /\ sinceSuccess' = Discovery!Never
               /\ sinceSeen' = IF saved.id = Discovery!None THEN Discovery!Never ELSE 0
    BY <1>3 DEF Discovery!SenderRestarts
  <2>2. silent' \in [Discovery!Peers -> Ages]
    BY <1>1, <1>3 DEF Discovery!SenderRestarts
  <2>3. DiscoveryTyped'
    BY <1>1, <1>3, <2>1, <2>2 DEF DiscoveryTyped, Discovery!SenderRestarts
  <2>4. SilenceKnown'
    <3>1. ASSUME target'.id # Discovery!None
          PROVE  silent'[<<target'.id, target'.host>>] \in Ages
      BY <3>1, <2>3 DEF DiscoveryTyped, TargetTypes, Discovery!Peers
    <3> QED BY <3>1, <1>0, <2>1 DEF SilenceKnown
  <2>5. Discovery!LeavesSilent
    BY <1>3 DEF Discovery!SenderRestarts, Discovery!LeavesSilent, DiscoveryTyped
  <2> QED BY <2>3, <2>4, <2>5
<1>4. CASE Discovery!ExchangeBegins
  BY <1>4 DEF Discovery!ExchangeBegins, DiscoveryTyped, SilenceKnown, Discovery!Same,
       Discovery!LeavesSilent
<1>5. CASE Discovery!MarkSuccess
  <2>1. UNCHANGED <<at, target, sinceSeen, window, candidates, saved, changes>>
    BY <1>5 DEF Discovery!MarkSuccess
  <2>2. CASE UNCHANGED <<sinceSuccess, silent>>
    BY <2>1, <2>2 DEF DiscoveryTyped, SilenceKnown, Discovery!Same, Discovery!LeavesSilent
  <2>3. CASE /\ sinceSuccess' = 0
             /\ silent' = [p \in Discovery!Peers |-> IF p[2] = target.host THEN 0 ELSE silent[p]]
    <3>1. DiscoveryTyped'
      BY <1>1, <2>1, <2>3 DEF DiscoveryTyped
    <3>2. ASSUME target'.id # Discovery!None
          PROVE  silent'[<<target'.id, target'.host>>] \in Ages
      BY <3>1, <3>2 DEF DiscoveryTyped, TargetTypes, Discovery!Peers
    <3>3. SilenceKnown'
      BY <3>2, <1>0, <2>3 DEF SilenceKnown
    <3>4. Discovery!LeavesSilent
      BY <2>1 DEF Discovery!LeavesSilent
    <3> QED BY <3>1, <3>3, <3>4
  <2> QED BY <1>5, <2>2, <2>3 DEF Discovery!MarkSuccess
<1>6. CASE Discovery!Decide
  BY <1>6, DecideStep
<1>7. ASSUME NEW answered \in SUBSET Discovery!Up,
             Discovery!Collect(answered) PROVE DiscoveryInv' /\ Discovery!LeavesSilent
  BY <1>7, CollectStep DEF Discovery!Collect, Discovery!LeavesSilent
<1>8. CASE UNCHANGED Discovery!vars
  BY <1>8 DEF Discovery!vars, DiscoveryTyped, SilenceKnown, Discovery!Same
<1> QED BY <1>2, <1>3, <1>4, <1>5, <1>6, <1>7, <1>8 DEF Discovery!Next

\* Whatever answers are lost, receivers move or exchanges are late: a sender leaves its
\* receiver only when nothing came from it for longer than the sticky time.
THEOREM LeavesOnlySilent == ASSUME DiscoveryConstants PROVE Discovery!Spec => LeavesSilentOnly
<1>1. Discovery!Init => DiscoveryInv
  <2> SUFFICES ASSUME Discovery!Init PROVE DiscoveryInv
    OBVIOUS
  <2>1. Discovery!Never \in Ages
    BY DEF Ages, Discovery!Never, DiscoveryConstants
  <2>2. DiscoveryTyped
    BY <2>1 DEF Discovery!Init, DiscoveryTyped, Discovery!NoTarget, TargetTypes, DiscoveryConstants
  <2> QED BY <2>2 DEF Discovery!Init, DiscoveryInv, SilenceKnown, Discovery!NoTarget
<1>2. DiscoveryInv /\ [Discovery!Next]_Discovery!vars => DiscoveryInv'
          /\ [Discovery!LeavesSilent]_Discovery!vars
  BY DiscoveryStep
<1> QED BY <1>1, <1>2, PTL DEF Discovery!Spec, Discovery!LeavesSilentOnly, LeavesSilentOnly

-----------------------------------------------------------------------------
(*****************************************************************************)
(* Photos on request, on the sender and on the receiver (PhotoCapture).       *)
(*****************************************************************************)

\* Photos the receiver vouches for, in its memory or in an acknowledgement, are safe.
Safe == staged \cup nas
Vouched ==
    /\ \A id \in Ids : result[id] = "captured" => id \in Safe
    /\ \A a \in acks : a.ok => a.id \in Safe
    /\ completed \subseteq Safe
    /\ stage # Photo!NoOne => photoQueue # <<>>
    /\ stage \in {"placed", "done"} => Photo!At \in Safe

\* A captured frame that is not pending yet is in the hands of publish_rgb_snapshot_frame;
\* once it is pending, it need not be: it may have been answered since.
Unpended == {shot[i].id : i \in {j \in DOMAIN shot : ~shot[j].pended}}
Held == clients \subseteq files \cup requests \cup pending \cup Unpended

PhotosTyped ==
    /\ result \in [Ids -> {Photo!NoOne, "error", "timeout", "captured"}]
    /\ photoQueue \in Seq(Ids)
    /\ \/ shot = <<>>
       \/ shot = <<[id |-> shot[1].id, pended |-> FALSE]>>
       \/ shot = <<[id |-> shot[1].id, pended |-> TRUE]>>

PhotosInv == PhotosTyped /\ Vouched /\ Held

-----------------------------------------------------------------------------
LEMMA AnswerIs ==
    ASSUME PhotosTyped, NEW id, NEW r \in {"error", "timeout", "captured"}, Photo!Answer(id, r)
    PROVE  /\ result' \in [Ids -> {Photo!NoOne, "error", "timeout", "captured"}]
           /\ \A x \in Ids : result'[x] = "captured" => result[x] = "captured"
                  \/ (x = id /\ r = "captured")
           /\ clients' = clients \ {id}
PROOF
BY DEF Photo!Answer, PhotosTyped

LEMMA UnpendedIs ==
    /\ shot = <<>> => Unpended = {}
    /\ \A id : shot = <<[id |-> id, pended |-> FALSE]>> => Unpended = {id} /\ shot[1].id = id
    /\ \A id : shot = <<[id |-> id, pended |-> TRUE]>> => Unpended = {} /\ shot[1].id = id
PROOF
BY DEF Unpended

\* A step of the sender that answers with an error, or with what was acknowledged.
Answering ==
    /\ result' \in [Ids -> {Photo!NoOne, "error", "timeout", "captured"}]
    /\ \A x \in Ids : result'[x] = "captured" => result[x] = "captured" \/ x \in Safe

LEMMA SenderStep ==
    ASSUME PhotosInv, Answering, acks' \subseteq acks, UNCHANGED Photo!receiver
    PROVE  Vouched'
PROOF
BY DEF PhotosInv, Vouched, Answering, Photo!receiver, Safe, Photo!At

LEMMA SubmitStep ==
    ASSUME PhotosInv, NEW id \in Ids, Photo!Submit(id)
    PROVE  PhotosInv'
PROOF
<1>1. PhotosTyped' /\ Answering
  BY DEF Photo!Submit, Photo!receiver, PhotosInv, PhotosTyped, Answering
<1>2. Held'
  BY DEF Photo!Submit, PhotosInv, Held, Unpended
<1>3. Vouched'
  BY <1>1, SenderStep DEF Photo!Submit
<1> QED BY <1>1, <1>2, <1>3 DEF PhotosInv

LEMMA NoAnswerIs ==
    ASSUME PhotosTyped, UNCHANGED result
    PROVE  Answering
PROOF
BY DEF PhotosTyped, Answering

LEMMA ErrorIs ==
    ASSUME PhotosTyped, NEW id, Photo!Answer(id, "error") \/ Photo!Answer(id, "timeout")
    PROVE  Answering /\ clients' = clients \ {id}
PROOF
BY AnswerIs DEF Answering

LEMMA PollStep ==
    ASSUME PhotosInv, NEW id \in Ids, NEW unusable \in BOOLEAN, Photo!Poll(id, unusable)
    PROVE  PhotosInv'
PROOF
<1> USE DEF PhotosInv
<1>1. /\ UNCHANGED <<pending, shot, acks, Photo!receiver>> /\ files' = files \ {id}
      /\ \/ Photo!Answer(id, "error") /\ requests' = requests
         \/ Photo!IsDuplicate(id) /\ Photo!NoAnswer /\ requests' = requests
         \/ Photo!NoAnswer /\ requests' = requests \cup {id}
  BY DEF Photo!Poll
<1>2. Answering
  BY <1>1, NoAnswerIs, ErrorIs DEF Photo!NoAnswer
<1>3. Held'
  <2>1. CASE Photo!Answer(id, "error") /\ requests' = requests
    BY <1>1, <2>1, ErrorIs DEF Held, Unpended
  <2>2. CASE Photo!IsDuplicate(id) /\ Photo!NoAnswer /\ requests' = requests
    BY <1>1, <2>2 DEF Held, Unpended, Photo!IsDuplicate, Photo!NoAnswer
  <2>3. CASE Photo!NoAnswer /\ requests' = requests \cup {id}
    BY <1>1, <2>3 DEF Held, Unpended, Photo!NoAnswer
  <2> QED BY <1>1, <2>1, <2>2, <2>3
<1>4. PhotosTyped'
  BY <1>1, <1>2 DEF PhotosTyped, Answering, Photo!receiver
<1>5. Vouched'
  BY <1>1, <1>2, SenderStep
<1> QED BY <1>3, <1>4, <1>5

LEMMA FrameTakesStep ==
    ASSUME PhotosInv, NEW id \in Ids, Photo!FrameTakes(id)
    PROVE  PhotosInv'
PROOF
<1> USE DEF PhotosInv
<1>1. /\ UNCHANGED <<files, pending, acks, Photo!receiver>> /\ shot = <<>>
             /\ requests' = requests \ {id}
      /\ \/ shot' = <<[id |-> id, pended |-> FALSE]>> /\ Photo!NoAnswer
         \/ Photo!Answer(id, "error") /\ shot' = shot
  BY DEF Photo!FrameTakes
<1>2. Answering
  BY <1>1, NoAnswerIs, ErrorIs DEF Photo!NoAnswer
<1>3. Unpended = {}
  BY <1>1, UnpendedIs
<1>4. CASE shot' = <<[id |-> id, pended |-> FALSE]>> /\ Photo!NoAnswer
  <2>1. Unpended' = {id} /\ shot'[1].id = id
    BY <1>4 DEF Unpended
  <2>2. Held'
    BY <1>1, <1>3, <1>4, <2>1 DEF Held, Photo!NoAnswer
  <2>3. PhotosTyped'
    BY <1>1, <1>2, <1>4, <2>1 DEF PhotosTyped, Answering, Photo!receiver
  <2> QED BY <1>1, <1>2, <2>2, <2>3, SenderStep
<1>5. CASE Photo!Answer(id, "error") /\ shot' = shot
  <2>1. Held'
    BY <1>1, <1>5, ErrorIs DEF Held, Unpended
  <2>2. PhotosTyped'
    BY <1>1, <1>2, <1>5 DEF PhotosTyped, Answering, Photo!receiver
  <2> QED BY <1>1, <1>2, <2>1, <2>2, SenderStep
<1> QED BY <1>1, <1>4, <1>5

LEMMA FramePendsStep ==
    ASSUME PhotosInv, Photo!FramePends
    PROVE  PhotosInv'
PROOF
<1> USE DEF PhotosInv
<1>1. PICK id : id = shot[1].id
  OBVIOUS
<1>2. shot = <<[id |-> id, pended |-> FALSE]>>
  BY <1>1 DEF Photo!FramePends, PhotosTyped
<1>3. shot' = <<[id |-> id, pended |-> TRUE]>>
  <2> DEFINE r == [id |-> id, pended |-> FALSE]
             q == [id |-> id, pended |-> TRUE]
  <2>1. [r EXCEPT !.pended = TRUE] = q
    <3> DEFINE R == [id : {id}, pended : BOOLEAN]
               e == [r EXCEPT !.pended = TRUE]
    <3>1. r \in R /\ q \in R
      OBVIOUS
    <3>2. e \in R /\ e.id = id /\ e.pended = TRUE
      BY <3>1
    <3>3. ASSUME NEW x \in R, x.pended = TRUE PROVE x = q
      BY <3>3
    <3> QED BY <3>2, <3>3
  <2>2. shot = <<r>> /\ shot' = [shot EXCEPT ![1].pended = TRUE]
    BY <1>2 DEF Photo!FramePends
  <2> HIDE DEF r, q
  <2>3. shot' = [<<r>> EXCEPT ![1] = q]
    BY <2>1, <2>2
  <2>4. shot' = <<q>>
    BY <2>3
  <2> QED BY <2>4 DEF q
<1>4. Unpended = {id} /\ Unpended' = {} /\ shot'[1].id = id
  BY <1>2, <1>3 DEF Unpended
<1>5. PhotosTyped' /\ Answering
  BY <1>3, <1>4 DEF Photo!FramePends, PhotosTyped, Answering, Photo!receiver
<1>6. Held'
  BY <1>2, <1>4 DEF Photo!FramePends, Held
<1> QED BY <1>5, <1>6, SenderStep DEF Photo!FramePends

LEMMA FramePublishesStep ==
    ASSUME PhotosInv, Photo!FramePublishes
    PROVE  PhotosInv'
PROOF
<1> USE DEF PhotosInv
<1>1. PICK id : id = shot[1].id
  OBVIOUS
<1>2. /\ shot[1].pended /\ shot # <<>> /\ shot' = <<>>
      /\ UNCHANGED <<files, requests, acks, Photo!receiver>>
      /\ \/ Photo!NoAnswer /\ pending' = pending
         \/ pending' = pending \ {id} /\ Photo!Answer(id, "error")
  BY <1>1 DEF Photo!FramePublishes
<1>3. Unpended = {} /\ Unpended' = {}
  BY <1>2 DEF PhotosTyped, Unpended
<1>4. Answering
  BY <1>2, NoAnswerIs, ErrorIs DEF Photo!NoAnswer
<1>5. Held'
  <2>1. CASE Photo!NoAnswer /\ pending' = pending
    BY <1>2, <1>3, <2>1 DEF Held, Photo!NoAnswer
  <2>2. CASE pending' = pending \ {id} /\ Photo!Answer(id, "error")
    BY <1>2, <1>3, <2>2, ErrorIs DEF Held
  <2> QED BY <1>2, <2>1, <2>2
<1>6. PhotosTyped'
  BY <1>2, <1>4 DEF PhotosTyped, Answering, Photo!receiver
<1> QED BY <1>2, <1>4, <1>5, <1>6, SenderStep

\* A pending photo that is answered, or left as it is.
LEMMA PendingAnswered ==
    ASSUME PhotosInv, UNCHANGED <<files, requests, shot, Photo!receiver>>, acks' \subseteq acks,
           Answering,
           \/ UNCHANGED <<pending, clients>>
           \/ \E id : pending' = pending \ {id} /\ clients' = clients \ {id}
    PROVE  PhotosInv'
PROOF
<1>1. Held'
  BY DEF PhotosInv, Held, Unpended
<1>2. PhotosTyped'
  BY DEF PhotosInv, PhotosTyped, Answering, Photo!receiver
<1> QED BY <1>1, <1>2, SenderStep DEF PhotosInv

LEMMA FailPendingIs ==
    ASSUME PhotosTyped, NEW id, Photo!FailPending(id)
    PROVE  /\ Answering
           /\ \/ UNCHANGED <<pending, clients>>
              \/ \E x : pending' = pending \ {x} /\ clients' = clients \ {x}
PROOF
BY NoAnswerIs, ErrorIs DEF Photo!FailPending

LEMMA QueueStep ==
    ASSUME PhotosInv, Photo!Requeue \/ \E i \in DOMAIN jobs : Photo!Pop(i)
    PROVE  PhotosInv'
PROOF
<1> USE DEF PhotosInv
<1>1. CASE Photo!Requeue
  <2>1. /\ UNCHANGED <<files, requests, shot, Photo!receiver, acks>>
        /\ Photo!FailPending(hand[1].id) \/ UNCHANGED <<pending, result, clients>>
    BY <1>1 DEF Photo!Requeue
  <2> QED BY <2>1, PendingAnswered, FailPendingIs, NoAnswerIs
<1>2. ASSUME NEW i \in DOMAIN jobs, Photo!Pop(i) PROVE PhotosInv'
  <2>1. /\ UNCHANGED <<files, requests, shot, Photo!receiver, acks>>
        /\ Photo!FailPending(jobs[i].id) \/ UNCHANGED <<pending, result, clients>>
    BY <1>2 DEF Photo!Pop
  <2> QED BY <2>1, PendingAnswered, FailPendingIs, NoAnswerIs
<1> QED BY <1>1, <1>2

LEMMA GetAckStep ==
    ASSUME PhotosInv, NEW a \in acks, Photo!GetAck(a)
    PROVE  PhotosInv'
PROOF
<1> USE DEF PhotosInv
<1>1. acks' \subseteq acks /\ UNCHANGED <<files, requests, shot, Photo!receiver>>
  BY DEF Photo!GetAck
<1>2. CASE UNCHANGED <<pending, result, clients>>
  BY <1>1, <1>2, PendingAnswered, NoAnswerIs
<1>3. CASE pending' = pending \ {a.id} /\ Photo!Answer(a.id, IF a.ok THEN "captured" ELSE "error")
  <2>1. a.ok => a.id \in Safe
    BY DEF Vouched
  <2>2. Answering /\ clients' = clients \ {a.id}
    <3>1. CASE a.ok
      <4>1. Photo!Answer(a.id, "captured")
        BY <1>3, <3>1
      <4> QED BY <4>1, <3>1, <2>1, AnswerIs DEF Answering
    <3>2. CASE ~a.ok
      BY <1>3, <3>2, ErrorIs
    <3> QED BY <3>1, <3>2
  <2> QED BY <1>1, <1>3, <2>2, PendingAnswered
<1> QED BY <1>2, <1>3 DEF Photo!GetAck

LEMMA ExpireStep ==
    ASSUME PhotosInv, NEW id \in Ids, Photo!Expire(id) \/ Photo!TimePasses(id)
    PROVE  PhotosInv'
PROOF
<1> USE DEF PhotosInv
<1>1. CASE Photo!Expire(id)
  <2>1. /\ UNCHANGED <<files, requests, shot, Photo!receiver, acks>> /\ pending' = pending \ {id}
        /\ Photo!Answer(id, "timeout")
    BY <1>1 DEF Photo!Expire
  <2> QED BY <2>1, PendingAnswered, ErrorIs
<1>2. CASE Photo!TimePasses(id)
  <2>1. UNCHANGED <<files, requests, shot, Photo!receiver, acks, pending, result, clients>>
    BY <1>2 DEF Photo!TimePasses
  <2> QED BY <2>1, PendingAnswered, NoAnswerIs
<1> QED BY <1>1, <1>2

-----------------------------------------------------------------------------
\* The receiver

LEMMA SenderAlone ==
    ASSUME PhotosInv, UNCHANGED Photo!sender, photoQueue' \in Seq(Ids), Vouched'
    PROVE  PhotosInv'
PROOF
BY DEF PhotosInv, Photo!sender, PhotosTyped, Held, Unpended

LEMMA ResultKept ==
    ASSUME PhotosInv, UNCHANGED Photo!sender, Safe \subseteq Safe'
    PROVE  \A id \in Ids : result'[id] = "captured" => id \in Safe'
PROOF
BY DEF PhotosInv, Photo!sender, Vouched

LEMMA AcksKept ==
    ASSUME PhotosInv, Safe \subseteq Safe', acks' \subseteq acks
    PROVE  \A a \in acks' : a.ok => a.id \in Safe'
PROOF
BY DEF PhotosInv, Vouched

LEMMA AckIs ==
    ASSUME PhotosInv, NEW id, NEW ok \in BOOLEAN, Photo!Ack(id, ok), Safe \subseteq Safe',
           ok => id \in Safe'
    PROVE  \A a \in acks' : a.ok => a.id \in Safe'
PROOF
<1> DEFINE m == [id |-> id, ok |-> ok]
<1>1. acks' = acks \cup {m}
  BY DEF Photo!Ack
<1>2. m.id = id /\ m.ok = ok
  OBVIOUS
<1> HIDE DEF m
<1>3. ASSUME NEW a \in acks', a.ok PROVE a.id \in Safe'
  <2>1. CASE a \in acks
    BY <1>3, <2>1 DEF PhotosInv, Vouched
  <2>2. CASE a = m
    BY <1>2, <1>3, <2>2
  <2> QED BY <1>1, <2>1, <2>2
<1> QED BY <1>3

LEMMA ReceiveStep ==
    ASSUME PhotosInv, NEW id \in Ids, Photo!Receive(id)
    PROVE  PhotosInv'
PROOF
<1>1. Safe' = Safe /\ UNCHANGED <<Photo!sender, completed, stage>>
  BY DEF Photo!Receive, Safe
<1>2. \/ Photo!Ack(id, TRUE) /\ id \in completed /\ photoQueue' = photoQueue
      \/ Photo!Ack(id, FALSE) /\ photoQueue' = photoQueue
      \/ acks' = acks /\ photoQueue' = photoQueue
      \/ acks' = acks /\ photoQueue' = Append(photoQueue, id)
  BY DEF Photo!Receive
<1>3. \A a \in acks' : a.ok => a.id \in Safe'
  BY <1>1, <1>2, AckIs, AcksKept DEF PhotosInv, Vouched
<1>4. /\ photoQueue' \in Seq(Ids)
      /\ photoQueue # <<>> => photoQueue' # <<>> /\ Head(photoQueue') = Head(photoQueue)
  <2>1. CASE photoQueue' = photoQueue
    BY <2>1 DEF PhotosInv, PhotosTyped
  <2>2. CASE photoQueue' = Append(photoQueue, id)
    <3>1. photoQueue \in Seq(Ids)
      BY DEF PhotosInv, PhotosTyped
    <3>2. /\ Append(photoQueue, id) \in Seq(Ids) /\ Append(photoQueue, id) # <<>>
          /\ \A i \in 1..Len(photoQueue) : Append(photoQueue, id)[i] = photoQueue[i]
      BY <3>1, AppendProperties
    <3>3. photoQueue # <<>> => 1 \in 1..Len(photoQueue)
      BY <3>1, EmptySeq
    <3>4. photoQueue # <<>> => Append(photoQueue, id)[1] = photoQueue[1]
      BY <3>2, <3>3
    <3> QED BY <2>2, <3>1, <3>2, <3>4
  <2> QED BY <1>2, <2>1, <2>2
<1>5. Vouched'
  <2>1. stage' # Photo!NoOne => photoQueue' # <<>>
    BY <1>1, <1>4 DEF PhotosInv, Vouched
  <2>2. stage' \in {"placed", "done"} => Photo!At' \in Safe'
    BY <1>1, <1>4 DEF PhotosInv, Vouched, Photo!At, Photo!NoOne
  <2>3. completed' \subseteq Safe'
    BY <1>1 DEF PhotosInv, Vouched
  <2> QED BY <1>1, <1>3, <2>1, <2>2, <2>3, ResultKept DEF Vouched
<1> QED BY <1>1, <1>4, <1>5, SenderAlone

LEMMA StageStep ==
    ASSUME PhotosInv, Photo!Begin \/ Photo!Place \/ Photo!Remember \/ Photo!ReceiverRestarts
    PROVE  PhotosInv'
PROOF
<1>1. UNCHANGED <<Photo!sender, acks>> /\ Safe \subseteq Safe' /\ photoQueue' \in Seq(Ids)
  <2>1. photoQueue \in Seq(Ids) /\ <<>> \in Seq(Ids)
    BY EmptySeq DEF PhotosInv, PhotosTyped
  <2> QED BY <2>1 DEF Photo!Begin, Photo!Place, Photo!Remember, Photo!ReceiverRestarts, Safe
<1>2. /\ completed' \subseteq Safe'
      /\ stage' # Photo!NoOne => photoQueue' # <<>>
      /\ stage' \in {"placed", "done"} => Photo!At' \in Safe'
  <2>1. CASE Photo!Begin
    BY <2>1 DEF Photo!Begin, PhotosInv, Vouched, Safe, Photo!At, Photo!NoOne
  <2>2. CASE Photo!Place
    BY <2>2 DEF Photo!Place, PhotosInv, Vouched, Safe, Photo!At, Photo!NoOne
  <2>3. CASE Photo!Remember
    BY <2>3 DEF Photo!Remember, PhotosInv, Vouched, Safe, Photo!At, Photo!NoOne
  <2>4. CASE Photo!ReceiverRestarts
    BY <2>4 DEF Photo!ReceiverRestarts, Safe, Photo!NoOne
  <2> QED BY <2>1, <2>2, <2>3, <2>4
<1>3. Vouched'
  BY <1>1, <1>2, ResultKept, AcksKept DEF Vouched
<1> QED BY <1>1, <1>3, SenderAlone

LEMMA ReportPhotoStep ==
    ASSUME PhotosInv, Photo!Report
    PROVE  PhotosInv'
PROOF
<1>1. Safe' = Safe /\ UNCHANGED <<Photo!sender, completed>> /\ stage' = Photo!NoOne
  BY DEF Photo!Report, Safe
<1>2. photoQueue \in Seq(Ids) /\ photoQueue # <<>>
  BY DEF Photo!Report, PhotosInv, PhotosTyped, Vouched, Photo!NoOne
<1>3. photoQueue' \in Seq(Ids)
  BY <1>2, HeadTailProperties DEF Photo!Report
<1>4. \A a \in acks' : a.ok => a.id \in Safe'
  <2>1. (stage = "done") \in BOOLEAN /\ Photo!Ack(Photo!At, stage = "done")
            /\ (stage = "done" => Photo!At \in Safe')
    BY <1>1 DEF Photo!Report, PhotosInv, Vouched
  <2> QED BY <1>1, <2>1, AckIs
<1>5. Vouched'
  <2>1. completed' \subseteq Safe'
    BY <1>1 DEF PhotosInv, Vouched
  <2> QED BY <1>1, <1>4, <2>1, ResultKept DEF Vouched, Photo!NoOne
<1> QED BY <1>1, <1>3, <1>5, SenderAlone

LEMMA UploadStep ==
    ASSUME PhotosInv, NEW id \in Ids, Photo!Upload(id)
    PROVE  PhotosInv'
PROOF
<1>1. Safe \subseteq Safe' /\ UNCHANGED <<Photo!sender, acks, completed, stage, photoQueue>>
  BY DEF Photo!Upload, Safe
<1>2. completed' \subseteq Safe' /\ (stage' \in {"placed", "done"} => Photo!At' \in Safe')
      /\ (stage' # Photo!NoOne => photoQueue' # <<>>)
  BY <1>1 DEF PhotosInv, Vouched, Photo!At
<1>3. Vouched'
  BY <1>1, <1>2, ResultKept, AcksKept DEF Vouched
<1> QED BY <1>1, <1>3, SenderAlone DEF PhotosInv, PhotosTyped

LEMMA PhotosStep ==
    ASSUME PhotosInv, [Photo!Next]_Photo!vars
    PROVE  PhotosInv'
PROOF
<1>1. CASE Photo!Work
  BY <1>1, FramePendsStep, FramePublishesStep, QueueStep DEF Photo!Work
<1>2. CASE Photo!Begin \/ Photo!Place \/ Photo!Remember \/ Photo!ReceiverRestarts
  BY <1>2, StageStep
<1>3. CASE Photo!Report
  BY <1>3, ReportPhotoStep
<1>4. ASSUME NEW id \in Ids,
             \/ Photo!Submit(id) \/ Photo!FrameTakes(id) \/ Photo!TimePasses(id)
                    \/ Photo!Expire(id) \/ Photo!Receive(id) \/ Photo!Upload(id)
             \/ \E unusable \in BOOLEAN : Photo!Poll(id, unusable)
      PROVE  PhotosInv'
  BY <1>4, SubmitStep, FrameTakesStep, ExpireStep, ReceiveStep, UploadStep, PollStep
<1>5. ASSUME NEW a \in acks, Photo!GetAck(a) PROVE PhotosInv'
  BY <1>5, GetAckStep
<1>6. CASE UNCHANGED Photo!vars
  BY <1>6 DEF Photo!vars, Photo!sender, Photo!receiver, PhotosInv, PhotosTyped, Vouched, Held,
       Unpended, Safe, Photo!At
<1> QED BY <1>1, <1>2, <1>3, <1>4, <1>5, <1>6 DEF Photo!Next

\* Whatever is lost, repeated, restarted or too late: what is reported as captured is safe,
\* and the request of a client that waits is in somebody's hands.
THEOREM PhotosSafe == Photo!Spec => []PhotosStand
<1>1. Photo!Init => PhotosInv
  <2> SUFFICES ASSUME Photo!Init PROVE PhotosInv
    OBVIOUS
  <2>1. PhotosTyped
    BY EmptySeq DEF Photo!Init, PhotosTyped, Photo!NoOne
  <2>2. Vouched
    BY DEF Photo!Init, Vouched, Photo!NoOne
  <2>3. Held
    BY DEF Photo!Init, Held
  <2> QED BY <2>1, <2>2, <2>3 DEF PhotosInv
<1>2. PhotosInv /\ [Photo!Next]_Photo!vars => PhotosInv'
  BY PhotosStep
<1>3. PhotosInv => Photo!PhotosStand
  <2> SUFFICES ASSUME PhotosInv PROVE Photo!PhotosStand
    OBVIOUS
  <2>1. Unpended \subseteq {shot[i].id : i \in DOMAIN shot}
    BY DEF Unpended
  <2> QED BY <2>1 DEF PhotosInv, Vouched, Held, Safe, Photo!PhotosStand
<1> QED BY <1>1, <1>2, <1>3, PTL DEF Photo!Spec, PhotosStand

-----------------------------------------------------------------------------
(*****************************************************************************)
(* Keyframes on request and on schedule (ScheduledKeyframe).                 *)
(*****************************************************************************)

\* Times are numbers.
KeyframeConstants == Targets \subseteq Int /\ Offsets \subseteq Int /\ MaxU \in Int

\* As long as a request is pending, the target is one that was asked for with priority.
TargetAsked == Keyframe!IsPending => \E a \in asked : ~a.low /\ a.at = keyframeTarget
KeyframesInv ==
    /\ keyframeRequests \in Nat /\ applied \in Nat /\ observed \in Nat
    /\ keyframeTarget \in Int /\ offset \in Int
    /\ TargetAsked /\ Keyframe!KeyframesOnTime

LEMMA SenderTimeIs ==
    ASSUME KeyframeConstants, offset \in Int, NEW global \in Int
    PROVE  Keyframe!SenderTime(global) \in Int /\ (global = 0 => Keyframe!SenderTime(global) = 0)
PROOF
BY DEF Keyframe!SenderTime, KeyframeConstants

\* The merged target is one of the two, and not that of a preview beside a scheduled one.
LEMMA MergedIs ==
    ASSUME KeyframesInv, NEW asking \in Int, NEW low \in BOOLEAN, low => asking = 0
    PROVE  /\ Keyframe!Merged(asking, low) \in Int
           /\ \/ Keyframe!Merged(asking, low) = keyframeTarget
              \/ Keyframe!Merged(asking, low) = asking /\ ~(low /\ keyframeTarget # 0)
PROOF
BY DEF Keyframe!Merged, Keyframe!Earlier, KeyframesInv

LEMMA RequestStep ==
    ASSUME KeyframesInv, NEW asking \in Int, NEW low \in BOOLEAN, low => asking = 0,
           Keyframe!Request(asking, low)
    PROVE  KeyframesInv'
PROOF
<1> DEFINE a == [at |-> asking, low |-> low /\ Keyframe!IsPending /\ keyframeTarget # 0]
<1>1. /\ keyframeRequests' = keyframeRequests + 1
             /\ UNCHANGED <<applied, observed, offset, event, eventFor>>
      /\ keyframeTarget' = IF Keyframe!IsPending THEN Keyframe!Merged(asking, low) ELSE asking
      /\ asked' = (IF Keyframe!IsPending THEN asked ELSE {}) \cup {a}
  BY DEF Keyframe!Request
<1>2. a.at = asking /\ (a.low <=> low /\ Keyframe!IsPending /\ keyframeTarget # 0)
  OBVIOUS
<1> HIDE DEF a
<1>3. keyframeTarget' \in Int
  BY <1>1, MergedIs
<1>4. \E b \in asked' : ~b.low /\ b.at = keyframeTarget'
  <2>1. CASE ~Keyframe!IsPending
    BY <1>1, <1>2, <2>1
  <2>2. CASE Keyframe!IsPending /\ Keyframe!Merged(asking, low) = keyframeTarget
    <3>1. PICK b \in asked : ~b.low /\ b.at = keyframeTarget
      BY <2>2 DEF KeyframesInv, TargetAsked
    <3>2. b \in asked' /\ keyframeTarget' = keyframeTarget
      BY <1>1, <2>2
    <3> QED BY <3>1, <3>2
  <2>3. CASE Keyframe!IsPending /\ Keyframe!Merged(asking, low) = asking /\ ~(low /\ keyframeTarget # 0)
    <3>1. ~a.low /\ a.at = keyframeTarget' /\ a \in asked'
      BY <1>1, <1>2, <2>3
    <3> QED BY <3>1
  <2> QED BY <2>1, <2>2, <2>3, MergedIs
<1>5. Keyframe!KeyframesOnTime'
  BY <1>1 DEF KeyframesInv, Keyframe!KeyframesOnTime, Keyframe!Due
<1> QED BY <1>1, <1>3, <1>4, <1>5 DEF KeyframesInv, TargetAsked

LEMMA FrameStep ==
    ASSUME KeyframesInv, NEW ts, Keyframe!Frame(ts)
    PROVE  KeyframesInv'
PROOF
<1>1. /\ applied' = keyframeRequests /\ event' = [ts |-> ts, at |-> now] /\ eventFor' = asked
      /\ UNCHANGED <<keyframeRequests, observed, keyframeTarget, asked, offset>>
             /\ Keyframe!IsPending /\ Keyframe!Due(keyframeTarget, ts, now)
  BY DEF Keyframe!Frame
<1>2. event'.ts = ts /\ event'.at = now
  BY <1>1
<1>3. PICK a \in asked : ~a.low /\ a.at = keyframeTarget
  BY <1>1 DEF KeyframesInv, TargetAsked
<1>4. Keyframe!Due(a.at, event'.ts, event'.at)
  BY <1>1, <1>2, <1>3
<1>5. a \in eventFor' /\ ~a.low
  BY <1>1, <1>3
<1>6. Keyframe!KeyframesOnTime'
  BY <1>4, <1>5 DEF Keyframe!KeyframesOnTime, Keyframe!Due
<1> QED BY <1>1, <1>6 DEF KeyframesInv, TargetAsked, Keyframe!IsPending

LEMMA IdrStep ==
    ASSUME KeyframesInv, Keyframe!Idr
    PROVE  KeyframesInv'
PROOF
<1>1. /\ UNCHANGED <<keyframeRequests, applied, asked, event, eventFor, offset>>
      /\ observed < applied /\ observed' = applied
      /\ keyframeTarget' = IF applied >= keyframeRequests THEN 0 ELSE keyframeTarget
  BY DEF Keyframe!Idr
<1>2. TargetAsked'
  BY <1>1 DEF KeyframesInv, TargetAsked, Keyframe!IsPending
<1> QED BY <1>1, <1>2 DEF KeyframesInv, Keyframe!KeyframesOnTime, Keyframe!Due

LEMMA KeyframesStep ==
    ASSUME KeyframeConstants, KeyframesInv, [Keyframe!Next]_Keyframe!vars
    PROVE  KeyframesInv'
PROOF
<1>1. CASE Keyframe!Control
  <2>1. PICK global \in Targets \cup {0},
            low \in BOOLEAN : Keyframe!Request(Keyframe!SenderTime(global), low /\ global = 0)
    BY <1>1 DEF Keyframe!Control
  <2>2. global \in Int
    BY DEF KeyframeConstants
  <2>3. Keyframe!SenderTime(global) \in Int /\ (low /\ global = 0 => Keyframe!SenderTime(global) = 0)
    BY <2>2, SenderTimeIs DEF KeyframesInv
  <2>4. (low /\ global = 0) \in BOOLEAN
    OBVIOUS
  <2> QED BY <2>1, <2>3, <2>4, RequestStep
<1>2. CASE Keyframe!Frames
  BY <1>2, FrameStep DEF Keyframe!Frames
<1>3. CASE Keyframe!OwnIdr \/ Keyframe!ForcedIdr
  BY <1>3, IdrStep DEF Keyframe!OwnIdr, Keyframe!ForcedIdr
<1>4. CASE Keyframe!LateIdr \/ Keyframe!TimePasses \/ Keyframe!ClockChanges
  <2>1. UNCHANGED <<keyframeRequests, applied, observed, keyframeTarget, asked, event, eventFor>>
            /\ offset' \in Int
    BY <1>4 DEF Keyframe!LateIdr, Keyframe!TimePasses, Keyframe!ClockChanges, KeyframesInv,
         KeyframeConstants
  <2> QED BY <2>1 DEF KeyframesInv, TargetAsked, Keyframe!IsPending, Keyframe!KeyframesOnTime,
       Keyframe!Due
<1>5. CASE UNCHANGED Keyframe!vars
  BY <1>5 DEF Keyframe!vars, KeyframesInv, TargetAsked, Keyframe!IsPending,
       Keyframe!KeyframesOnTime, Keyframe!Due
<1> QED BY <1>1, <1>2, <1>3, <1>4, <1>5 DEF Keyframe!Next

\* However requests are merged, repeated and lost: the encoder is told with a frame only
\* when somebody asked for a key frame at that frame's time, or at a time long over.
THEOREM KeyframesAsked == ASSUME KeyframeConstants PROVE Keyframe!Spec => []KeyframesOnTime
<1>1. Keyframe!Init => KeyframesInv
  BY DEF Keyframe!Init, KeyframesInv, TargetAsked, Keyframe!IsPending, Keyframe!KeyframesOnTime,
       KeyframeConstants, Keyframe!NoClock
<1>2. KeyframesInv /\ [Keyframe!Next]_Keyframe!vars => KeyframesInv'
  BY KeyframesStep
<1>3. KeyframesInv => Keyframe!KeyframesOnTime
  BY DEF KeyframesInv
<1> QED BY <1>1, <1>2, <1>3, PTL DEF Keyframe!Spec, KeyframesOnTime

-----------------------------------------------------------------------------
(*****************************************************************************)
(* The cameras of a sender (CameraRuntime).                                   *)
(*****************************************************************************)

LEMMA SizeIs == \A S : Runtime!Cardinality(S) = Cardinality(S)
PROOF
BY DEF Runtime!Cardinality, Cardinality

\* Devices have numbers, and a configured camera the slot of its device.
RuntimeConstants ==
    /\ Devices \subseteq Nat \ {0} /\ Configured \subseteq Devices
    /\ NumSlots \in Nat /\ Configured \subseteq Runtime!Slots
    /\ MaxActive \in Nat /\ RestartAttempts \in Nat

LEMMA LeastSlot ==
    ASSUME NEW S \in SUBSET Nat, S # {}
    PROVE  \E s \in S : \A t \in S : s <= t
PROOF
<1>1. PICK m \in S : \A n \in S : <<n, m>> \notin OpToRel(<, Nat)
  BY NatLessThanWellFounded, WFMin, Zenon
<1>2. ASSUME NEW n \in S PROVE m <= n
  <2>1. m \in Nat /\ n \in Nat
    BY <1>2
  <2>2. ~(n < m)
    BY <1>1, <1>2, <2>1 DEF OpToRel
  <2> QED BY <2>1, <2>2
<1> QED BY <1>2

Cameras == [device : Devices \cup {Runtime!None}, worker : {"absent", "loop", "failing", "exited"},
            online : BOOLEAN, live : BOOLEAN, announced : BOOLEAN, attempts : Nat, flaps : Nat,
            waiting : BOOLEAN, warm : {"early", "due", "overdue", "over"}]

\* A configured camera keeps its device; another one has a device that is not configured.
Assigned ==
    \A s \in Runtime!Slots : IF s \in Configured THEN camera[s].device = s
                     ELSE camera[s].device \notin Configured
\* The further cameras that are online have devices of their own.
Apart ==
    \A s, t \in Runtime!Slots \ Configured :
        camera[s].online /\ camera[t].online /\ camera[s].device = camera[t].device => s = t
\* A further camera is only started where it does not exceed the limit.
Within == Cardinality(Runtime!Active) <= MaxActive \/ Runtime!Active = Configured

RuntimeInv == camera \in [Runtime!Slots -> Cameras] /\ Assigned /\ Apart /\ Within

-----------------------------------------------------------------------------
\* What a step may do to the cameras: the process begins anew, every camera keeps its
\* device and only configured ones come online, or the scan starts a further one.
Steady ==
    /\ camera' \in [Runtime!Slots -> Cameras]
    /\ \A s \in Runtime!Slots :
          /\ camera'[s].device = camera[s].device
          /\ camera'[s].online => camera[s].online \/ s \in Configured
Opens(s, d) ==
    /\ s \in Runtime!FreeSlots /\ d \in Devices
    /\ ~Runtime!Claimed(d) /\ ~(Cardinality(Runtime!Active) >= MaxActive)
    /\ camera' = [camera EXCEPT ![s] = Runtime!Started([Runtime!NoCamera EXCEPT !.device = d,
           !.worker = "loop"])]

LEMMA ActiveFinite ==
    ASSUME RuntimeConstants
    PROVE  /\ IsFiniteSet(Runtime!Active) /\ Cardinality(Runtime!Active) \in Nat
           /\ \A S \in SUBSET Runtime!Active : IsFiniteSet(S)
                  /\ Cardinality(S) <= Cardinality(Runtime!Active) /\ Cardinality(S) \in Nat
PROOF
<1>1. IsFiniteSet(Runtime!Slots)
  BY FS_Interval DEF RuntimeConstants, Runtime!Slots
<1>2. Runtime!Active \subseteq Runtime!Slots
  BY DEF Runtime!Active
<1>3. IsFiniteSet(Runtime!Active)
  BY <1>1, <1>2, FS_Subset
<1>4. Cardinality(Runtime!Active) \in Nat
  BY <1>3, FS_CardinalityType
<1>5. ASSUME NEW S \in SUBSET Runtime!Active
      PROVE  IsFiniteSet(S) /\ Cardinality(S) <= Cardinality(Runtime!Active) /\ Cardinality(S) \in Nat
  <2>1. IsFiniteSet(S) /\ Cardinality(S) <= Cardinality(Runtime!Active)
    BY <1>3, FS_Subset
  <2> QED BY <2>1, FS_CardinalityType
<1> QED BY <1>3, <1>4, <1>5

LEMMA SteadyInv ==
    ASSUME RuntimeConstants, RuntimeInv, Steady
    PROVE  RuntimeInv'
PROOF
<1>1. camera' \in [Runtime!Slots -> Cameras]
  BY DEF Steady
<1>2. Assigned'
  BY DEF Steady, RuntimeInv, Assigned
<1>3. Apart'
  BY DEF Steady, RuntimeInv, Apart
<1>4. Runtime!Active' \subseteq Runtime!Active /\ Configured \subseteq Runtime!Active'
  BY DEF Steady, Runtime!Active, Runtime!Reconnects, RuntimeConstants
<1>5. Within'
  <2>1. CASE Runtime!Active = Configured
    <3>1. Runtime!Active' = Configured
      BY <1>4, <2>1
    <3> QED BY <3>1 DEF Within
  <2>2. CASE Cardinality(Runtime!Active) <= MaxActive
    <3>1. Cardinality(Runtime!Active') <= Cardinality(Runtime!Active)
              /\ Cardinality(Runtime!Active') \in Nat
      BY <1>4, ActiveFinite
    <3>2. Cardinality(Runtime!Active') <= MaxActive
      BY <2>2, <3>1, ActiveFinite DEF RuntimeConstants
    <3> QED BY <3>2 DEF Within
  <2> QED BY <2>1, <2>2 DEF RuntimeInv, Within
<1> QED BY <1>1, <1>2, <1>3, <1>5 DEF RuntimeInv

LEMMA InitRuntime ==
    ASSUME RuntimeConstants
    PROVE  /\ Runtime!StartCameras \in [Runtime!Slots -> Cameras]
           /\ \A s \in Runtime!Slots :
                  /\ Runtime!StartCameras[s].device = IF s \in Configured THEN s ELSE Runtime!None
                  /\ ~Runtime!StartCameras[s].online
PROOF
BY DEF Runtime!StartCameras, Runtime!ConfiguredCamera, Runtime!NoCamera, Cameras,
     RuntimeConstants, Runtime!None

LEMMA AnewInv ==
    ASSUME RuntimeConstants, camera = Runtime!StartCameras
    PROVE  RuntimeInv
PROOF
<1>1. camera \in [Runtime!Slots -> Cameras] /\ Assigned /\ Apart
  BY InitRuntime DEF Assigned, Apart, RuntimeConstants, Runtime!None
<1>2. Runtime!Active = Configured
  BY InitRuntime DEF Runtime!Active, Runtime!Reconnects, RuntimeConstants
<1> QED BY <1>1, <1>2 DEF RuntimeInv, Within

LEMMA AnewInvPrimed ==
    ASSUME RuntimeConstants, camera' = Runtime!StartCameras
    PROVE  RuntimeInv'
PROOF
<1>1. camera' \in [Runtime!Slots -> Cameras] /\ Assigned' /\ Apart'
  BY InitRuntime DEF Assigned, Apart, RuntimeConstants, Runtime!None
<1>2. Runtime!Active' = Configured
  BY InitRuntime DEF Runtime!Active, Runtime!Reconnects, RuntimeConstants
<1> QED BY <1>1, <1>2 DEF RuntimeInv, Within

LEMMA OpensInv ==
    ASSUME RuntimeConstants, RuntimeInv, NEW s, NEW d, Opens(s, d)
    PROVE  RuntimeInv'
PROOF
<1>1. s \in Runtime!Slots /\ s \notin Configured /\ d \in Devices
  BY DEF Opens, Runtime!FreeSlots, Runtime!Reconnects
<1> DEFINE new == Runtime!Started([Runtime!NoCamera EXCEPT !.device = d, !.worker = "loop"])
<1>2. new \in Cameras /\ new.device = d
  BY <1>1 DEF Runtime!Started, Runtime!NoCamera, Cameras, Runtime!None
<1> HIDE DEF new
<1>3. camera' = [camera EXCEPT ![s] = new]
  BY DEF Opens, new
<1>4. /\ camera' \in [Runtime!Slots -> Cameras] /\ camera'[s].device = d
      /\ \A t \in Runtime!Slots \ {s} : camera'[t] = camera[t]
  BY <1>1, <1>2, <1>3 DEF RuntimeInv
<1>5. d \notin Configured
  <2>1. SUFFICES ASSUME d \in Configured PROVE FALSE
    OBVIOUS
  <2>2. d \in Runtime!Slots /\ camera[d].device = d /\ Runtime!Reconnects(d)
    BY <2>1 DEF RuntimeConstants, RuntimeInv, Assigned, Runtime!Reconnects
  <2> QED BY <2>2 DEF Opens, Runtime!Claimed
<1>6. \A t \in Runtime!Slots : camera[t].online => camera[t].device # d
  BY DEF Opens, Runtime!Claimed
<1>7. Assigned'
  BY <1>1, <1>4, <1>5 DEF RuntimeInv, Assigned
<1>8. Apart'
  BY <1>4, <1>6 DEF RuntimeInv, Apart
<1>9. Runtime!Active' \subseteq Runtime!Active \cup {s}
  BY <1>4 DEF Runtime!Active, Runtime!Reconnects
<1>10. IsFiniteSet(Runtime!Active \cup {s})
           /\ Cardinality(Runtime!Active \cup {s}) <= Cardinality(Runtime!Active) + 1
       /\ Cardinality(Runtime!Active \cup {s}) \in Nat
  <2>1. IsFiniteSet(Runtime!Active) /\ Cardinality(Runtime!Active) \in Nat
    BY ActiveFinite
  <2>2. /\ IsFiniteSet(Runtime!Active \cup {s})
        /\ Cardinality(Runtime!Active \cup {s}) =
               IF s \in Runtime!Active THEN Cardinality(Runtime!Active)
                   ELSE Cardinality(Runtime!Active) + 1
    BY <2>1, FS_AddElement
  <2> QED BY <2>1, <2>2
<1>11. Cardinality(Runtime!Active') <= Cardinality(Runtime!Active \cup {s})
           /\ Cardinality(Runtime!Active') \in Nat
  <2>1. IsFiniteSet(Runtime!Active')
            /\ Cardinality(Runtime!Active') <= Cardinality(Runtime!Active \cup {s})
    BY <1>9, <1>10, FS_Subset
  <2> QED BY <2>1, FS_CardinalityType
<1>12. Cardinality(Runtime!Active') <= MaxActive
  <2>1. ~(Cardinality(Runtime!Active) >= MaxActive) /\ Cardinality(Runtime!Active) \in Nat
            /\ MaxActive \in Nat
    BY ActiveFinite DEF Opens, RuntimeConstants
  <2> QED BY <2>1, <1>10, <1>11
<1> QED BY <1>4, <1>7, <1>8, <1>12 DEF RuntimeInv, Within

-----------------------------------------------------------------------------
\* The steps, one by one

\* A camera replaced by one with the same device that is online only where allowed.
LEMMA OneCamera ==
    ASSUME RuntimeInv, NEW s \in Runtime!Slots, NEW c \in Cameras, c.device = camera[s].device,
           c.online => camera[s].online \/ s \in Configured,
           camera' = [camera EXCEPT ![s] = c]
    PROVE  Steady
PROOF
<1>1. camera' \in [Runtime!Slots -> Cameras] /\ camera'[s] = c
          /\ \A t \in Runtime!Slots \ {s} : camera'[t] = camera[t]
  BY DEF RuntimeInv
<1> QED BY <1>1 DEF Steady

LEMMA Unchanged ==
    ASSUME RuntimeInv, camera' = camera
    PROVE  Steady
PROOF
BY DEF RuntimeInv, Steady

LEMMA StoppedIs ==
    ASSUME NEW c \in Cameras
    PROVE  Runtime!Stopped(c) \in Cameras /\ Runtime!Stopped(c).device = c.device
               /\ ~Runtime!Stopped(c).online
PROOF
BY DEF Runtime!Stopped, Cameras

LEMMA StartedIs ==
    ASSUME NEW c \in Cameras
    PROVE  Runtime!Started(c) \in Cameras /\ Runtime!Started(c).device = c.device
PROOF
BY DEF Runtime!Started, Cameras

LEMMA CameraAt ==
    ASSUME RuntimeInv, NEW s \in Runtime!Slots
    PROVE  camera[s] \in Cameras
PROOF
BY DEF RuntimeInv

LEMMA UnplugStep ==
    ASSUME RuntimeInv, NEW d \in Devices, Runtime!Unplug(d)
    PROVE  Steady
PROOF
<1>1. ASSUME NEW c \in Cameras
      PROVE  /\ [c EXCEPT !.live = FALSE] \in Cameras /\ [c EXCEPT !.live = FALSE].device = c.device
             /\ [c EXCEPT !.live = FALSE].online = c.online
  BY <1>1 DEF Cameras
<1>2. camera' = [s \in Runtime!Slots |-> IF camera[s].device = d
          THEN [camera[s] EXCEPT !.live = FALSE] ELSE camera[s]]
  BY DEF Runtime!Unplug
<1>3. ASSUME NEW s \in Runtime!Slots
      PROVE  /\ camera'[s] \in Cameras /\ camera'[s].device = camera[s].device
             /\ camera'[s].online = camera[s].online
  BY <1>1, <1>2, CameraAt
<1>4. camera' \in [Runtime!Slots -> Cameras]
  BY <1>2, <1>3
<1> QED BY <1>3, <1>4 DEF Steady

LEMMA RetryFailsStep ==
    ASSUME RuntimeConstants, RuntimeInv, NEW s \in Runtime!Slots, Runtime!RetryFails(s)
    PROVE  Steady \/ camera' = Runtime!StartCameras
PROOF
<1> DEFINE attempts == IF camera[s].attempts < RestartAttempts THEN camera[s].attempts + 1
               ELSE RestartAttempts
<1> DEFINE c == [Runtime!Stopped(camera[s]) EXCEPT !.attempts = attempts, !.waiting = TRUE]
<1>1. camera' = Runtime!StartCameras \/ camera' = [camera EXCEPT ![s] = c]
  BY CameraAt DEF Runtime!RetryFails, Runtime!Restart, RuntimeInv
<1>2. attempts \in Nat
  BY CameraAt DEF Cameras, RuntimeConstants
<1> HIDE DEF attempts
<1>3. Runtime!Stopped(camera[s]) \in Cameras
          /\ Runtime!Stopped(camera[s]).device = camera[s].device /\ ~Runtime!Stopped(camera[s]).online
  BY CameraAt, StoppedIs
<1>4. c \in Cameras /\ c.device = camera[s].device /\ ~c.online
  BY <1>2, <1>3 DEF Cameras
<1> QED BY <1>1, <1>4, OneCamera

LEMMA WorkerStep ==
    ASSUME RuntimeConstants, RuntimeInv, NEW s \in Runtime!Slots,
           Runtime!Worker(s) \/ Runtime!FlapWindowPasses(s)
    PROVE  Steady \/ camera' = Runtime!StartCameras
PROOF
<1> USE CameraAt
<1>1. CASE Runtime!RetryReconnect(s)
  <2>1. CASE camera' = [camera EXCEPT ![s] = Runtime!Started(camera[s])]
    <3>1. s \in Configured /\ Runtime!Started(camera[s]) \in Cameras
              /\ Runtime!Started(camera[s]).device = camera[s].device
      BY <1>1, StartedIs DEF Runtime!RetryReconnect, Runtime!Reconnects
    <3> QED BY <2>1, <3>1, OneCamera
  <2>2. CASE Runtime!RetryFails(s)
    BY <2>2, RetryFailsStep
  <2> QED BY <1>1, <2>1, <2>2 DEF Runtime!RetryReconnect, RuntimeInv
<1>2. CASE Runtime!WorkerExits(s)
  <2> DEFINE c == [camera[s] EXCEPT !.worker = "exited"]
  <2>1. camera' = [camera EXCEPT ![s] = c]
    BY <1>2 DEF Runtime!WorkerExits, RuntimeInv
  <2>2. c \in Cameras /\ c.device = camera[s].device /\ c.online = camera[s].online
    BY DEF Cameras
  <2> QED BY <2>1, <2>2, OneCamera
<1>3. CASE Runtime!MarkDisconnected(s)
  <2> DEFINE flaps == IF flapEvents > 0 THEN camera[s].flaps + 1 ELSE 0
  <2> DEFINE c == [camera[s] EXCEPT !.flaps = flaps, !.attempts = 0, !.worker = "failing"]
  <2>1. camera' = Runtime!StartCameras \/ camera' = [camera EXCEPT ![s] = c]
    BY <1>3 DEF Runtime!MarkDisconnected, Runtime!Restart, RuntimeInv, Cameras
  <2>2. flaps \in Nat
    BY DEF Cameras
  <2> HIDE DEF flaps
  <2>3. c \in Cameras /\ c.device = camera[s].device /\ c.online = camera[s].online
    BY <2>2 DEF Cameras
  <2> QED BY <2>1, <2>3, OneCamera
<1>4. CASE Runtime!StopCamera(s)
  <2> DEFINE c == [Runtime!Stopped(camera[s]) EXCEPT !.worker = "loop",
                 !.waiting = Runtime!Reconnects(s)]
  <2>1. camera' = [camera EXCEPT ![s] = c]
    BY <1>4 DEF Runtime!StopCamera, RuntimeInv
  <2>2. Runtime!Stopped(camera[s]) \in Cameras
            /\ Runtime!Stopped(camera[s]).device = camera[s].device
                   /\ ~Runtime!Stopped(camera[s]).online
    BY StoppedIs
  <2>3. Runtime!Reconnects(s) \in BOOLEAN
    BY DEF Runtime!Reconnects
  <2>4. c \in Cameras /\ c.device = camera[s].device /\ ~c.online
    BY <2>2, <2>3 DEF Cameras
  <2> QED BY <2>1, <2>4, OneCamera
<1>5. CASE Runtime!Frame(s)
  <2>1. PICK warm \in Runtime!Warmed(camera[s]) :
            camera' = [camera EXCEPT ![s] = [@ EXCEPT !.warm = warm, !.announced = warm = "over"
                \/ camera[s].announced]]
    BY <1>5 DEF Runtime!Frame
  <2> DEFINE told == warm = "over" \/ camera[s].announced
  <2> DEFINE c == [camera[s] EXCEPT !.warm = warm, !.announced = told]
  <2>2. camera' = [camera EXCEPT ![s] = c]
    BY <2>1 DEF RuntimeInv, Cameras
  <2>3. warm \in {"early", "due", "overdue", "over"}
    BY DEF Runtime!Warmed, Cameras
  <2>4. told \in BOOLEAN
    BY DEF Cameras
  <2> HIDE DEF told
  <2>5. c \in Cameras /\ c.device = camera[s].device /\ c.online = camera[s].online
    BY <2>3, <2>4 DEF Cameras
  <2> QED BY <2>2, <2>5, OneCamera
<1>6. CASE Runtime!WarmUpPasses(s)
  <2> DEFINE warm == IF camera[s].warm = "early" THEN "due" ELSE "overdue"
  <2> DEFINE c == [camera[s] EXCEPT !.warm = warm]
  <2>1. camera' = [camera EXCEPT ![s] = c]
    BY <1>6 DEF Runtime!WarmUpPasses, RuntimeInv, Cameras
  <2>2. warm \in {"early", "due", "overdue", "over"}
    OBVIOUS
  <2> HIDE DEF warm
  <2>3. c \in Cameras /\ c.device = camera[s].device /\ c.online = camera[s].online
    BY <2>2 DEF Cameras
  <2> QED BY <2>1, <2>3, OneCamera
<1>7. CASE Runtime!DelayPasses(s)
  <2> DEFINE c == [camera[s] EXCEPT !.waiting = FALSE]
  <2>1. camera' = [camera EXCEPT ![s] = c]
    BY <1>7 DEF Runtime!DelayPasses, RuntimeInv
  <2>2. c \in Cameras /\ c.device = camera[s].device /\ c.online = camera[s].online
    BY DEF Cameras
  <2> QED BY <2>1, <2>2, OneCamera
<1>8. CASE Runtime!FlapWindowPasses(s)
  <2> DEFINE c == [camera[s] EXCEPT !.flaps = 0]
  <2>1. camera' = [camera EXCEPT ![s] = c]
    BY <1>8 DEF Runtime!FlapWindowPasses, RuntimeInv
  <2>2. c \in Cameras /\ c.device = camera[s].device /\ c.online = camera[s].online
    BY DEF Cameras
  <2> QED BY <2>1, <2>2, OneCamera
<1> QED BY <1>1, <1>2, <1>3, <1>4, <1>5, <1>6, <1>7, <1>8 DEF Runtime!Worker

LEMMA ScanStep ==
    ASSUME RuntimeConstants, RuntimeInv, NEW d \in Devices, Runtime!ScanOne(d)
    PROVE  Steady \/ \E s \in Runtime!Slots : Opens(s, d)
PROOF
<1>1. CASE camera' = camera
  BY <1>1, Unchanged
<1>2. CASE camera' # camera
  <2> DEFINE s == CHOOSE s \in Runtime!FreeSlots : \A t \in Runtime!FreeSlots : s <= t
  <2>1. /\ ~Runtime!Claimed(d) /\ ~(Cardinality(Runtime!Active) >= MaxActive) /\ Runtime!FreeSlots # {}
        /\ camera' = [camera EXCEPT ![s] = Runtime!Started([Runtime!NoCamera EXCEPT !.device = d,
               !.worker = "loop"])]
    BY <1>2, SizeIs DEF Runtime!ScanOne
  <2>2. Runtime!FreeSlots \in SUBSET Nat
    BY DEF Runtime!FreeSlots, Runtime!Slots, RuntimeConstants
  <2>3. \E t \in Runtime!FreeSlots : \A u \in Runtime!FreeSlots : t <= u
    BY <2>1, <2>2, LeastSlot
  <2>4. s \in Runtime!FreeSlots
    BY <2>3
  <2> HIDE DEF s
  <2>5. Opens(s, d)
    BY <2>1, <2>4 DEF Opens
  <2>6. s \in Runtime!Slots
    BY <2>4 DEF Runtime!FreeSlots
  <2> QED BY <2>5, <2>6
<1> QED BY <1>1, <1>2

LEMMA ReportStep ==
    ASSUME RuntimeInv, Runtime!SendReport
    PROVE  Steady
PROOF
<1>1. CASE camera' = camera
  BY <1>1, Unchanged
<1>2. CASE camera' # camera
  <2>1. PICK n : n = message[1].slot
    OBVIOUS
  <2>2. camera' = [camera EXCEPT ![n].announced = TRUE]
    BY <1>2, <2>1 DEF Runtime!SendReport
  <2>3. ASSUME NEW c \in Cameras
        PROVE  /\ [c EXCEPT !.announced = TRUE] \in Cameras
               /\ [c EXCEPT !.announced = TRUE].device = c.device
               /\ [c EXCEPT !.announced = TRUE].online = c.online
    BY <2>3 DEF Cameras
  <2>4. /\ DOMAIN camera' = Runtime!Slots /\ camera' = [s \in Runtime!Slots |-> camera'[s]]
        /\ \A s \in Runtime!Slots : camera'[s] = IF s = n
               THEN [camera[s] EXCEPT !.announced = TRUE] ELSE camera[s]
    BY <2>2 DEF RuntimeInv
  <2>5. ASSUME NEW s \in Runtime!Slots
        PROVE  camera'[s] \in Cameras /\ camera'[s].device = camera[s].device
                   /\ camera'[s].online = camera[s].online
    BY <2>3, <2>4, CameraAt
  <2>6. camera' \in [Runtime!Slots -> Cameras]
    BY <2>4, <2>5
  <2> QED BY <2>5, <2>6 DEF Steady
<1> QED BY <1>1, <1>2

LEMMA RuntimeStep ==
    ASSUME RuntimeConstants, RuntimeInv, [Runtime!Next]_Runtime!vars
    PROVE  RuntimeInv'
PROOF
<1>1. CASE Steady
  BY <1>1, SteadyInv
<1>2. CASE camera' = Runtime!StartCameras
  BY <1>2, AnewInvPrimed
<1>3. CASE camera' = camera
  BY <1>1, <1>3, Unchanged
<1>4. ASSUME NEW d \in Devices, Runtime!Unplug(d) \/ Runtime!Plug(d)
                 \/ Runtime!CoolDownPasses(d) PROVE RuntimeInv'
  BY <1>4, <1>1, <1>3, UnplugStep DEF Runtime!Plug, Runtime!CoolDownPasses
<1>5. CASE Runtime!SdkBreaks \/ Runtime!GuardStops
  BY <1>5, <1>2, <1>3 DEF Runtime!SdkBreaks, Runtime!GuardStops, Runtime!Restart
<1>6. ASSUME NEW s \in Runtime!Slots, Runtime!Worker(s) \/ Runtime!FlapWindowPasses(s) PROVE RuntimeInv'
  BY <1>6, <1>1, <1>2, WorkerStep
<1>7. CASE Runtime!MainLoop
  <2>1. CASE Runtime!SendReport
    BY <2>1, <1>1, ReportStep
  <2>2. ASSUME NEW d \in Devices, Runtime!ScanOne(d) PROVE RuntimeInv'
    <3>1. ASSUME NEW s \in Runtime!Slots, Opens(s, d) PROVE RuntimeInv'
      BY <3>1, OpensInv
    <3> QED BY <2>2, <3>1, <1>1, ScanStep
  <2>3. CASE Runtime!BuildReport \/ Runtime!ScanBegins \/ Runtime!ScanEnds
    BY <2>3, <1>3 DEF Runtime!BuildReport, Runtime!ScanBegins, Runtime!ScanEnds
  <2> QED BY <1>7, <2>1, <2>2, <2>3 DEF Runtime!MainLoop
<1>8. CASE UNCHANGED Runtime!vars
  BY <1>8, <1>3 DEF Runtime!vars
<1> QED BY <1>4, <1>5, <1>6, <1>7, <1>8 DEF Runtime!Next

\* Whatever is unplugged, found again, restarted or scanned: cameras that are online have
\* devices of their own, and further cameras stay within the limit.
THEOREM CamerasApart == ASSUME RuntimeConstants PROVE Runtime!Spec => []OneCameraPerDevice
<1>1. Runtime!Init => RuntimeInv
  BY AnewInv DEF Runtime!Init
<1>2. RuntimeInv /\ [Runtime!Next]_Runtime!vars => RuntimeInv'
  BY RuntimeStep
<1>3. RuntimeInv => Runtime!OneCameraPerDevice
  <2> SUFFICES ASSUME RuntimeInv PROVE Runtime!OneCameraPerDevice
    OBVIOUS
  <2> DEFINE online == {s \in Runtime!Slots : camera[s].online}
  <2>1. ASSUME NEW s \in Runtime!Slots, NEW t \in Runtime!Slots, camera[s].online, camera[t].online,
               camera[s].device = camera[t].device
        PROVE  s = t
    BY <2>1 DEF RuntimeInv, Assigned, Apart
  <2>2. online \in SUBSET Runtime!Active
    BY DEF Runtime!Active
  <2>3. Cardinality(online) <= MaxActive \/ online \subseteq Configured
    <3>1. CASE Runtime!Active = Configured
      BY <3>1, <2>2
    <3>2. CASE Cardinality(Runtime!Active) <= MaxActive
      <4> HIDE DEF online
      <4>1. /\ Cardinality(online) <= Cardinality(Runtime!Active) /\ Cardinality(online) \in Nat
            /\ Cardinality(Runtime!Active) \in Nat /\ MaxActive \in Nat
        BY <2>2, ActiveFinite DEF RuntimeConstants
      <4> QED BY <3>2, <4>1
    <3> QED BY <3>1, <3>2 DEF RuntimeInv, Within
  <2> QED BY <2>1, <2>3, SizeIs DEF Runtime!OneCameraPerDevice
<1> QED BY <1>1, <1>2, <1>3, PTL DEF Runtime!Spec, OneCameraPerDevice
=============================================================================
