---------------------- MODULE RecordingUploaderProofs ----------------------
(***************************************************************************)
(* Proofs about RecordingUploader for every set of media files, every          *)
(* configuration and any number of crashes, failures and names: no step loses   *)
(* the last whole copy of the segment, what is published is whole, clean and     *)
(* published under one name, and a copy that is kept can be found again.         *)
(***************************************************************************)
EXTENDS RecordingUploader, TLAPS

\* A directory that is there has the entry "dir"; one that is not has none.
Formed ==
    /\ capture # Absent => Exists(capture)
    /\ \A n \in Names : dest[n] # Absent => Exists(dest[n])

WholeDest == \E n \in Names : Whole(dest[n])

\* Whatever is in the queue or has been moved out of it, there is a whole copy of
\* the segment that the deletion of the local copy does not touch.
Copies ==
    /\ Exists(capture) => Whole(capture) \/ WholeDest
    /\ (\E n \in Names : Exists(dest[n])) => WholeDest
    /\ NoLoss

\* Unless a deletion was interrupted, every directory is whole.
Uncut ==
    ~TornDeletes =>
        /\ local # Absent => Whole(local)
        /\ Exists(capture) => Whole(capture)
        /\ \A n \in Names : Exists(dest[n]) => Whole(dest[n])

\* Which markers a capture and a moved directory may hold.
Clean ==
    /\ capture \cap {"ready", "staged", "cached", "uploaded"} = {}
    /\ \A n \in Names : dest[n] \cap {"staged", "cached", "uploaded"} = {}
    /\ ReadyIsClean

Data == Formed /\ Copies /\ Uncut /\ Clean

\* What holds where run_once stands.
Places ==
    /\ In("journal") => proc.at \in {"enter", "recover", "clean", "unjournal"}
    /\ In("journal") /\ proc.at # "enter" => journal # NoJournal
    /\ proc.at \in {"pending", "incomplete", "move"} =>
           Exists(capture) /\ ~Exists(dest[journal])
    /\ At("clean") => Exists(dest[journal])
    /\ At("retain") => Exists(capture)
    /\ At("drop") => Exists(dest[0])
    /\ At("remove") => Exists(capture) \/ \E n \in Names : Exists(dest[n])
    /\ proc.at \in {"copy", "retain", "release", "mark"} => local # Absent

IInv == TypeOK /\ Places /\ Data

-----------------------------------------------------------------------------
LEMMA InitIInv == Init => IInv
<1> SUFFICES ASSUME Init PROVE IInv
  OBVIOUS
<1> USE UploaderAssumption DEF Init, Files, Names, Absent, Exists, Whole
<1>1. TypeOK
  BY DEF TypeOK, Markers, NoJournal, Round, Steps
<1>2. Places
  BY DEF Places, In, At, Round
<1>3. Data
  BY DEF Data, Formed, Copies, WholeDest, NoLoss, Uncut, Clean, ReadyIsClean, Published
<1> QED
  BY <1>1, <1>2, <1>3 DEF IInv

\* The phases follow each other and stay phases.
LEMMA NextPhaseType ==
    ASSUME TypeOK, NextPhase
    PROVE  proc' \in [phase : DOMAIN Round, at : Steps] /\ proc'.at = "enter"
<1>1. DOMAIN Round = 1 .. 8 /\ Len(Round) = 8
  BY DEF Round
<1>2. proc.phase \in 1 .. 8
  BY <1>1 DEF TypeOK
<1>3. (proc.phase % 8) + 1 \in 1 .. 8
  BY <1>2
<1> QED
  BY <1>1, <1>3 DEF NextPhase, Steps

\* Going on within a phase.
LEMMA GotoType ==
    ASSUME TypeOK, NEW at \in Steps, Goto(at)
    PROVE  /\ proc' \in [phase : DOMAIN Round, at : Steps]
           /\ proc'.at = at /\ proc'.phase = proc.phase
BY DEF TypeOK, Goto

\* A step that leaves the directories alone keeps what holds of them.
LEMMA DataKept ==
    ASSUME Data, UNCHANGED <<local, capture, dest, config>>
    PROVE  Data'
BY DEF Data, Formed, Copies, WholeDest, NoLoss, Uncut, TornDeletes, Clean,
       ReadyIsClean, Published

\* At the beginning of a phase nothing is under way.
LEMMA Entered ==
    ASSUME proc'.at = "enter" PROVE Places'
BY DEF Places, At

-----------------------------------------------------------------------------
\* Decisions: nothing but the place and the journal changes.

LEMMA RecoverPendingStep ==
    ASSUME IInv, RecoverPending PROVE IInv'
<1> USE DEF IInv
<1>1. Data'
  BY DataKept DEF RecoverPending
<1>2. CASE NextPhase
  BY <1>1, <1>2, NextPhaseType, Entered DEF RecoverPending, TypeOK
<1>3. CASE journal # NoJournal /\ Goto("recover")
  <2>1. proc' \in [phase : DOMAIN Round, at : Steps] /\ proc'.at = "recover"
    BY <1>3, GotoType DEF Steps
  <2>2. TypeOK'
    BY <1>3, <2>1 DEF RecoverPending, TypeOK
  <2>3. Places'
    BY <1>3, <2>1 DEF RecoverPending, Places, At, In
  <2> QED BY <1>1, <2>2, <2>3
<1> QED
  BY <1>2, <1>3 DEF RecoverPending

LEMMA RecoverJournalStep ==
    ASSUME IInv, RecoverJournal PROVE IInv'
<1> USE DEF IInv
<1>1. Data'
  BY DataKept DEF RecoverJournal
<1>2. CASE NextPhase
  BY <1>1, <1>2, NextPhaseType, Entered DEF RecoverJournal, TypeOK
<1>3. CASE /\ Goto("clean")
           /\ "ready" \in dest[journal] \/ {"pending", "incomplete"} \subseteq dest[journal]
  <2>1. /\ proc' \in [phase : DOMAIN Round, at : Steps]
        /\ proc'.at = "clean" /\ proc'.phase = proc.phase
    BY <1>3, GotoType DEF Steps
  <2>2. journal \in Names /\ journal # NoJournal
    BY DEF RecoverJournal, TypeOK, At
  <2>3. Exists(dest[journal])
    BY <1>3, <2>2 DEF Data, Formed, Absent
  <2>4. TypeOK'
    BY <2>1, <2>2 DEF RecoverJournal, TypeOK
  <2>5. Places'
    BY <2>1, <2>2, <2>3 DEF RecoverJournal, Places, At, In
  <2> QED BY <1>1, <2>4, <2>5
<1> QED
  BY <1>2, <1>3 DEF RecoverJournal

LEMMA EnterQueueStep ==
    ASSUME IInv, EnterQueue PROVE IInv'
<1> USE DEF IInv
<1>1. Data'
  BY DataKept DEF EnterQueue
<1>2. CASE NextPhase
  BY <1>1, <1>2, NextPhaseType, Entered DEF EnterQueue, TypeOK
<1>3. ASSUME NEW at \in {"finalize", "publish"}, Goto(at) PROVE IInv'
  <2>1. /\ proc' \in [phase : DOMAIN Round, at : Steps]
        /\ proc'.at = at /\ proc'.phase = proc.phase
    BY <1>3, GotoType DEF Steps
  <2>2. TypeOK'
    BY <2>1 DEF EnterQueue, TypeOK
  <2>3. Places'
    BY <2>1 DEF EnterQueue, Places, At, In
  <2> QED BY <1>1, <2>2, <2>3
<1> QED
  BY <1>2, <1>3 DEF EnterQueue

LEMMA PublishStep ==
    ASSUME IInv, Publish PROVE IInv'
<1> USE DEF IInv
<1>1. Data'
  BY DataKept DEF Publish
<1>2. CASE NextPhase /\ UNCHANGED journal
  BY <1>1, <1>2, NextPhaseType, Entered DEF Publish, TypeOK
<1>3. CASE "finalized" \in capture /\ AlreadyPublished /\ Goto("drop") /\ UNCHANGED journal
  <2>1. /\ proc' \in [phase : DOMAIN Round, at : Steps]
        /\ proc'.at = "drop" /\ proc'.phase = proc.phase
    BY <1>3, GotoType DEF Steps
  <2>2. TypeOK'
    BY <1>3, <2>1 DEF Publish, TypeOK
  <2>3. Exists(dest[0])
    BY <1>3, UploaderAssumption DEF AlreadyPublished, Data, Formed, Names, Absent
  <2>4. Places'
    BY <1>3, <2>1, <2>3 DEF Publish, Places, At, In
  <2> QED BY <1>1, <2>2, <2>4
<1>4. CASE "finalized" \in capture /\ journal' \in FirstFree /\ Goto("pending")
  <2>1. /\ proc' \in [phase : DOMAIN Round, at : Steps]
        /\ proc'.at = "pending" /\ proc'.phase = proc.phase
    BY <1>4, GotoType DEF Steps
  <2>2. journal' \in Names /\ ~Exists(dest[journal']) /\ journal' # NoJournal
    BY <1>4, UploaderAssumption DEF FirstFree, Free, Names, NoJournal
  <2>3. Exists(capture)
    BY <1>4 DEF Data, Formed, Absent
  <2>4. TypeOK'
    BY <2>1, <2>2 DEF Publish, TypeOK
  <2>5. Places'
    BY <2>1, <2>2, <2>3 DEF Publish, Places, At, In
  <2> QED BY <1>1, <2>4, <2>5
<1> QED
  BY <1>2, <1>3, <1>4 DEF Publish

LEMMA RemoveJournalStep ==
    ASSUME IInv, RemoveJournal PROVE IInv'
<1> USE DEF IInv
<1>1. Data'
  BY DataKept DEF RemoveJournal
<1>2. CASE NextPhase
  BY <1>1, <1>2, NextPhaseType, Entered DEF RemoveJournal, TypeOK, NoJournal, Names
<1>3. CASE In("queue") /\ HasCache /\ Goto("release")
  <2>1. /\ proc' \in [phase : DOMAIN Round, at : Steps]
        /\ proc'.at = "release" /\ proc'.phase = proc.phase
    BY <1>3, GotoType DEF Steps
  <2>2. TypeOK'
    BY <2>1 DEF RemoveJournal, TypeOK
  <2>3. local # Absent
    BY <1>3 DEF HasCache, Absent
  <2>4. Places'
    BY <1>3, <2>1, <2>3 DEF RemoveJournal, Places, At, In
  <2> QED BY <1>1, <2>2, <2>4
<1> QED
  BY <1>2, <1>3 DEF RemoveJournal

LEMMA EnterStagingStep ==
    ASSUME IInv, EnterStaging PROVE IInv'
<1> USE DEF IInv
<1>1. Data'
  BY DataKept DEF EnterStaging
<1>2. CASE NextPhase
  BY <1>1, <1>2, NextPhaseType, Entered DEF EnterStaging, TypeOK
<1>3. CASE Discovered /\ Goto("copy")
  <2>1. /\ proc' \in [phase : DOMAIN Round, at : Steps]
        /\ proc'.at = "copy" /\ proc'.phase = proc.phase
    BY <1>3, GotoType DEF Steps
  <2>2. TypeOK'
    BY <2>1 DEF EnterStaging, TypeOK
  <2>3. local # Absent
    BY <1>3 DEF Discovered, Absent
  <2>4. Places'
    BY <1>3, <2>1, <2>3 DEF EnterStaging, Places, At, In
  <2> QED BY <1>1, <2>2, <2>4
<1> QED
  BY <1>2, <1>3 DEF EnterStaging

\* Where "release" is entered from, the phase is not the one of the journals.
LEMMA RelieveStep ==
    ASSUME IInv, Relieve PROVE IInv'
<1> USE DEF IInv
<1>1. Data'
  BY DataKept DEF Relieve
<1>2. CASE NextPhase
  BY <1>1, <1>2, NextPhaseType, Entered DEF Relieve, TypeOK
<1>3. CASE "cached" \in local /\ Goto("release")
  <2>1. /\ proc' \in [phase : DOMAIN Round, at : Steps]
        /\ proc'.at = "release" /\ proc'.phase = proc.phase
    BY <1>3, GotoType DEF Steps
  <2>2. TypeOK'
    BY <2>1 DEF Relieve, TypeOK
  <2>3. local # Absent
    BY <1>3 DEF Absent
  <2>4. Places'
    BY <2>1, <2>3 DEF Relieve, Places, At, In
  <2> QED BY <1>1, <2>2, <2>4
<1> QED
  BY <1>2, <1>3 DEF Relieve

LEMMA ReleaseStep ==
    ASSUME IInv, Release PROVE IInv'
<1> USE DEF IInv
<1>1. Data'
  BY DataKept DEF Release
<1>2. CASE NextPhase
  BY <1>1, <1>2, NextPhaseType, Entered DEF Release, TypeOK
<1>3. ASSUME Durable, NEW at \in {"remove", "mark"}, Goto(at) PROVE IInv'
  <2>1. /\ proc' \in [phase : DOMAIN Round, at : Steps]
        /\ proc'.at = at /\ proc'.phase = proc.phase
    BY <1>3, GotoType DEF Steps
  <2>2. TypeOK'
    BY <2>1 DEF Release, TypeOK
  <2>3. Exists(capture) \/ \E n \in Names : Exists(dest[n])
    BY <1>3 DEF Durable, Published, Data, Formed, Absent
  <2>4. Places'
    BY <2>1, <2>3 DEF Release, Places, At, In
  <2> QED BY <1>1, <2>2, <2>4
<1> QED
  BY <1>2, <1>3 DEF Release

-----------------------------------------------------------------------------
\* Publication

\* The files of a segment are neither markers nor the directory.
LEMMA FilesAreNoMarkers == Files \cap (Markers \cup {"dir"}) = {} /\ Files # {}
BY UploaderAssumption DEF Files, Markers

LEMMA RemoveMarkerStep ==
    ASSUME IInv, RemoveMarker PROVE IInv'
<1> USE DEF IInv
<1>1. PICK i \in DOMAIN Cleanup :
          dest' = [dest EXCEPT ![journal] = @ \ {Cleanup[i]}]
  BY DEF RemoveMarker
<1>2. Cleanup[i] \in {"captured", "finalized", "incomplete"}
  BY DEF Cleanup
<1>3. PICK marker \in {"captured", "finalized", "incomplete"} :
          dest' = [dest EXCEPT ![journal] = @ \ {marker}]
  BY <1>1, <1>2
<1>4. UNCHANGED <<local, capture, journal, proc, config, budget>> /\ At("clean")
  BY DEF RemoveMarker
<1>5. journal \in Names /\ journal # NoJournal /\ marker \notin Files /\ marker # "dir"
  BY <1>4, FilesAreNoMarkers DEF TypeOK, At, Markers
<1>6. dest' \in [Names -> SUBSET ({"dir"} \cup Files \cup Markers)]
  BY <1>3, <1>5 DEF TypeOK
<1>7. \A n \in Names : /\ dest'[n] \subseteq dest[n]
                       /\ Exists(dest'[n]) <=> Exists(dest[n])
                       /\ Whole(dest'[n]) <=> Whole(dest[n])
                       /\ "ready" \in dest'[n] <=> "ready" \in dest[n]
  BY <1>3, <1>5 DEF Exists, Whole, TypeOK
<1>8. TypeOK'
  BY <1>4, <1>6 DEF TypeOK, Exists, At
<1>9. Places'
  BY <1>4, <1>5, <1>7, UploaderAssumption DEF Places, At, In
<1>10. Data'
  <2>1. Formed'
    BY <1>4, <1>7 DEF Data, Formed, Exists, Absent
  <2>2. Copies'
    BY <1>4, <1>7 DEF Data, Copies, WholeDest, NoLoss
  <2>3. Uncut'
    BY <1>4, <1>7 DEF Data, Uncut, TornDeletes
  <2>4. Clean'
    BY <1>4, <1>7 DEF Data, Clean, ReadyIsClean, Published
  <2> QED BY <2>1, <2>2, <2>3, <2>4 DEF Data
<1> QED
  BY <1>8, <1>9, <1>10

LEMMA PromoteStep ==
    ASSUME IInv, Promote PROVE IInv'
<1> USE DEF IInv
<1>1. /\ At("clean")
      /\ dest' = [dest EXCEPT ![journal] = (@ \ {"pending"}) \cup {"ready"}]
      /\ {"captured", "finalized", "incomplete"} \cap dest[journal] = {}
      /\ Goto("unjournal")
      /\ UNCHANGED <<local, capture, journal, config, budget>>
  BY DEF Promote
<1>2. /\ proc' \in [phase : DOMAIN Round, at : Steps]
      /\ proc'.at = "unjournal" /\ proc'.phase = proc.phase
  BY <1>1, GotoType DEF Steps
<1>3. /\ journal \in Names /\ journal # NoJournal
      /\ {"ready", "pending", "dir"} \cap Files = {}
      /\ Exists(dest[journal])
  BY <1>1, FilesAreNoMarkers DEF TypeOK, At, Markers, Places
<1>4. dest' \in [Names -> SUBSET ({"dir"} \cup Files \cup Markers)]
  BY <1>1, <1>3 DEF TypeOK, Markers
<1>5. \A n \in Names : /\ Exists(dest'[n]) <=> Exists(dest[n])
                       /\ Whole(dest'[n]) <=> Whole(dest[n])
                       /\ n # journal => dest'[n] = dest[n]
  BY <1>1, <1>3 DEF Exists, Whole, TypeOK
<1>6. TypeOK'
  BY <1>1, <1>2, <1>4 DEF TypeOK
<1>7. Places'
  BY <1>1, <1>2, <1>3 DEF Places, At, In
<1>8. Data'
  <2>1. Formed'
    BY <1>1, <1>3, <1>5 DEF Data, Formed, Exists, Absent
  <2>2. Copies'
    BY <1>1, <1>5 DEF Data, Copies, WholeDest, NoLoss
  <2>3. Uncut'
    BY <1>1, <1>5 DEF Data, Uncut, TornDeletes
  <2>4. dest'[journal] = (dest[journal] \ {"pending"}) \cup {"ready"}
    BY <1>1, <1>3 DEF TypeOK
  <2>5. dest'[journal] \cap (Markers \ {"ready"}) = {}
    BY <1>1, <1>3, <2>4 DEF Data, Clean, Markers
  <2>6. ReadyIsClean'
    BY <1>3, <1>5, <2>5 DEF Data, Clean, ReadyIsClean, Published
  <2>7. Clean'
    BY <1>1, <1>3, <1>5, <2>4, <2>6 DEF Data, Clean
  <2> QED BY <2>1, <2>2, <2>3, <2>7 DEF Data
<1> QED
  BY <1>6, <1>7, <1>8

\* Marking a capture that is there leaves the copies as they are.
LEMMA MarkedCapture ==
    ASSUME IInv, Exists(capture), NEW marker \in {"finalized", "pending", "incomplete"},
           capture' = capture \cup {marker}, UNCHANGED <<local, dest, config>>
    PROVE  /\ Data' /\ Exists(capture')
           /\ capture' \in SUBSET ({"dir"} \cup Files \cup Markers)
<1>1. Exists(capture') /\ (Whole(capture') <=> Whole(capture))
  BY FilesAreNoMarkers DEF Exists, Whole, Markers
<1>2. capture' \in SUBSET ({"dir"} \cup Files \cup Markers)
  BY DEF IInv, TypeOK, Markers
<1>3. Formed'
  BY <1>1 DEF IInv, Data, Formed
<1>4. Copies' /\ Uncut'
  BY <1>1 DEF IInv, Data, Copies, WholeDest, NoLoss, Uncut, TornDeletes
<1>5. Clean'
  BY DEF IInv, Data, Clean, ReadyIsClean, Published
<1> QED
  BY <1>1, <1>2, <1>3, <1>4, <1>5 DEF Data

LEMMA FinalizeStep ==
    ASSUME IInv, Finalize PROVE IInv'
<1> USE DEF IInv
<1>1. CASE NextPhase /\ UNCHANGED capture
  BY <1>1, DataKept, NextPhaseType, Entered DEF Finalize, TypeOK
<1>2. CASE "index" \in capture /\ capture' = capture \cup {"finalized"} /\ Goto("publish")
  <2>1. Exists(capture)
    BY <1>2 DEF Data, Formed, Absent
  <2>2. Data' /\ capture' \in SUBSET ({"dir"} \cup Files \cup Markers)
    BY <1>2, <2>1, MarkedCapture DEF Finalize
  <2>3. /\ proc' \in [phase : DOMAIN Round, at : Steps]
        /\ proc'.at = "publish" /\ proc'.phase = proc.phase
    BY <1>2, GotoType DEF Steps
  <2>4. TypeOK'
    BY <2>2, <2>3 DEF Finalize, TypeOK
  <2>5. Places'
    BY <2>3 DEF Finalize, Places, At, In
  <2> QED BY <2>2, <2>4, <2>5
<1> QED
  BY <1>1, <1>2 DEF Finalize

LEMMA WritePendingStep ==
    ASSUME IInv, WritePending PROVE IInv'
<1> USE DEF IInv
<1>1. Exists(capture) /\ ~Exists(dest[journal]) /\ journal \in Names /\ journal # NoJournal
  BY DEF WritePending, At, Places, TypeOK
<1>2. Data' /\ Exists(capture') /\ capture' \in SUBSET ({"dir"} \cup Files \cup Markers)
  BY <1>1, MarkedCapture DEF WritePending
<1>3. /\ proc' \in [phase : DOMAIN Round, at : Steps]
      /\ proc'.at = "incomplete" /\ proc'.phase = proc.phase
  BY GotoType DEF WritePending, Steps
<1>4. TypeOK'
  BY <1>1, <1>2, <1>3 DEF WritePending, TypeOK
<1>5. Places'
  BY <1>1, <1>2, <1>3 DEF WritePending, Places, At, In
<1> QED
  BY <1>2, <1>4, <1>5

LEMMA WriteIncompleteStep ==
    ASSUME IInv, WriteIncomplete PROVE IInv'
<1> USE DEF IInv
<1>1. Exists(capture) /\ ~Exists(dest[journal]) /\ journal \in Names /\ journal # NoJournal
  BY DEF WriteIncomplete, At, Places, TypeOK
<1>2. Data' /\ Exists(capture') /\ capture' \in SUBSET ({"dir"} \cup Files \cup Markers)
  BY <1>1, MarkedCapture DEF WriteIncomplete
<1>3. /\ proc' \in [phase : DOMAIN Round, at : Steps]
      /\ proc'.at = "move" /\ proc'.phase = proc.phase
  BY GotoType DEF WriteIncomplete, Steps
<1>4. TypeOK'
  BY <1>1, <1>2, <1>3 DEF WriteIncomplete, TypeOK
<1>5. Places'
  BY <1>1, <1>2, <1>3 DEF WriteIncomplete, Places, At, In
<1> QED
  BY <1>2, <1>4, <1>5

LEMMA MoveCaptureStep ==
    ASSUME IInv, MoveCapture PROVE IInv'
<1> USE DEF IInv
<1>1. /\ Exists(capture) /\ dest[journal] = Absent
      /\ journal \in Names /\ journal # NoJournal
  BY DEF MoveCapture, At, Places, TypeOK, Data, Formed
<1>2. /\ dest' = [dest EXCEPT ![journal] = capture] /\ capture' = Absent
      /\ UNCHANGED <<local, journal, config, budget>>
  BY DEF MoveCapture
<1>3. /\ proc' \in [phase : DOMAIN Round, at : Steps]
      /\ proc'.at = "recover" /\ proc'.phase = proc.phase
  BY GotoType DEF MoveCapture, Steps
<1>4. /\ dest' \in [Names -> SUBSET ({"dir"} \cup Files \cup Markers)]
      /\ dest'[journal] = capture
      /\ \A n \in Names : n # journal => dest'[n] = dest[n]
  BY <1>1, <1>2 DEF TypeOK
<1>5. ~Whole(Absent) /\ ~Exists(Absent)
  BY FilesAreNoMarkers DEF Whole, Exists, Absent
<1>6. TypeOK'
  BY <1>1, <1>2, <1>3, <1>4 DEF TypeOK, Absent
<1>7. Places'
  BY <1>1, <1>2, <1>3 DEF MoveCapture, Places, At, In
<1>8. WholeDest'
  BY <1>1, <1>4, <1>5 DEF Data, Copies, WholeDest
<1>9. Data'
  <2>1. Formed'
    BY <1>1, <1>2, <1>4 DEF Data, Formed
  <2>2. Copies'
    BY <1>8 DEF Copies, WholeDest, NoLoss
  <2>3. Uncut'
    BY <1>1, <1>2, <1>4, <1>5 DEF Data, Uncut, TornDeletes
  <2>4. Clean'
    BY <1>1, <1>2, <1>4 DEF Data, Clean, ReadyIsClean, Published, Absent
  <2> QED BY <2>1, <2>2, <2>3, <2>4 DEF Data
<1> QED
  BY <1>6, <1>7, <1>9

\* A capture is only dropped or torn while the same files are published.
LEMMA CaptureLost ==
    ASSUME IInv, At("drop"), capture' = Absent \/ capture' \in Leftovers(capture),
           local' = local, UNCHANGED <<dest, config>>
    PROVE  /\ Data'
           /\ capture' \in SUBSET ({"dir"} \cup Files \cup Markers)
<1>1. WholeDest /\ WholeDest'
  BY UploaderAssumption DEF IInv, Places, Data, Copies, WholeDest, Names
<1>2. capture' \subseteq capture /\ (capture' # Absent => Exists(capture'))
  BY DEF Leftovers, Absent, IInv, Data, Formed
<1>3. Formed'
  BY <1>2 DEF IInv, Data, Formed
<1>4. Copies'
  BY <1>1 DEF Copies, WholeDest, NoLoss
<1>5. Uncut'
  BY DEF Leftovers, Absent, IInv, Data, Uncut, TornDeletes, Exists
<1>6. Clean'
  BY <1>2 DEF IInv, Data, Clean, ReadyIsClean, Published
<1> QED
  BY <1>2, <1>3, <1>4, <1>5, <1>6 DEF IInv, TypeOK, Data

LEMMA DropCaptureStep ==
    ASSUME IInv, DropCapture PROVE IInv'
<1> USE DEF IInv
<1>1. Data' /\ capture' \in SUBSET ({"dir"} \cup Files \cup Markers)
  BY CaptureLost DEF DropCapture
<1>2. /\ proc' \in [phase : DOMAIN Round, at : Steps]
      /\ proc'.at = "unjournal" /\ proc'.phase = proc.phase
  BY GotoType DEF DropCapture, Steps
<1>3. TypeOK'
  BY <1>1, <1>2 DEF DropCapture, TypeOK
<1>4. Places'
  BY <1>2 DEF DropCapture, Places, At, In
<1> QED
  BY <1>1, <1>3, <1>4

-----------------------------------------------------------------------------
\* Capture, and the local copy

LEMMA CopySegmentStep ==
    ASSUME IInv, CopySegment PROVE IInv'
<1> USE DEF IInv
<1>1. CASE Exists(capture) /\ NextPhase
  BY <1>1, DataKept, NextPhaseType, Entered DEF CopySegment, TypeOK
<1>2. CASE UNCHANGED capture /\ "captured" \in capture /\ Goto("retain")
  <2>1. /\ proc' \in [phase : DOMAIN Round, at : Steps]
        /\ proc'.at = "retain" /\ proc'.phase = proc.phase
    BY <1>2, GotoType DEF Steps
  <2>2. Exists(capture) /\ local # Absent
    BY <1>2 DEF CopySegment, Places, At, Data, Formed, Absent
  <2>3. TypeOK'
    BY <1>2, <2>1 DEF CopySegment, TypeOK
  <2>4. Places'
    BY <1>2, <2>1, <2>2 DEF CopySegment, Places, At, In
  <2>5. Data'
    BY <1>2, DataKept DEF CopySegment
  <2> QED BY <2>3, <2>4, <2>5
<1>3. CASE /\ ~Exists(capture)
           /\ capture' = {"dir", "captured"} \cup Manifest(local) /\ Goto("retain")
  <2>1. /\ proc' \in [phase : DOMAIN Round, at : Steps]
        /\ proc'.at = "retain" /\ proc'.phase = proc.phase
    BY <1>3, GotoType DEF Steps
  <2>2. /\ Exists(capture') /\ (Whole(capture') <=> Whole(local))
        /\ capture' \in SUBSET ({"dir"} \cup Files \cup Markers)
    BY <1>3, FilesAreNoMarkers DEF Exists, Whole, Manifest, Markers
  <2>3. At("copy") /\ local # Absent /\ UNCHANGED <<local, dest, journal, config, budget>>
    BY DEF CopySegment, Places, At
  <2>4. TypeOK'
    BY <2>1, <2>2, <2>3 DEF TypeOK
  <2>5. Places'
    BY <2>1, <2>2, <2>3 DEF Places, At, In
  <2>6. ~Whole(capture)
    BY <1>3, FilesAreNoMarkers DEF Data, Formed, Whole, Absent
  <2>7. Formed' /\ Copies' /\ Uncut'
    BY <2>2, <2>3, <2>6 DEF Data, Formed, Copies, WholeDest, NoLoss, Uncut, TornDeletes
  <2>8. capture' \cap {"ready", "staged", "cached", "uploaded"} = {}
    BY <1>3, FilesAreNoMarkers DEF Manifest, Markers
  <2>9. Clean'
    BY <2>3, <2>8 DEF Data, Clean, ReadyIsClean, Published
  <2> QED BY <2>4, <2>5, <2>7, <2>9 DEF Data
<1> QED
  BY <1>1, <1>2, <1>3 DEF CopySegment

\* Markers come and go in the local directory; its files stay.
LEMMA LocalMarked ==
    ASSUME IInv, local' \ {"cached", "uploaded"} = local \ {"cached", "uploaded"},
           local' # Absent => local # Absent, UNCHANGED <<capture, dest, config>>
    PROVE  Data' /\ local' \in SUBSET ({"dir"} \cup Files \cup Markers)
<1>1. /\ Whole(local') <=> Whole(local)
      /\ local' \in SUBSET ({"dir"} \cup Files \cup Markers)
  BY FilesAreNoMarkers DEF Whole, Markers, IInv, TypeOK
<1>2. Formed' /\ Copies' /\ Uncut' /\ Clean'
  BY <1>1 DEF IInv, Data, Formed, Copies, WholeDest, NoLoss, Uncut, TornDeletes,
              Clean, ReadyIsClean, Published
<1> QED
  BY <1>1, <1>2 DEF Data

LEMMA RetainCaptureStep ==
    ASSUME IInv, RetainCapture PROVE IInv'
<1> USE DEF IInv
<1>1. Exists(capture) /\ local # Absent /\ UNCHANGED <<capture, dest, journal, config, budget>>
  BY DEF RetainCapture, Places, At
<1>2. CASE local' = local \cup {"cached"} /\ Goto("relief")
  <2>1. /\ proc' \in [phase : DOMAIN Round, at : Steps]
        /\ proc'.at = "relief" /\ proc'.phase = proc.phase
    BY <1>2, GotoType DEF Steps
  <2>3. Data' /\ local' \in SUBSET ({"dir"} \cup Files \cup Markers)
    BY <1>1, <1>2, LocalMarked
  <2>4. TypeOK' /\ Places'
    BY <1>1, <2>1, <2>3 DEF RetainCapture, TypeOK, Places, At, In
  <2> QED BY <2>3, <2>4
<1>3. CASE UNCHANGED local /\ Goto("remove")
  <2>1. /\ proc' \in [phase : DOMAIN Round, at : Steps]
        /\ proc'.at = "remove" /\ proc'.phase = proc.phase
    BY <1>3, GotoType DEF Steps
  <2>2. TypeOK' /\ Places'
    BY <1>1, <1>3, <2>1 DEF RetainCapture, TypeOK, Places, At, In
  <2> QED BY <1>1, <1>3, <2>2, DataKept
<1>4. CASE local' = local \cup {"uploaded"} /\ NextPhase
  <2>2. Data' /\ local' \in SUBSET ({"dir"} \cup Files \cup Markers)
    BY <1>1, <1>4, LocalMarked
  <2>3. TypeOK' /\ Places'
    BY <1>1, <1>4, <2>2, NextPhaseType, Entered DEF TypeOK
  <2> QED BY <2>2, <2>3
<1> QED
  BY <1>2, <1>3, <1>4 DEF RetainCapture

LEMMA ReconcileStep ==
    ASSUME IInv, Reconcile PROVE IInv'
<1> USE DEF IInv
<1>1. CASE "cached" \in local /\ Goto("release") /\ UNCHANGED local
  <2>1. /\ proc' \in [phase : DOMAIN Round, at : Steps]
        /\ proc'.at = "release" /\ proc'.phase = proc.phase
    BY <1>1, GotoType DEF Steps
  <2>2. TypeOK' /\ Places'
    BY <1>1, <2>1 DEF Reconcile, TypeOK, Places, At, In, Absent
  <2> QED BY <1>1, <2>2, DataKept DEF Reconcile
<1>2. CASE NextPhase /\ local' = IF Durable THEN local ELSE local \ {"cached"}
  <2>1. Data' /\ local' \in SUBSET ({"dir"} \cup Files \cup Markers)
    BY <1>2, LocalMarked DEF Reconcile, Absent
  <2>2. TypeOK' /\ Places'
    BY <1>2, <2>1, NextPhaseType, Entered DEF Reconcile, TypeOK
  <2> QED BY <2>1, <2>2
<1> QED
  BY <1>1, <1>2 DEF Reconcile

LEMMA MisjudgeCacheStep ==
    ASSUME IInv, MisjudgeCache PROVE IInv'
<1> USE DEF IInv
<1>1. Data' /\ local' \in SUBSET ({"dir"} \cup Files \cup Markers)
  BY LocalMarked DEF MisjudgeCache, Absent
<1>2. budget' \in [crashes : Nat, faults : Nat]
  BY DEF MisjudgeCache, TypeOK
<1>3. TypeOK' /\ Places'
  BY <1>1, <1>2, NextPhaseType, Entered DEF MisjudgeCache, TypeOK
<1> QED
  BY <1>1, <1>3

\* The local copy is only deleted or torn while there is another one.
LEMMA LocalLost ==
    ASSUME IInv, At("remove"), local' = Absent \/ local' \in Leftovers(local),
           UNCHANGED <<capture, dest, config>>
    PROVE  Data' /\ local' \in SUBSET ({"dir"} \cup Files \cup Markers)
<1>1. Whole(capture) \/ WholeDest
  BY DEF IInv, Places, Data, Copies
<1>2. local' \subseteq local
  BY DEF Leftovers, Absent
<1>3. Formed' /\ Copies' /\ Clean'
  BY <1>1 DEF IInv, Data, Formed, Copies, WholeDest, NoLoss, Clean, ReadyIsClean, Published
<1>4. Uncut'
  BY DEF Leftovers, IInv, Data, Uncut, TornDeletes
<1> QED
  BY <1>2, <1>3, <1>4 DEF Data, IInv, TypeOK

LEMMA RemoveLocalStep ==
    ASSUME IInv, RemoveLocal PROVE IInv'
<1> USE DEF IInv
<1>1. Data' /\ local' \in SUBSET ({"dir"} \cup Files \cup Markers)
  BY LocalLost DEF RemoveLocal
<1>2. TypeOK' /\ Places'
  BY <1>1, NextPhaseType, Entered DEF RemoveLocal, TypeOK
<1> QED
  BY <1>1, <1>2

LEMMA MarkUploadedStep ==
    ASSUME IInv, MarkUploaded PROVE IInv'
<1> USE DEF IInv
<1>1. local # Absent
  BY DEF MarkUploaded, Places, At
<1>2. CASE local' = local \ {"cached"} /\ NextPhase
  <2>1. Data' /\ local' \in SUBSET ({"dir"} \cup Files \cup Markers)
    BY <1>1, <1>2, LocalMarked DEF MarkUploaded
  <2>2. TypeOK' /\ Places'
    BY <1>2, <2>1, NextPhaseType, Entered DEF MarkUploaded, TypeOK
  <2> QED BY <2>1, <2>2
<1>3. CASE local' = local \cup {"uploaded"} /\ UNCHANGED proc
  <2>1. Data' /\ local' \in SUBSET ({"dir"} \cup Files \cup Markers)
    BY <1>1, <1>3, LocalMarked DEF MarkUploaded
  <2>2. TypeOK' /\ Places'
    BY <1>3, <2>1 DEF MarkUploaded, TypeOK, Places, At, In, Absent
  <2> QED BY <2>1, <2>2
<1> QED
  BY <1>2, <1>3 DEF MarkUploaded

-----------------------------------------------------------------------------
\* Failures

LEMMA NasFailsStep ==
    ASSUME IInv, NasFails PROVE IInv'
<1> USE DEF IInv
<1>1. budget' \in [crashes : Nat, faults : Nat]
  BY DEF NasFails, TypeOK
<1>2. Data' /\ capture' \in SUBSET ({"dir"} \cup Files \cup Markers)
  <2>1. CASE At("drop")
    BY <2>1, CaptureLost DEF NasFails
  <2>2. CASE ~At("drop")
    BY <2>2, DataKept DEF NasFails, TypeOK
  <2> QED BY <2>1, <2>2
<1>3. CASE NextPhase
  BY <1>1, <1>2, <1>3, NextPhaseType, Entered DEF NasFails, TypeOK
<1>4. CASE proc.at \in DOMAIN Retried /\ Goto(Retried[proc.at])
  <2>1. /\ Retried[proc.at] \in {"copy", "recover", "publish"}
        /\ Retried[proc.at] = "copy" => proc.at = "copy"
        /\ Retried[proc.at] = "recover" => In("journal") /\ proc.at # "enter"
        /\ Retried[proc.at] = "publish" => ~In("journal")
    BY <1>4 DEF Retried
  <2>2. /\ proc' \in [phase : DOMAIN Round, at : Steps]
        /\ proc'.at = Retried[proc.at] /\ proc'.phase = proc.phase
    BY <1>4, <2>1, GotoType DEF Steps
  <2>3. UNCHANGED <<local, dest, journal, config>>
    BY DEF NasFails
  <2>4. TypeOK'
    BY <1>1, <1>2, <2>1, <2>2, <2>3 DEF TypeOK, Places
  <2>5. Places'
    BY <2>1, <2>2, <2>3 DEF Places, At, In
  <2> QED BY <1>2, <2>4, <2>5
<1> QED
  BY <1>3, <1>4 DEF NasFails

LEMMA CrashStep ==
    ASSUME IInv, Crash PROVE IInv'
<1> USE DEF IInv
<1>1. budget' \in [crashes : Nat, faults : Nat] /\ UNCHANGED <<dest, journal, config>>
  BY DEF Crash, TypeOK
<1>2. proc' \in [phase : DOMAIN Round, at : Steps] /\ proc'.at = "enter"
  BY DEF Crash, Round, Steps
<1>3. /\ Data' /\ capture' \in SUBSET ({"dir"} \cup Files \cup Markers)
      /\ local' \in SUBSET ({"dir"} \cup Files \cup Markers)
  <2>1. CASE At("drop")
    BY <2>1, CaptureLost DEF Crash, At, TypeOK
  <2>2. CASE At("remove")
    BY <2>2, LocalLost DEF Crash, At, TypeOK
  <2>3. CASE ~At("drop") /\ ~At("remove")
    BY <2>3, DataKept DEF Crash, TypeOK
  <2> QED BY <2>1, <2>2, <2>3
<1>4. TypeOK' /\ Places'
  BY <1>1, <1>2, <1>3, Entered DEF TypeOK
<1> QED
  BY <1>3, <1>4

-----------------------------------------------------------------------------
LEMMA NextIInv == IInv /\ [Next]_vars => IInv'
<1> SUFFICES ASSUME IInv, [Next]_vars PROVE IInv'
  OBVIOUS
<1>1. CASE UNCHANGED vars
  <2>1. Data'
    BY <1>1, DataKept DEF vars, IInv
  <2>2. TypeOK' /\ Places'
    BY <1>1 DEF vars, IInv, TypeOK, Places, At, In
  <2> QED BY <2>1, <2>2 DEF IInv
<1>2. CASE RecoverPending \/ RecoverJournal \/ RemoveMarker \/ Promote \/ RemoveJournal
  BY <1>2, RecoverPendingStep, RecoverJournalStep, RemoveMarkerStep, PromoteStep,
     RemoveJournalStep
<1>3. CASE EnterQueue \/ Finalize \/ Publish \/ DropCapture
  BY <1>3, EnterQueueStep, FinalizeStep, PublishStep, DropCaptureStep
<1>4. CASE WritePending \/ WriteIncomplete \/ MoveCapture
  BY <1>4, WritePendingStep, WriteIncompleteStep, MoveCaptureStep
<1>5. CASE EnterStaging \/ CopySegment \/ RetainCapture
  BY <1>5, EnterStagingStep, CopySegmentStep, RetainCaptureStep
<1>6. CASE Relieve \/ Reconcile \/ Release \/ RemoveLocal \/ MarkUploaded
  BY <1>6, RelieveStep, ReconcileStep, ReleaseStep, RemoveLocalStep, MarkUploadedStep
<1>7. CASE MisjudgeCache \/ NasFails \/ Crash
  BY <1>7, MisjudgeCacheStep, NasFailsStep, CrashStep
<1> QED
  BY <1>1, <1>2, <1>3, <1>4, <1>5, <1>6, <1>7 DEF Next, RunOnce

\* The inductive invariant: types, what run_once relies on where it stands, and what
\* the directories hold.
THEOREM Invariance == Spec => []IInv
BY InitIInv, NextIInv, PTL DEF Spec

\* Every variable keeps to its set of values, whatever is killed or fails.
THEOREM TypeCorrect == Spec => []TypeOK
<1>1. IInv => TypeOK
  BY DEF IInv
<1> QED
  BY <1>1, Invariance, PTL

\* No deletion, copy or move, interrupted or not, loses the last whole copy of the
\* segment (RemoveLocal, DropCapture, CopySegment, MoveCapture).
THEOREM NothingLost == Spec => []NoLoss
<1>1. IInv => NoLoss
  BY DEF IInv, Data, Copies
<1> QED
  BY <1>1, Invariance, PTL

\* A published directory holds no control marker of its publication (RemoveMarker before
\* Promote), and where no deletion is interrupted half way it holds the whole segment.
THEOREM PublishedSound == Spec => []ReadyIsSound
<1>1. IInv => ReadyIsClean
  BY DEF IInv, Data, Clean
<1>2. IInv => ReadyIsWholeOrTorn
  BY DEF IInv, Data, Uncut, Formed, ReadyIsWholeOrTorn, ReadyIsWhole, Published, Absent
<1> QED
  BY <1>1, <1>2, Invariance, PTL DEF ReadyIsSound

-----------------------------------------------------------------------------
\* Publication under one name

\* Where no deletion is interrupted, a name after the first is only taken behind a
\* directory of the first whose publication was left unfinished, and nothing takes
\* the first name up again.
OneName ==
    ~TornDeletes =>
        /\ (journal \in Names \ {0} \/ \E n \in Names \ {0} : Exists(dest[n])) =>
               Exists(dest[0]) /\ "ready" \notin dest[0]
        /\ (\E n \in Names \ {0} : Exists(dest[n])) => journal # 0

LEMMA OneNameStep == ASSUME IInv, OneName, [Next]_vars PROVE OneName'
<1> USE UploaderAssumption
<1> SUFFICES ASSUME ~TornDeletes PROVE OneName'
  <2>1. TornDeletes' = TornDeletes
    BY DEF vars, Next, RunOnce, RecoverPending, RecoverJournal, RemoveMarker, Promote,
           RemoveJournal, EnterQueue, Finalize, Publish, DropCapture, WritePending,
           WriteIncomplete, MoveCapture, EnterStaging, CopySegment, RetainCapture, Relieve,
           Reconcile, Release, RemoveLocal, MarkUploaded, MisjudgeCache, NasFails, Crash, TornDeletes
  <2> QED BY <2>1 DEF OneName
<1>1. CASE UNCHANGED <<dest, journal>>
  BY <1>1 DEF OneName
<1>2. CASE RemoveMarker
  <2>1. PICK i \in DOMAIN Cleanup : dest' = [dest EXCEPT ![journal] = @ \ {Cleanup[i]}]
    BY <1>2 DEF RemoveMarker
  <2>2. Cleanup[i] \in {"captured", "finalized", "incomplete"}
    BY DEF Cleanup
  <2>3. \A n \in Names : /\ Exists(dest'[n]) <=> Exists(dest[n])
                         /\ "ready" \in dest'[n] <=> "ready" \in dest[n]
    BY <2>1, <2>2 DEF IInv, TypeOK, Exists
  <2>4. journal' = journal /\ 0 \in Names
    BY <1>2 DEF RemoveMarker, Names
  <2> QED BY <2>3, <2>4 DEF OneName
<1>3. CASE Promote
  <2>1. /\ journal \in Names /\ journal' = journal /\ 0 \in Names
        /\ dest' = [dest EXCEPT ![journal] = (@ \ {"pending"}) \cup {"ready"}]
    BY <1>3 DEF Promote, IInv, TypeOK, At, Names, NoJournal
  <2>2. \A n \in Names : /\ Exists(dest'[n]) <=> Exists(dest[n])
                         /\ n # journal => dest'[n] = dest[n]
    BY <2>1 DEF IInv, TypeOK, Exists
  <2> QED BY <2>1, <2>2 DEF OneName
<1>4. CASE RemoveJournal
  <2>1. journal' = NoJournal /\ dest' = dest /\ NoJournal \notin Names /\ NoJournal # 0
    BY <1>4 DEF RemoveJournal, NoJournal, Names
  <2> QED BY <2>1 DEF OneName
<1>5. CASE Publish /\ journal' # journal
  <2>1. /\ journal' \in FirstFree /\ ~AlreadyPublished /\ "finalized" \in capture
        /\ dest' = dest /\ 0 \in Names
    BY <1>5 DEF Publish, Names
  <2>2. journal' \in Names /\ ~Exists(dest[journal'])
    BY <2>1 DEF FirstFree, Free
  <2>3. CASE Exists(dest[0])
    <3>1. Whole(capture) /\ Whole(dest[0])
      BY <2>1, <2>3 DEF IInv, Data, Uncut, Formed, Absent
    <3>2. Manifest(dest[0]) = Manifest(capture)
      BY <3>1 DEF Whole, Manifest
    <3>3. "ready" \notin dest[0]
      BY <2>1, <3>2 DEF AlreadyPublished
    <3> QED BY <2>1, <2>2, <2>3, <3>3 DEF OneName
  <2>4. CASE ~Exists(dest[0])
    <3>1. 0 \in Free
      BY <2>1, <2>4 DEF Free
    <3>2. journal' = 0
      BY <2>1, <2>2, <3>1 DEF FirstFree, Names
    <3> QED BY <2>1, <2>4, <3>2 DEF OneName
  <2> QED BY <2>3, <2>4
<1>6. CASE MoveCapture
  <2>1. /\ Exists(capture) /\ journal \in Names /\ journal' = journal /\ 0 \in Names
        /\ dest' = [dest EXCEPT ![journal] = capture]
    BY <1>6 DEF MoveCapture, IInv, Places, TypeOK, At, Names, NoJournal
  <2>2. \A n \in Names : n # journal => dest'[n] = dest[n]
    BY <2>1 DEF IInv, TypeOK
  <2>3. CASE journal = 0
    BY <2>1, <2>2, <2>3 DEF OneName
  <2>4. CASE journal # 0
    BY <2>1, <2>2, <2>4 DEF OneName
  <2> QED BY <2>3, <2>4
<1>7. UNCHANGED <<dest, journal>> \/ RemoveMarker \/ Promote \/ RemoveJournal
      \/ (Publish /\ journal' # journal) \/ MoveCapture
  BY DEF vars, Next, RunOnce, RecoverPending, RecoverJournal, EnterQueue, Finalize, Publish,
         DropCapture, WritePending, WriteIncomplete, EnterStaging, CopySegment, RetainCapture,
         Relieve, Reconcile, Release, RemoveLocal, MarkUploaded, MisjudgeCache, NasFails, Crash
<1> QED
  BY <1>1, <1>2, <1>3, <1>4, <1>5, <1>6, <1>7

\* A segment is published under a second name only behind an unfinished publication
\* under the first (Publish with AlreadyPublished and FirstFree).
THEOREM PublishedUnderOneName == Spec => []PublishedOnce
<1>1. Init => OneName
  BY UploaderAssumption DEF Init, OneName, Names, NoJournal, Exists, Absent
<1>2. IInv /\ OneName => PublishedOnce
  BY UploaderAssumption DEF IInv, Data, Formed, OneName, PublishedOnce, Published, Names, Absent
<1>3. IInv /\ OneName /\ [Next]_vars => OneName'
  BY OneNameStep
<1> QED
  BY <1>1, <1>2, <1>3, Invariance, PTL DEF Spec

-----------------------------------------------------------------------------
\* A local copy that is kept until the segment is published

PublishedCopy == \E n \in Names : Whole(dest[n]) /\ "ready" \in dest[n]

\* Until there is a published copy the local one is complete and staged, every other
\* is whole, and run_once is nowhere that one is removed.
StillStaged ==
    /\ Whole(local) /\ "staged" \in local /\ "uploaded" \notin local
    /\ Exists(capture) => Whole(capture)
    /\ \A n \in Names : Exists(dest[n]) => Whole(dest[n]) /\ "ready" \notin dest[n]
    /\ proc.at \notin {"release", "remove", "mark", "drop", "unjournal"}

Kept == KeepsLocal => PublishedCopy \/ StillStaged

\* No step takes a published copy away.
LEMMA PublishedStays ==
    ASSUME IInv, PublishedCopy, [Next]_vars PROVE PublishedCopy'
<1>1. PICK n \in Names : Whole(dest[n]) /\ "ready" \in dest[n]
  BY DEF PublishedCopy
<1>2. CASE UNCHANGED dest
  BY <1>2 DEF PublishedCopy
<1>3. CASE RemoveMarker
  <2>1. PICK i \in DOMAIN Cleanup : dest' = [dest EXCEPT ![journal] = @ \ {Cleanup[i]}]
    BY <1>3 DEF RemoveMarker
  <2>2. Cleanup[i] \in {"captured", "finalized", "incomplete"} /\ Cleanup[i] \notin Files
    BY FilesAreNoMarkers DEF Cleanup, Markers
  <2>3. Whole(dest'[n]) /\ "ready" \in dest'[n]
    BY <1>1, <2>1, <2>2 DEF IInv, TypeOK, Whole
  <2> QED BY <2>3 DEF PublishedCopy
<1>4. CASE Promote
  <2>1. dest' = [dest EXCEPT ![journal] = (@ \ {"pending"}) \cup {"ready"}]
    BY <1>4 DEF Promote
  <2>2. Whole(dest'[n]) /\ "ready" \in dest'[n]
    BY <1>1, <2>1, FilesAreNoMarkers DEF IInv, TypeOK, Whole, Markers
  <2> QED BY <2>2 DEF PublishedCopy
<1>5. CASE MoveCapture
  <2>1. /\ dest' = [dest EXCEPT ![journal] = capture]
        /\ dest[journal] = Absent
    BY <1>5 DEF MoveCapture, IInv, Places, TypeOK, Data, Formed, At
  <2>2. dest'[n] = dest[n]
    BY <1>1, <2>1 DEF IInv, TypeOK, Absent
  <2> QED BY <1>1, <2>2 DEF PublishedCopy
<1>6. UNCHANGED dest \/ RemoveMarker \/ Promote \/ MoveCapture
  BY DEF vars, Next, RunOnce, RecoverPending, RecoverJournal, RemoveJournal, EnterQueue, Finalize, Publish,
         DropCapture, WritePending, WriteIncomplete, EnterStaging, CopySegment, RetainCapture,
         Relieve, Reconcile, Release, RemoveLocal, MarkUploaded, MisjudgeCache, NasFails, Crash
<1> QED
  BY <1>2, <1>3, <1>4, <1>5, <1>6

LEMMA KeptStep == ASSUME IInv, Kept, [Next]_vars PROVE Kept'
<1>1. UNCHANGED config
  BY DEF vars, Next, RunOnce, RecoverPending, RecoverJournal, RemoveMarker, Promote,
         RemoveJournal, EnterQueue, Finalize, Publish, DropCapture, WritePending,
         WriteIncomplete, MoveCapture, EnterStaging, CopySegment, RetainCapture, Relieve,
         Reconcile, Release, RemoveLocal, MarkUploaded, MisjudgeCache, NasFails, Crash
<1>2. CASE PublishedCopy
  BY <1>2, PublishedStays DEF Kept
<1> SUFFICES ASSUME KeepsLocal, StillStaged PROVE PublishedCopy' \/ StillStaged'
  BY <1>1, <1>2 DEF Kept, KeepsLocal, RetainLocal, DiskPressure
<1> USE DEF StillStaged
<1>3. Published = {} /\ ~AlreadyPublished
  BY UploaderAssumption DEF Published, AlreadyPublished, IInv, Data, Formed, Names, Absent
<1>4. ASSUME UNCHANGED <<local, capture, dest>>, proc' = proc \/ NextPhase \/
             \E at \in {"recover", "clean", "finalize", "publish", "pending", "copy"} : Goto(at)
      PROVE  StillStaged'
  BY <1>4 DEF NextPhase, Goto, IInv, TypeOK
<1>5. CASE UNCHANGED vars
  BY <1>4, <1>5 DEF vars
<1>6. CASE RecoverPending \/ RecoverJournal
  BY <1>4, <1>6 DEF RecoverPending, RecoverJournal
<1>7. CASE EnterQueue \/ Publish \/ EnterStaging
  BY <1>3, <1>4, <1>7 DEF EnterQueue, Publish, EnterStaging
<1>8. CASE RemoveMarker
  <2>1. PICK i \in DOMAIN Cleanup : dest' = [dest EXCEPT ![journal] = @ \ {Cleanup[i]}]
    BY <1>8 DEF RemoveMarker
  <2>2. Cleanup[i] \in {"captured", "finalized", "incomplete"} /\ Cleanup[i] \notin Files
    BY FilesAreNoMarkers DEF Cleanup, Markers
  <2>3. \A n \in Names : /\ Exists(dest'[n]) <=> Exists(dest[n])
                         /\ Whole(dest'[n]) <=> Whole(dest[n])
                         /\ dest'[n] \subseteq dest[n]
    BY <2>1, <2>2 DEF IInv, TypeOK, Exists, Whole
  <2> QED BY <1>8, <2>3 DEF RemoveMarker
<1>9. CASE Promote
  <2>1. /\ journal \in Names /\ Exists(dest[journal])
        /\ dest' = [dest EXCEPT ![journal] = (@ \ {"pending"}) \cup {"ready"}]
    BY <1>9 DEF Promote, IInv, Places, TypeOK, At
  <2>2. Whole(dest'[journal]) /\ "ready" \in dest'[journal]
    BY <2>1, FilesAreNoMarkers DEF IInv, TypeOK, Whole, Markers
  <2> QED BY <2>1, <2>2 DEF PublishedCopy
<1>10. CASE RemoveJournal \/ DropCapture \/ Release \/ RemoveLocal \/ MarkUploaded
  BY <1>10 DEF RemoveJournal, DropCapture, Release, RemoveLocal, MarkUploaded, At
<1>11. ASSUME NEW marker \in Markers, capture' = capture \cup {marker}, Exists(capture),
              UNCHANGED <<local, dest>>,
              \E at \in {"publish", "incomplete", "move"} : Goto(at)
       PROVE  StillStaged'
  BY <1>11 DEF Goto, IInv, TypeOK, Whole
<1>12. CASE Finalize
  <2>1. CASE NextPhase /\ UNCHANGED capture
    BY <1>4, <1>12, <2>1 DEF Finalize
  <2>2. CASE "index" \in capture /\ capture' = capture \cup {"finalized"} /\ Goto("publish")
    BY <1>11, <1>12, <2>2 DEF Finalize, IInv, Data, Formed, Absent, Markers
  <2> QED BY <1>12, <2>1, <2>2 DEF Finalize
<1>13. CASE WritePending \/ WriteIncomplete
  <2>1. Exists(capture)
    BY <1>13 DEF WritePending, WriteIncomplete, At, IInv, Places
  <2> QED BY <1>11, <1>13, <2>1 DEF WritePending, WriteIncomplete, Markers
<1>14. CASE MoveCapture
  <2>1. /\ Exists(capture) /\ Whole(capture) /\ "ready" \notin capture
        /\ dest' = [dest EXCEPT ![journal] = capture]
        /\ capture' = Absent /\ local' = local /\ Goto("recover")
    BY <1>14 DEF MoveCapture, IInv, Places, At, Data, Clean
  <2>2. \A n \in Names : dest'[n] = dest[n] \/ dest'[n] = capture
    BY <2>1 DEF IInv, TypeOK
  <2>3. ~Exists(capture') /\ proc'.at = "recover"
    BY <2>1 DEF Exists, Absent, Goto, IInv, TypeOK
  <2> QED BY <2>1, <2>2, <2>3
<1>15. CASE CopySegment
  <2>1. Exists(capture') => Whole(capture')
    BY <1>15 DEF CopySegment, Whole, Manifest
  <2>2. proc'.at \in {"retain", "enter"}
    BY <1>15 DEF CopySegment, Goto, NextPhase, IInv, TypeOK
  <2> QED BY <1>15, <2>1, <2>2 DEF CopySegment
<1>16. CASE RetainCapture
  <2>1. local' = local \cup {"cached"} /\ Goto("relief") /\ UNCHANGED <<capture, dest>>
    BY <1>16 DEF RetainCapture, KeepsLocal
  <2>2. proc'.at = "relief"
    BY <2>1 DEF Goto, IInv, TypeOK
  <2> QED BY <2>1, <2>2 DEF Whole
<1>17. CASE Relieve
  BY <1>4, <1>17 DEF Relieve, KeepsLocal
<1>18. CASE Reconcile \/ MisjudgeCache
  <2>1. /\ local' \in {local, local \ {"cached"}} /\ NextPhase
        /\ UNCHANGED <<capture, dest>>
    BY <1>3, <1>18 DEF Reconcile, MisjudgeCache
  <2>2. proc'.at = "enter" /\ "cached" \notin Files
    BY <2>1, FilesAreNoMarkers DEF NextPhase, Markers
  <2> QED BY <2>1, <2>2 DEF Whole
<1>19. CASE NasFails
  <2>1. UNCHANGED <<local, capture, dest>>
    BY <1>19 DEF NasFails, At
  <2>2. proc.at \in DOMAIN Retried => Retried[proc.at] \in {"copy", "recover", "publish"}
    BY DEF Retried
  <2> QED BY <1>4, <1>19, <2>1, <2>2 DEF NasFails
<1>20. CASE Crash
  <2>1. UNCHANGED <<local, capture, dest>> /\ proc'.at = "enter"
    BY <1>20 DEF Crash, At
  <2> QED BY <2>1
<1> QED
  BY <1>5, <1>6, <1>7, <1>8, <1>9, <1>10, <1>12, <1>13, <1>14, <1>15, <1>16, <1>17, <1>18,
     <1>19, <1>20 DEF Next, RunOnce

\* An uploader that retains local captures and is never pressed for room can find a
\* whole copy at any time, whatever is killed, fails or is deleted half way (Release
\* and Reconcile ask for a published copy first).
THEOREM AlwaysFindable == Spec => []FindableIfKept
<1>1. Init => Kept
  <2> SUFFICES ASSUME Init PROVE StillStaged
    BY DEF Kept
  <2>1. ~Exists(capture) /\ \A n \in Names : ~Exists(dest[n])
    BY DEF Init, Exists, Absent
  <2>2. Whole(local) /\ "staged" \in local /\ "uploaded" \notin local
    BY FilesAreNoMarkers DEF Init, Whole, Markers
  <2>3. proc.at = "enter"
    BY DEF Init
  <2> QED BY <2>1, <2>2, <2>3 DEF StillStaged
<1>2. Kept => FindableIfKept
  BY DEF Kept, PublishedCopy, StillStaged, FindableIfKept, Findable
<1>3. IInv /\ Kept /\ [Next]_vars => Kept'
  BY KeptStep
<1> QED
  BY <1>1, <1>2, <1>3, Invariance, PTL DEF Spec
=============================================================================
