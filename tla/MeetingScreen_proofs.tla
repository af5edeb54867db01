------------------------ MODULE MeetingScreen_proofs ------------------------
(***************************************************************************)
(* Proofs about the meeting screen, one part after the other.               *)
(*                                                                         *)
(* MeetingCapture, for any number of attempts: the session that lives is   *)
(* the one the screen holds, and no microphone outlives the recording on   *)
(* the screen.                                                             *)
(*                                                                         *)
(* MeetingNotesSave, for any number of versions, names, saves and losses:  *)
(* a version of the notes becomes one document, whatever answers are lost, *)
(* and is called applied only when it was applied.                         *)
(*                                                                         *)
(* MeetingTranscription, for any number of meetings, views, requests and   *)
(* losses, while a deletion on its way is the one the screen shows: notes  *)
(* are asked for once, a transcription that runs is on the screen, and a   *)
(* closed screen stays closed.                                             *)
(***************************************************************************)
EXTENDS MeetingCapture, MeetingNotesSave, MeetingTranscription, FiniteSetTheorems, TLAPS

(* Who may act: the newest attempt owns the session, and only attempts that *)
(* were made wait for an answer.                                            *)
Owner ==
  /\ \A a \in Attempts : starting[a] # "none" => a <= attempt
  /\ liveAttempt # 0 => /\ onScreen /\ liveAttempt = attempt
                        /\ starting[liveAttempt] = "session"
                        /\ capturePhase \notin {"idle", "stopped"}
  /\ \A a \in Attempts : onScreen /\ a = attempt /\ starting[a] \in {"microphone", "meeting"}
                        => capturePhase = "starting"

(* The microphone that is on is held, for the newest attempt, which does not *)
(* wait for one any more; nor does an older attempt, when microphones are    *)
(* given in the order they were asked for.                                   *)
Held ==
  /\ openMics \subseteq {captured}
  /\ captured # 0 => /\ captured = attempt
                     /\ \A a \in Attempts : starting[a] # "microphone"

CInv == CaptureTypeOK /\ OneRecording /\ Owner
MInv == CInv /\ Held /\ MicrophoneIsReleased

LEMMA AttemptFacts == MaxAttempts \in Nat \ {0} /\ 0 \notin Attempts /\ Attempts \subseteq Nat
BY MeetingCaptureAssumption DEF Attempts

(* Types, one session, and who owns it, step by step.                        *)
LEMMA CInvInit == CaptureInit => CInv
BY AttemptFacts DEF CaptureInit, CInv, CaptureTypeOK, CapturePhases, OneRecording, Owner

LEMMA CInvNext == CInv /\ [CaptureNext]_captureVars => CInv'
<1> SUFFICES ASSUME CInv, [CaptureNext]_captureVars PROVE CInv'
    OBVIOUS
<1> USE AttemptFacts, MeetingCaptureAssumption
<1> USE DEF CInv, CaptureTypeOK, CapturePhases, OneRecording, Owner, Attempts
<1>1. CASE Start
      BY <1>1 DEF Start, Awaits
<1>2. CASE StopCapture
      BY <1>2 DEF StopCapture, ReleaseCapture, IsCapturingPhase
<1>3. CASE LeaveCapture
  <2>1. \A b \in Attempts : starting'[b] = IF b = liveAttempt THEN "none" ELSE starting[b]
        BY <1>3 DEF LeaveCapture
  <2>2. CaptureTypeOK'
    <3>1. starting' = [b \in Attempts |-> IF b = liveAttempt THEN "none" ELSE starting[b]]
          BY <1>3 DEF LeaveCapture
    <3>2. starting' \in [Attempts -> {"none", "microphone", "meeting", "session"}]
          BY <3>1
    <3>3. /\ UNCHANGED <<capturePhase, attempt>>
          /\ onScreen' = FALSE /\ liveAttempt' = 0 /\ captured' = 0
          /\ openMics' = openMics \ {captured}
          BY <1>3 DEF LeaveCapture, ReleaseCapture
    <3>4. openMics' \subseteq Attempts /\ captured' \in openMics' \union {0}
          BY <3>3
    <3>5. attempt' \in 0..MaxAttempts /\ liveAttempt' \in 0..MaxAttempts
          BY <3>3
    <3>6. capturePhase' \in CapturePhases /\ onScreen' \in BOOLEAN
          BY <3>3
    <3> QED
        BY <3>2, <3>4, <3>5, <3>6
  <2>3. OneRecording'
        BY <1>3, <2>1 DEF LeaveCapture
  <2>4. Owner'
        BY <1>3, <2>1 DEF LeaveCapture
  <2> QED
      BY <2>2, <2>3, <2>4
<1>4. CASE CloseCapture
      BY <1>4 DEF CloseCapture
<1>5. ASSUME NEW a \in Attempts, MicrophoneOpens(a) PROVE CInv'
  <2>1. PICK stage \in {"none", "meeting"} : starting' = [starting EXCEPT ![a] = stage]
        BY <1>5 DEF MicrophoneOpens, Awaits
  <2>2. \A b \in Attempts : starting'[b] = IF b = a THEN stage ELSE starting[b]
        BY <2>1
  <2>3. CaptureTypeOK'
        BY <1>5, <2>1 DEF MicrophoneOpens, NextMicrophone, IsAbandoned, Awaits
  <2>4. OneRecording'
        BY <1>5, <2>2 DEF MicrophoneOpens, NextMicrophone, IsAbandoned, Awaits
  <2>5. Owner'
        BY <1>5, <2>2 DEF MicrophoneOpens, NextMicrophone, IsAbandoned, Awaits
  <2> QED
      BY <2>3, <2>4, <2>5
<1>6. ASSUME NEW a \in Attempts, MicrophoneIsRefused(a) PROVE CInv'
      BY <1>6 DEF MicrophoneIsRefused, NextMicrophone, IsAbandoned, Awaits
<1>7. ASSUME NEW a \in Attempts, MeetingIsCreated(a) PROVE CInv'
  <2>1. PICK stage \in {"none", "session"} : starting' = [starting EXCEPT ![a] = stage]
        BY <1>7 DEF MeetingIsCreated, Awaits
  <2>2. \A b \in Attempts : starting'[b] = IF b = a THEN stage ELSE starting[b]
        BY <2>1
  <2>3. CaptureTypeOK'
        BY <1>7, <2>1 DEF MeetingIsCreated, IsAbandoned, Awaits, ReleaseCapture
  <2>4. OneRecording'
        BY <1>7, <2>2 DEF MeetingIsCreated, IsAbandoned, Awaits, ReleaseCapture
  <2>5. Owner'
        BY <1>7, <2>2 DEF MeetingIsCreated, IsAbandoned, Awaits, ReleaseCapture
  <2> QED
      BY <2>3, <2>4, <2>5
<1>8. ASSUME NEW a \in Attempts, MeetingFails(a) PROVE CInv'
      BY <1>8 DEF MeetingFails, IsAbandoned, Awaits, ReleaseCapture
<1>9. ASSUME NEW a \in Attempts, SessionReports(a) PROVE CInv'
      BY <1>9 DEF SessionReports
<1>10. ASSUME NEW a \in Attempts, SessionStops(a) PROVE CInv'
      BY <1>10 DEF SessionStops, Awaits, ReleaseCapture
<1>11. CASE UNCHANGED captureVars
      BY <1>11 DEF captureVars
<1> QED
    BY <1>1, <1>2, <1>3, <1>4, <1>5, <1>6, <1>7, <1>8, <1>9, <1>10, <1>11 DEF CaptureNext

(* Types, whatever the answers and their order.                              *)
THEOREM CaptureTypeOKTheorem == CaptureSpec => []CaptureTypeOK
<1>1. CInv => CaptureTypeOK
      BY DEF CInv
<1> QED
    BY CInvInit, CInvNext, <1>1, PTL DEF CaptureSpec

(* One session lives at most and it is the one the screen holds              *)
(* (isAbandoned in useMeetingSession.ts), for any number of starts.          *)
THEOREM OneRecordingTheorem == CaptureSpec => []OneRecording
<1>1. CInv => OneRecording
      BY DEF CInv
<1> QED
    BY CInvInit, CInvNext, <1>1, PTL DEF CaptureSpec

(* The microphone, when the browser gives it in the order it was asked for.  *)
LEMMA MInvNext ==
  ASSUME MicrophonesInOrder, MInv, [CaptureNext]_captureVars
  PROVE  MInv'
<1> USE AttemptFacts, MeetingCaptureAssumption
<1> DEFINE H == Held' /\ MicrophoneIsReleased'
<1>c. CInv'
      BY CInvNext DEF MInv
<1> SUFFICES H
    BY <1>c DEF MInv
<1> USE DEF MInv, CInv, CaptureTypeOK, CapturePhases, Owner, OneRecording, Held,
            MicrophoneIsReleased, IsCapturingPhase, Attempts
<1>1. CASE Start
      BY <1>1 DEF Start, Awaits
<1>2. CASE StopCapture
      BY <1>2 DEF StopCapture, ReleaseCapture
<1>3. CASE LeaveCapture
      BY <1>3 DEF LeaveCapture, ReleaseCapture
<1>4. CASE CloseCapture
      BY <1>4 DEF CloseCapture
<1>5. ASSUME NEW a \in Attempts, MicrophoneOpens(a) PROVE H
  <2>1. captured = 0 /\ openMics = {}
        BY <1>5 DEF MicrophoneOpens, NextMicrophone
  <2>2. CASE IsAbandoned(a)
        BY <1>5, <2>1, <2>2 DEF MicrophoneOpens
  <2>3. CASE ~IsAbandoned(a)
    <3>1. a = attempt /\ onScreen
          BY <2>3 DEF IsAbandoned
    <3>2. \A b \in Attempts : starting'[b] # "microphone"
          BY <1>5, <2>3, <3>1 DEF MicrophoneOpens, NextMicrophone, Awaits
    <3>3. capturePhase = "starting"
          BY <1>5, <3>1 DEF MicrophoneOpens, NextMicrophone
    <3> QED
        BY <1>5, <2>1, <2>3, <3>1, <3>2, <3>3 DEF MicrophoneOpens
  <2> QED
      BY <2>2, <2>3
<1>6. ASSUME NEW a \in Attempts, MicrophoneIsRefused(a) PROVE H
      BY <1>6 DEF MicrophoneIsRefused, NextMicrophone, IsAbandoned, Awaits
<1>7. ASSUME NEW a \in Attempts, MeetingIsCreated(a) PROVE H
      BY <1>7 DEF MeetingIsCreated, IsAbandoned, Awaits, ReleaseCapture
<1>8. ASSUME NEW a \in Attempts, MeetingFails(a) PROVE H
      BY <1>8 DEF MeetingFails, IsAbandoned, Awaits, ReleaseCapture
<1>9. ASSUME NEW a \in Attempts, SessionReports(a) PROVE H
      BY <1>9 DEF SessionReports
<1>10. ASSUME NEW a \in Attempts, SessionStops(a) PROVE H
      BY <1>10 DEF SessionStops, Awaits, ReleaseCapture
<1>11. CASE UNCHANGED captureVars
      BY <1>11 DEF captureVars
<1> QED
    BY <1>1, <1>2, <1>3, <1>4, <1>5, <1>6, <1>7, <1>8, <1>9, <1>10, <1>11 DEF CaptureNext

(* No microphone stays on when the screen shows no recording or is gone      *)
(* (releaseCapture), if the browser gives microphones in the order they were *)
(* asked for.                                                                *)
THEOREM MicrophoneIsReleasedTheorem ==
  ASSUME MicrophonesInOrder
  PROVE  CaptureSpec => []MicrophoneIsReleased
<1>1. CaptureInit => MInv
      BY CInvInit DEF MInv, CaptureInit, Held, MicrophoneIsReleased
<1>2. MInv /\ [CaptureNext]_captureVars => MInv'
      BY MInvNext
<1>3. MInv => MicrophoneIsReleased
      BY DEF MInv
<1> QED
    BY <1>1, <1>2, <1>3, PTL DEF CaptureSpec

-----------------------------------------------------------------------------
(* MeetingNotesSave: the key of a save is drawn once per version and kept by  *)
(* the attempt; the documents there are of that attempt, so that saving again *)
(* finds what a lost answer made.                                            *)

ViewRec == [phase : {"generating", "ready", "saving", "previewing", "applied", "stopped"}, notes : 0..MaxVersions,
            preview : Nat, pending : BOOLEAN]
AutoRec == [enabled : BOOLEAN, wasGenerating : BOOLEAN, tried : SUBSET Versions]
AttemptRec == [version : 0..MaxVersions, name : Nat, key : Nat]
SaverRec == [stage : {"none", "create", "created", "duplicate", "preview", "append", "failed"},
             version : 0..MaxVersions, name : Nat, key : Nat, sent : 0..MaxNameAttempts, base : Nat]
StoreRec == [newest : Versions, asked : BOOLEAN, applied : [Versions -> Int],
             documents : SUBSET [version : Versions, key : Nat, name : Nat], taken : SUBSET Nat, revision : Nat]
UsedRec == [saves : Nat, losses : Nat, auto : [Versions -> Nat]]

\* The records the variables hold.
NotesFields ==
  /\ view \in ViewRec /\ auto \in AutoRec /\ attemptRef \in AttemptRec /\ saver \in SaverRec
  /\ keys \in Nat /\ store \in StoreRec /\ used \in UsedRec

\* Keys count from one; zero and minus one are none and another tab's.
KeysAreDrawn ==
  /\ attemptRef.key <= keys /\ saver.key <= keys
  /\ \A v \in Versions : store.applied[v] \in -1..keys
  /\ \A d \in store.documents : d.key \in 1..keys
  /\ attemptRef.version # 0 => attemptRef.key # 0

\* Versions only grow; a save is of the version that is shown.
VersionsInOrder ==
  /\ view.notes <= store.newest /\ attemptRef.version <= view.notes
  /\ store.asked => store.newest < MaxVersions
  /\ view.phase = "saving" <=> saver.stage # "none"
  /\ view.phase \in {"saving", "previewing"} => view.notes # 0
  /\ saver.stage \notin {"none", "failed"} => saver.version = view.notes

\* The documents of the attempt's version are those of the attempt.
Attempted ==
  /\ \A d \in store.documents : /\ d.version <= attemptRef.version
                                /\ d.version = attemptRef.version => d.key = attemptRef.key
  /\ \A d, e \in store.documents : d.version = e.version => d = e
  /\ saver.stage \in {"create", "created", "duplicate"} =>
       saver.version = attemptRef.version /\ saver.key = attemptRef.key
  /\ saver.stage = "duplicate" => \A d \in store.documents : d.key # saver.key
  /\ saver.stage = "created" => store.applied[saver.version] # 0

TriedOnce == \A v \in Versions : used.auto[v] = IF v \in auto.tried THEN 1 ELSE 0

NotesInv == NotesFields /\ KeysAreDrawn /\ VersionsInOrder /\ Attempted /\ TriedOnce /\ AppliedIsTrue

LEMMA NotesInvImplies == NotesInv => NotesTypeOK /\ NotesAreSavedOnce
<1> SUFFICES ASSUME NotesInv  PROVE NotesTypeOK /\ NotesAreSavedOnce
  OBVIOUS
<1>1. NotesTypeOK
  <2>1. store.applied \in [Versions -> -1..keys]
    BY DEF NotesInv, NotesFields, ViewRec, AutoRec, AttemptRec, SaverRec, StoreRec, UsedRec, KeysAreDrawn
  <2>2. \A d \in store.documents : d.version \in Versions /\ d.key \in 1..keys
    BY DEF NotesInv, NotesFields, ViewRec, AutoRec, AttemptRec, SaverRec, StoreRec, UsedRec, KeysAreDrawn
  <2>3. attemptRef.key \in 0..keys
    BY DEF NotesInv, NotesFields, ViewRec, AutoRec, AttemptRec, SaverRec, StoreRec, UsedRec, KeysAreDrawn
  <2> QED  BY <2>1, <2>2, <2>3 DEF NotesInv, NotesFields, ViewRec, AutoRec, AttemptRec, SaverRec, StoreRec, UsedRec,
           NotesTypeOK
<1>2. ASSUME NEW v \in Versions  PROVE Cardinality({d \in store.documents : d.version = v}) <= 1
  <2>1. CASE {d \in store.documents : d.version = v} = {}
    BY <2>1, FS_EmptySet
  <2>2. CASE \E d : d \in {e \in store.documents : e.version = v}
    <3>1. PICK d : d \in {e \in store.documents : e.version = v}
      BY <2>2
    <3>2. {e \in store.documents : e.version = v} = {d}
      BY <3>1 DEF NotesInv, Attempted
    <3> QED  BY <3>2, FS_Singleton
  <2> QED  BY <2>1, <2>2
<1>3. \A v \in Versions : used.auto[v] <= 1
  BY DEF NotesInv, TriedOnce
<1> QED  BY <1>1, <1>2, <1>3 DEF NotesInv, NotesAreSavedOnce, OneDocument

\* The fields of the variables, one by one.
Scalars ==
  /\ view.notes \in Nat /\ attemptRef.version \in Nat /\ saver.version \in Nat
  /\ view.notes <= MaxVersions /\ attemptRef.version <= MaxVersions /\ saver.version <= MaxVersions
  /\ attemptRef.key \in Nat /\ attemptRef.name \in Nat /\ saver.key \in Nat /\ saver.name \in Nat /\ keys \in Nat
  /\ saver.sent \in Nat /\ saver.sent <= MaxNameAttempts
  /\ store.newest \in Nat /\ 1 <= store.newest /\ store.newest <= MaxVersions /\ MaxVersions \in Nat
  /\ store.applied \in [Versions -> Int]
  /\ \A v : v \in Versions <=> v \in Nat /\ 1 <= v /\ v <= MaxVersions
  /\ \A d \in store.documents : d.version \in Nat /\ d.key \in Nat
  /\ auto.tried \subseteq Versions /\ used.auto \in [Versions -> Nat]

LEMMA ScalarsLemma == NotesFields => Scalars
<1> SUFFICES ASSUME NotesFields  PROVE Scalars
  OBVIOUS
<1>1. \A d \in store.documents : d.version \in Nat /\ d.key \in Nat
  <2>1. store.documents \subseteq [version : Versions, key : Nat, name : Nat]
    BY DEF NotesFields, ViewRec, AutoRec, AttemptRec, SaverRec, StoreRec, UsedRec
  <2> QED  BY <2>1, MeetingNotesSaveAssumption DEF Versions
<1>2. \A v : v \in Versions <=> v \in Nat /\ 1 <= v /\ v <= MaxVersions
  BY MeetingNotesSaveAssumption DEF Versions
<1>3. /\ view.notes \in 0..MaxVersions /\ attemptRef.version \in 0..MaxVersions /\ saver.version \in 0..MaxVersions
      /\ attemptRef.key \in Nat /\ attemptRef.name \in Nat /\ saver.key \in Nat /\ saver.name \in Nat
      /\ keys \in Nat /\ saver.sent \in 0..MaxNameAttempts /\ store.newest \in Versions
      /\ store.applied \in [Versions -> Int] /\ auto.tried \subseteq Versions /\ used.auto \in [Versions -> Nat]
  BY DEF NotesFields, ViewRec, AutoRec, AttemptRec, SaverRec, StoreRec, UsedRec
<1> HIDE DEF NotesFields
<1> QED  BY <1>1, <1>2, <1>3, MeetingNotesSaveAssumption DEF Scalars

LEMMA NotesInvInit == NotesInit => NotesInv
<1> SUFFICES ASSUME NotesInit  PROVE NotesInv
  OBVIOUS
<1> USE MeetingNotesSaveAssumption
<1>1. NotesFields
  BY DEF NotesInit, NotesFields, ViewRec, AutoRec, AttemptRec, SaverRec, StoreRec, UsedRec, NoAttempt, NoSave, Versions
<1> QED  BY <1>1 DEF NotesInit, NotesInv, KeysAreDrawn, VersionsInOrder, Attempted, TriedOnce, AppliedIsTrue,
         NoAttempt, NoSave, Versions

LEMMA SaveLemma ==
  ASSUME NotesInv, SaveAsNewDocument, view.phase = "ready", view.notes # 0, store' = store,
         auto' \in AutoRec,
         used' \in UsedRec, TriedOnce'
  PROVE  NotesInv'
<1>0. Scalars /\ KeysAreDrawn /\ VersionsInOrder /\ Attempted /\ NotesFields
  BY ScalarsLemma DEF NotesInv
<1> DEFINE tried == Attempt(view.notes)
<1>1. /\ tried.version = view.notes /\ tried.key # 0 /\ tried.key \in Nat /\ tried.name \in Nat
      /\ tried = attemptRef \/ (tried.key = keys + 1 /\ attemptRef.version < tried.version)
      /\ tried \in [version : 0..MaxVersions, name : Nat, key : Nat]
  <2>1. CASE attemptRef.version = view.notes
    BY <1>0, <2>1 DEF Attempt, NotesFields, ViewRec, AutoRec, AttemptRec, SaverRec, StoreRec, UsedRec, Scalars,
         KeysAreDrawn
  <2>2. CASE attemptRef.version # view.notes
    BY <1>0, <2>2 DEF Attempt, Scalars, VersionsInOrder
  <2> QED  BY <2>1, <2>2
<1>2. /\ attemptRef' = tried /\ keys' = (IF tried.key > keys THEN tried.key ELSE keys)
      /\ view' = [view EXCEPT !.phase = "saving", !.pending = TRUE]
      /\ saver' = [stage |-> "create", version |-> tried.version, name |-> tried.name, key |-> tried.key,
                   sent |-> 1, base |-> 0]
  BY DEF SaveAsNewDocument, ShowsNotes, NoSave
<1> HIDE DEF tried
<1>3. keys' \in Nat /\ keys <= keys' /\ tried.key <= keys'
  BY <1>0, <1>1, <1>2 DEF Scalars, KeysAreDrawn
<1>4. NotesFields'
  <2>1. view' \in [phase : {"generating", "ready", "saving", "previewing", "applied", "stopped"},
                   notes : 0..MaxVersions, preview : Nat, pending : BOOLEAN]
    BY <1>0, <1>2 DEF NotesFields, ViewRec, AutoRec, AttemptRec, SaverRec, StoreRec, UsedRec
  <2>2. saver' \in [stage : {"none", "create", "created", "duplicate", "preview", "append", "failed"},
                    version : 0..MaxVersions, name : Nat, key : Nat, sent : 0..MaxNameAttempts, base : Nat]
    BY <1>0, <1>1, <1>2, MeetingNotesSaveAssumption DEF Scalars
  <2> QED  BY <1>0, <1>1, <1>2, <1>3, <2>1, <2>2 DEF NotesFields, ViewRec, AutoRec, AttemptRec, SaverRec, StoreRec,
           UsedRec
<1>5. /\ view'.phase = "saving" /\ view'.notes = view.notes
      /\ saver'.stage = "create" /\ saver'.version = view.notes /\ saver'.key = tried.key
  BY <1>0, <1>1, <1>2 DEF NotesFields, ViewRec, AutoRec, AttemptRec, SaverRec, StoreRec, UsedRec
<1> HIDE DEF NotesFields
<1>a. attemptRef' = tried /\ keys' \in Nat /\ keys <= keys' /\ tried.key <= keys' /\ tried.key # 0
  BY <1>1, <1>2, <1>3
<1>b. keys \in Nat /\ Versions' = Versions /\ store' = store
  BY <1>0 DEF Scalars
<1>6. KeysAreDrawn'
  <2>1. /\ \A v \in Versions : store.applied[v] \in -1..keys
        /\ \A d \in store.documents : d.key \in 1..keys
    BY <1>0 DEF KeysAreDrawn
  <2> QED  BY <1>a, <1>b, <1>5, <2>1 DEF KeysAreDrawn
<1>7. VersionsInOrder'
  BY <1>0, <1>1, <1>2, <1>5 DEF Scalars, VersionsInOrder
<1>8. Attempted'
  <2>1. \A d \in store.documents :
          d.version <= tried.version /\ (d.version = tried.version => d.key = tried.key)
    <3>1. \A d \in store.documents :
            d.version <= attemptRef.version /\ (d.version = attemptRef.version => d.key = attemptRef.key)
      BY <1>0 DEF Attempted
    <3>4. \A d \in store.documents : d.version \in Int
      BY <1>0 DEF Scalars
    <3>2. tried.version \in Int /\ attemptRef.version \in Int
      BY <1>0, <1>1 DEF Scalars
    <3>3. tried = attemptRef \/ attemptRef.version < tried.version
      BY <1>1
    <3> QED  BY <3>1, <3>2, <3>3, <3>4
  <2>2. \A d, e \in store.documents : d.version = e.version => d = e
    BY <1>0 DEF Attempted
  <2>3. /\ saver'.stage = "create" /\ saver'.version = attemptRef'.version /\ saver'.key = attemptRef'.key
        /\ attemptRef' = tried /\ store' = store
    BY <1>1, <1>5, <1>a, <1>b
  <2> QED  BY <2>1, <2>2, <2>3 DEF Attempted
<1>9. AppliedIsTrue'
  BY <1>5 DEF AppliedIsTrue
<1> QED  BY <1>4, <1>6, <1>7, <1>8, <1>9 DEF NotesInv

LEMMA RenderStep == ASSUME NotesInv, RenderNotes  PROVE NotesInv'
<1>0. Scalars /\ KeysAreDrawn /\ VersionsInOrder /\ Attempted /\ NotesFields /\ TriedOnce /\ AppliedIsTrue
  BY ScalarsLemma DEF NotesInv
<1>1. CASE /\ view.phase = "ready" /\ view.notes # 0 /\ view.notes \notin auto.tried
           /\ auto' = [auto EXCEPT !.wasGenerating = FALSE, !.tried = @ \union {view.notes}]
           /\ used' = [used EXCEPT !.auto[view.notes] = @ + 1]
           /\ SaveAsNewDocument /\ store' = store
  <2>1. view.notes \in Versions
    BY <1>0, <1>1 DEF Scalars
  <2>2. auto'.tried = auto.tried \union {view.notes} /\ used'.auto = [used.auto EXCEPT ![view.notes] = @ + 1]
    BY <1>0, <1>1 DEF NotesFields, ViewRec, AutoRec, AttemptRec, SaverRec, StoreRec, UsedRec
  <2>3. auto' \in AutoRec
    BY <1>0, <1>1, <2>1 DEF NotesFields, ViewRec, AutoRec, AttemptRec, SaverRec, StoreRec, UsedRec
  <2>4. used' \in UsedRec
    <3>1. [used.auto EXCEPT ![view.notes] = @ + 1] \in [Versions -> Nat]
      <4>1. used.auto \in [Versions -> Nat]
        BY <1>0 DEF Scalars
      <4> QED  BY <2>1, <4>1
    <3> QED  BY <1>0, <1>1, <3>1 DEF NotesFields, ViewRec, AutoRec, AttemptRec, SaverRec, StoreRec, UsedRec
  <2>5. TriedOnce'
    BY <1>0, <1>1, <2>1, <2>2 DEF TriedOnce, Scalars
  <2> QED  BY <1>1, <2>3, <2>4, <2>5, SaveLemma
<1>2. CASE /\ auto' = [auto EXCEPT !.wasGenerating = view.phase = "generating"]
           /\ view' = [view EXCEPT !.pending = FALSE]
           /\ UNCHANGED <<attemptRef, saver, keys, used, store>>
  <2>1. NotesFields'
    BY <1>0, <1>2 DEF NotesFields, ViewRec, AutoRec, AttemptRec, SaverRec, StoreRec, UsedRec
  <2>2. auto'.tried = auto.tried /\ view'.phase = view.phase /\ view'.notes = view.notes
    BY <1>0, <1>2 DEF NotesFields, ViewRec, AutoRec, AttemptRec, SaverRec, StoreRec, UsedRec
  <2> QED  BY <1>0, <1>2, <2>1, <2>2 DEF NotesInv, KeysAreDrawn, VersionsInOrder, Attempted, TriedOnce, AppliedIsTrue
<1> QED  BY <1>1, <1>2 DEF RenderNotes

LEMMA SaveClickedStep == ASSUME NotesInv, Save  PROVE NotesInv'
<1>1. view.phase = "ready" /\ view.notes # 0 /\ SaveAsNewDocument /\ store' = store /\ auto' = auto
      /\ used' = [used EXCEPT !.saves = used.saves + 1]
  BY DEF Save, NotesUserActs, Clicked
<1>2. used' \in UsedRec /\ TriedOnce'
  BY <1>1 DEF NotesInv, NotesFields, ViewRec, AutoRec, AttemptRec, SaverRec, StoreRec, UsedRec, TriedOnce
<1> QED  BY <1>1, <1>2, SaveLemma DEF NotesInv, NotesFields, ViewRec, AutoRec, AttemptRec, SaverRec, StoreRec, UsedRec

\* A step that makes no document, draws no key and tries nothing automatically.
Quiet ==
  /\ UNCHANGED <<attemptRef, keys>> /\ auto'.tried = auto.tried /\ used'.auto = used.auto
  /\ store'.documents = store.documents
  /\ \A v \in Versions : store'.applied[v] = store.applied[v] \/ store'.applied[v] = -1
  /\ store.newest <= store'.newest /\ (store'.asked => store'.newest < MaxVersions)
  /\ view.notes <= view'.notes /\ view'.notes <= store'.newest
  /\ view'.phase = "saving" <=> saver'.stage # "none"
  /\ view'.phase \in {"saving", "previewing"} => view'.notes # 0
  /\ \/ saver' = saver /\ (view'.notes = view.notes \/ saver.stage = "none")
     \/ saver'.stage \in {"none", "failed"}
     \/ saver'.stage \in {"preview", "append"} /\ saver'.version = view'.notes
  /\ saver'.key <= keys
  /\ view'.phase = "applied" => \/ view.phase = "applied" /\ view'.notes = view.notes
                              \/ \E v \in Versions : store'.applied[v] # 0 /\ v >= view'.notes

LEMMA QuietLemma == ASSUME NotesInv, NotesFields', Quiet  PROVE NotesInv'
<1>1. Scalars /\ KeysAreDrawn /\ VersionsInOrder /\ Attempted /\ TriedOnce /\ AppliedIsTrue
  BY ScalarsLemma DEF NotesInv
<1>2. Scalars'
  BY ScalarsLemma, PTL
<1>3. KeysAreDrawn'
  <2>1. \A v \in Versions : store'.applied[v] \in -1..keys
    <3>1. \A v \in Versions : store.applied[v] \in -1..keys /\ -1 \in -1..keys
      BY <1>1 DEF KeysAreDrawn, Scalars
    <3> QED  BY <3>1 DEF Quiet
  <2> QED  BY <1>1, <2>1 DEF KeysAreDrawn, Quiet, Versions
<1>4. VersionsInOrder'
  <2>1. attemptRef'.version <= view'.notes
    BY <1>1, <1>2 DEF Quiet, VersionsInOrder, Scalars
  <2> QED  BY <1>1, <2>1 DEF VersionsInOrder, Quiet
<1>5. Attempted'
  <2>1. saver' = saver => store'.applied[saver.version] # 0 \/ saver.stage # "created"
    <3>1. saver.stage = "created" => saver.version \in Versions /\ store.applied[saver.version] # 0
      BY <1>1 DEF Attempted, VersionsInOrder, Scalars
    <3> QED  BY <3>1 DEF Quiet
  <2> QED  BY <1>1, <2>1 DEF Attempted, Quiet
<1>6. TriedOnce'
  BY <1>1 DEF TriedOnce, Quiet, Versions
<1>7. AppliedIsTrue'
  BY <1>1 DEF AppliedIsTrue, Quiet, Versions
<1> QED  BY <1>3, <1>4, <1>5, <1>6, <1>7 DEF NotesInv

LEMMA FinishLemma == ASSUME NotesFields, FinishSave
  PROVE /\ view' \in ViewRec /\ view'.phase = "applied" /\ view'.notes = view.notes
        /\ saver' \in SaverRec /\ saver'.stage = "none" /\ saver'.key = 0
<1>1. view' \in ViewRec /\ view'.phase = "applied" /\ view'.notes = view.notes
  BY DEF NotesFields, ViewRec, FinishSave
<1>2. saver' \in SaverRec /\ saver'.stage = "none" /\ saver'.key = 0
  BY MeetingNotesSaveAssumption DEF SaverRec, FinishSave, NoSave
<1> QED  BY <1>1, <1>2

LEMMA FailedLemma == ASSUME NotesFields, saver' = [saver EXCEPT !.stage = "failed"]
  PROVE saver' \in SaverRec /\ saver'.stage = "failed" /\ saver'.key = saver.key
BY DEF NotesFields, SaverRec

LEMMA LostLemma == ASSUME NotesFields, used' = Lost  PROVE used' \in UsedRec /\ used'.auto = used.auto
BY DEF NotesFields, UsedRec, Lost

LEMMA BeginsLemma ==
  ASSUME NotesFields, NEW st \in {"preview", "append"}, NEW r \in Nat, ShowsNotes("saving"),
         saver' = [stage |-> st, version |-> view.notes, name |-> 0, key |-> 0, sent |-> 0, base |-> r]
  PROVE /\ view' \in ViewRec /\ view'.phase = "saving" /\ view'.notes = view.notes
        /\ saver' \in SaverRec /\ saver'.stage = st /\ saver'.version = view.notes /\ saver'.key = 0
<1>1. view' \in ViewRec /\ view'.phase = "saving" /\ view'.notes = view.notes
  BY DEF NotesFields, ViewRec, ShowsNotes
<1>3. view.notes \in 0..MaxVersions /\ 0 \in 0..MaxNameAttempts
  BY MeetingNotesSaveAssumption DEF NotesFields, ViewRec
<1>4. saver' \in SaverRec
  BY <1>3 DEF SaverRec
<1>5. saver'.stage = st /\ saver'.version = view.notes /\ saver'.key = 0
  OBVIOUS
<1> QED  BY <1>1, <1>4, <1>5

LEMMA CreatedStep == ASSUME NotesInv, Created  PROVE NotesInv'
<1>1. Scalars /\ KeysAreDrawn /\ VersionsInOrder /\ NotesFields
  BY ScalarsLemma DEF NotesInv
<1>2. FinishSave /\ saver.stage = "created" /\ UNCHANGED <<auto, attemptRef, keys, store, used>>
  BY DEF Created
<1>3. \E v \in Versions : store.applied[v] # 0 /\ v >= view.notes
  BY <1>1, <1>2 DEF NotesInv, Attempted, VersionsInOrder, Scalars
<1>8. NotesFields'
  BY <1>1, <1>2, FinishLemma DEF NotesFields, Versions, StoreRec, AutoRec, UsedRec
<1>9. Quiet
  BY <1>1, <1>2, <1>3, FinishLemma DEF Quiet, Scalars, KeysAreDrawn, VersionsInOrder
<1> QED  BY <1>8, <1>9, QuietLemma

LEMMA HandleSaveFailureStep == ASSUME NotesInv, HandleSaveFailure  PROVE NotesInv'
<1>1. Scalars /\ KeysAreDrawn /\ VersionsInOrder /\ NotesFields
  BY ScalarsLemma DEF NotesInv
<1>2. saver.stage = "failed" /\ UNCHANGED <<auto, attemptRef, keys, store>>
  BY DEF HandleSaveFailure
<1>3. CASE IsSaved /\ FinishSave /\ UNCHANGED used
  <2>1. \E v \in Versions : store.applied[v] # 0 /\ v >= view.notes
    BY <1>1, <1>3 DEF VersionsInOrder, Scalars, IsSaved
  <2>2. NotesFields'
    BY <1>1, <1>2, <1>3, FinishLemma DEF NotesFields
  <2>9. Quiet
    BY <1>1, <1>2, <1>3, <2>1, <2>2, FinishLemma DEF Quiet, Scalars, KeysAreDrawn, VersionsInOrder
  <2> QED  BY <2>2, <2>9, QuietLemma
<1>4. CASE /\ used' = Lost \/ UNCHANGED used
           /\ view' = [view EXCEPT !.phase = "ready", !.preview = 0, !.pending = TRUE]
           /\ saver' = NoSave
  <2>1. used' \in UsedRec /\ used'.auto = used.auto
    BY <1>1, <1>4, LostLemma DEF NotesFields
  <2>2. view' \in ViewRec /\ view'.phase = "ready" /\ view'.notes = view.notes
    BY <1>1, <1>4 DEF NotesFields, ViewRec
  <2>3. saver' \in SaverRec /\ saver'.stage = "none" /\ saver'.key = 0
    BY <1>4, MeetingNotesSaveAssumption DEF NoSave, SaverRec
  <2>8. NotesFields'
    BY <1>1, <1>2, <2>1, <2>2, <2>3 DEF NotesFields
  <2>9. Quiet
    BY <1>1, <1>2, <2>1, <2>2, <2>3 DEF Quiet, Scalars, KeysAreDrawn, VersionsInOrder
  <2> QED  BY <2>8, <2>9, QuietLemma
<1> QED  BY <1>3, <1>4 DEF HandleSaveFailure

LEMMA PreviewAppendStep == ASSUME NotesInv, PreviewAppend  PROVE NotesInv'
<1>1. Scalars /\ KeysAreDrawn /\ VersionsInOrder /\ NotesFields
  BY ScalarsLemma DEF NotesInv
<1>2. /\ view.phase = "ready" /\ view.notes # 0 /\ ShowsNotes("saving")
      /\ used' = [used EXCEPT !.saves = @ + 1]
      /\ saver' = [stage |-> "preview", version |-> view.notes, name |-> 0, key |-> 0, sent |-> 0, base |-> 0]
      /\ UNCHANGED <<auto, attemptRef, keys, store>>
  BY DEF PreviewAppend, NotesUserActs, Clicked, NoSave
<1>3. used' \in UsedRec /\ used'.auto = used.auto
  BY <1>1, <1>2 DEF NotesFields, UsedRec
<1>4. /\ view' \in ViewRec /\ view'.phase = "saving" /\ view'.notes = view.notes
      /\ saver' \in SaverRec /\ saver'.stage = "preview" /\ saver'.version = view.notes /\ saver'.key = 0
  BY <1>1, <1>2, BeginsLemma
<1>8. NotesFields'
  BY <1>1, <1>2, <1>3, <1>4 DEF NotesFields
<1>9. Quiet
  BY <1>1, <1>2, <1>3, <1>4 DEF Quiet, Scalars, KeysAreDrawn, VersionsInOrder
<1> QED  BY <1>8, <1>9, QuietLemma

LEMMA ConfirmAppendStep == ASSUME NotesInv, ConfirmAppend  PROVE NotesInv'
<1>1. Scalars /\ KeysAreDrawn /\ VersionsInOrder /\ NotesFields
  BY ScalarsLemma DEF NotesInv
<1>2. /\ view.phase = "previewing" /\ ShowsNotes("saving")
      /\ saver' = [stage |-> "append", version |-> view.notes, name |-> 0, key |-> 0, sent |-> 0, base |-> view.preview]
      /\ UNCHANGED <<auto, attemptRef, keys, store, used>>
  BY DEF ConfirmAppend, NoSave
<1>3. view.preview \in Nat
  BY <1>1 DEF NotesFields, ViewRec
<1>4. /\ view' \in ViewRec /\ view'.phase = "saving" /\ view'.notes = view.notes
      /\ saver' \in SaverRec /\ saver'.stage = "append" /\ saver'.version = view.notes /\ saver'.key = 0
  BY <1>1, <1>2, <1>3, BeginsLemma
<1>8. NotesFields'
  BY <1>1, <1>2, <1>4 DEF NotesFields
<1>9. Quiet
  BY <1>1, <1>2, <1>4 DEF Quiet, Scalars, KeysAreDrawn, VersionsInOrder
<1> QED  BY <1>8, <1>9, QuietLemma

LEMMA PreviewedStep == ASSUME NotesInv, Previewed  PROVE NotesInv'
<1>1. Scalars /\ KeysAreDrawn /\ VersionsInOrder /\ NotesFields
  BY ScalarsLemma DEF NotesInv
<1>2. saver.stage = "preview" /\ view.phase = "saving" /\ UNCHANGED <<auto, attemptRef, keys, store>>
  BY <1>1 DEF Previewed, VersionsInOrder
<1>3. CASE /\ view' = [view EXCEPT !.phase = "previewing", !.preview = store.revision, !.pending = TRUE]
           /\ saver' = NoSave /\ UNCHANGED used
  <2>1. store.revision \in Nat
    BY <1>1 DEF NotesFields, StoreRec
  <2>2. view' \in ViewRec /\ view'.phase = "previewing" /\ view'.notes = view.notes
    BY <1>1, <1>3, <2>1 DEF NotesFields, ViewRec
  <2>3. saver' \in SaverRec /\ saver'.stage = "none" /\ saver'.key = 0
    BY <1>3, MeetingNotesSaveAssumption DEF NoSave, SaverRec
  <2>8. NotesFields'
    BY <1>1, <1>2, <1>3, <2>2, <2>3 DEF NotesFields
  <2>9. Quiet
    BY <1>1, <1>2, <1>3, <2>2, <2>3 DEF Quiet, Scalars, KeysAreDrawn, VersionsInOrder
  <2> QED  BY <2>8, <2>9, QuietLemma
<1>4. CASE (used' = Lost \/ UNCHANGED used) /\ saver' = [saver EXCEPT !.stage = "failed"] /\ UNCHANGED view
  <2>1. used' \in UsedRec /\ used'.auto = used.auto
    BY <1>1, <1>4, LostLemma DEF NotesFields
  <2>8. NotesFields'
    BY <1>1, <1>2, <1>4, <2>1, FailedLemma DEF NotesFields
  <2>9. Quiet
    BY <1>1, <1>2, <1>4, <2>1, FailedLemma DEF Quiet, Scalars, KeysAreDrawn, VersionsInOrder
  <2> QED  BY <2>8, <2>9, QuietLemma
<1> QED  BY <1>3, <1>4 DEF Previewed

LEMMA CancelPreviewStep == ASSUME NotesInv, CancelPreview  PROVE NotesInv'
<1>1. Scalars /\ KeysAreDrawn /\ VersionsInOrder /\ NotesFields
  BY ScalarsLemma DEF NotesInv
<1>2. /\ view.phase = "previewing" /\ UNCHANGED <<auto, attemptRef, saver, keys, store, used>>
      /\ view' \in ViewRec /\ view'.phase = "ready" /\ view'.notes = view.notes
  BY <1>1 DEF CancelPreview, NotesFields, ViewRec
<1>8. NotesFields'
  BY <1>1, <1>2 DEF NotesFields
<1>9. Quiet
  BY <1>1, <1>2 DEF Quiet, Scalars, KeysAreDrawn, VersionsInOrder
<1> QED  BY <1>8, <1>9, QuietLemma

LEMMA NewVersionStep == ASSUME NotesInv, NewVersion  PROVE NotesInv'
<1>1. Scalars /\ KeysAreDrawn /\ VersionsInOrder /\ NotesFields
  BY ScalarsLemma DEF NotesInv
<1>2. /\ view.phase \in {"ready", "stopped"} /\ store.newest < MaxVersions
      /\ UNCHANGED <<auto, attemptRef, saver, keys, used>>
      /\ view' \in ViewRec /\ view'.phase = "generating" /\ view'.notes = view.notes
  BY <1>1 DEF NewVersion, NotesFields, ViewRec, ShowsNotes
<1>3. /\ store' \in StoreRec /\ store'.newest = store.newest /\ store'.documents = store.documents
      /\ store'.applied = store.applied
  BY <1>1 DEF NewVersion, NotesFields, StoreRec
<1>8. NotesFields'
  BY <1>1, <1>2, <1>3 DEF NotesFields
<1>9. Quiet
  BY <1>1, <1>2, <1>3 DEF Quiet, Scalars, KeysAreDrawn, VersionsInOrder
<1> QED  BY <1>8, <1>9, QuietLemma

LEMMA ServerGeneratesStep == ASSUME NotesInv, ServerGenerates  PROVE NotesInv'
<1>1. Scalars /\ KeysAreDrawn /\ VersionsInOrder /\ NotesFields
  BY ScalarsLemma DEF NotesInv
<1>2. store.asked /\ UNCHANGED <<view, auto, attemptRef, saver, keys, used>>
  BY DEF ServerGenerates
<1>3. store.newest + 1 \in Versions
  BY <1>1, <1>2 DEF VersionsInOrder, Scalars
<1>4. /\ store' \in StoreRec /\ store'.newest = store.newest + 1 /\ store'.documents = store.documents
      /\ store'.applied = store.applied /\ store'.asked = FALSE
  BY <1>1, <1>3 DEF ServerGenerates, NotesFields, StoreRec
<1>8. NotesFields'
  BY <1>1, <1>2, <1>4 DEF NotesFields
<1>9. Quiet
  BY <1>1, <1>2, <1>4 DEF Quiet, NotesInv, AppliedIsTrue, Scalars, KeysAreDrawn, VersionsInOrder
<1> QED  BY <1>8, <1>9, QuietLemma

LEMMA NotesArriveStep == ASSUME NotesInv, NotesArrive  PROVE NotesInv'
<1>1. Scalars /\ KeysAreDrawn /\ VersionsInOrder /\ NotesFields
  BY ScalarsLemma DEF NotesInv
<1>2. view.phase = "generating" /\ UNCHANGED <<auto, attemptRef, saver, keys, store, used>>
  BY DEF NotesArrive
<1>3. store.newest \in 0..MaxVersions /\ store.newest \in Versions
  BY <1>1 DEF Scalars
<1>4. CASE view' = [view EXCEPT !.phase = "stopped", !.pending = TRUE]
  <2>1. view' \in ViewRec /\ view'.phase = "stopped" /\ view'.notes = view.notes
    BY <1>1, <1>4 DEF NotesFields, ViewRec
  <2>8. NotesFields'
    BY <1>1, <1>2, <2>1 DEF NotesFields
  <2>9. Quiet
    BY <1>1, <1>2, <2>1 DEF Quiet, Scalars, KeysAreDrawn, VersionsInOrder
  <2> QED  BY <2>8, <2>9, QuietLemma
<1>5. CASE view' = [view EXCEPT !.phase = IF store.applied[store.newest] # 0 THEN "applied" ELSE "ready",
                    !.notes = store.newest, !.pending = TRUE]
  <2>1. /\ view' \in ViewRec /\ view'.notes = store.newest
        /\ view'.phase = IF store.applied[store.newest] # 0 THEN "applied" ELSE "ready"
    BY <1>1, <1>3, <1>5 DEF NotesFields, ViewRec
  <2>2. saver.stage = "none"
    BY <1>1, <1>2 DEF VersionsInOrder
  <2>8. NotesFields'
    BY <1>1, <1>2, <1>3, <2>1, <2>2 DEF NotesFields
  <2>9. Quiet
    BY <1>1, <1>2, <1>3, <2>1, <2>2 DEF Quiet, Scalars, KeysAreDrawn, VersionsInOrder
  <2> QED  BY <2>8, <2>9, QuietLemma
<1> QED  BY <1>4, <1>5 DEF NotesArrive

LEMMA EnableStep == ASSUME NotesInv, Enable  PROVE NotesInv'
<1>1. Scalars /\ KeysAreDrawn /\ VersionsInOrder /\ NotesFields
  BY ScalarsLemma DEF NotesInv
<1>2. /\ UNCHANGED <<attemptRef, saver, keys, store, used>>
      /\ view' \in ViewRec /\ view'.phase = view.phase /\ view'.notes = view.notes
      /\ auto' \in AutoRec /\ auto'.tried = auto.tried
  BY <1>1 DEF Enable, NotesFields, ViewRec, AutoRec
<1>8. NotesFields'
  BY <1>1, <1>2 DEF NotesFields
<1>9. Quiet
  BY <1>1, <1>2 DEF Quiet, Scalars, KeysAreDrawn, VersionsInOrder
<1> QED  BY <1>8, <1>9, QuietLemma

\* The version v is marked as applied by another key than this screen's, or at the end of a document.
MarksApplied(v) ==
  store' = [store EXCEPT !.applied[v] = -1, !.revision = @ + 1]

LEMMA MarksLemma ==
  ASSUME NotesFields, NEW v \in Versions, MarksApplied(v)
  PROVE /\ store' \in StoreRec /\ store'.newest = store.newest /\ store'.documents = store.documents
        /\ store'.asked = store.asked /\ store'.applied[v] = -1
        /\ \A w \in Versions : store'.applied[w] = store.applied[w] \/ store'.applied[w] = -1
<1> DEFINE applied == [store.applied EXCEPT ![v] = -1]
<1>1. store.applied \in [Versions -> Int]
  BY DEF NotesFields, StoreRec
<1>2. /\ applied \in [Versions -> Int] /\ applied[v] = -1
      /\ \A w \in Versions : applied[w] = store.applied[w] \/ applied[w] = -1
  BY <1>1
<1> HIDE DEF applied
<1>3. store' = [store EXCEPT !.applied = applied, !.revision = @ + 1]
  BY DEF MarksApplied, applied, NotesFields, StoreRec
<1>4. /\ store' \in StoreRec /\ store'.applied = applied /\ store'.newest = store.newest
      /\ store'.documents = store.documents /\ store'.asked = store.asked
  <2>1. store \in StoreRec /\ store.revision + 1 \in Nat
    BY DEF NotesFields, StoreRec
  <2> QED  BY <1>2, <1>3, <2>1 DEF StoreRec
<1> QED  BY <1>2, <1>4

\* Another tab makes a document: a name is taken, and the version may be marked.
LEMMA SavedElsewhereLemma ==
  ASSUME NotesFields, store.newest \in Versions, NEW name \in 0..MaxNameAttempts, SavedElsewhere(name)
  PROVE /\ store' \in StoreRec /\ store'.newest = store.newest /\ store'.documents = store.documents
        /\ store'.asked = store.asked
        /\ \A w \in Versions : store'.applied[w] = store.applied[w] \/ store'.applied[w] = -1
<1> DEFINE taken == store.taken \union {name}
           applied == [store.applied EXCEPT ![store.newest] = -1]
<1>1. store \in StoreRec /\ store.applied \in [Versions -> Int] /\ taken \in SUBSET Nat
  BY MeetingNotesSaveAssumption DEF NotesFields, StoreRec
<1>2. applied \in [Versions -> Int] /\ \A w \in Versions : applied[w] = store.applied[w] \/ applied[w] = -1
  BY <1>1
<1>3. store' = [store EXCEPT !.taken = taken] \/ store' = [store EXCEPT !.taken = taken, !.applied = applied]
  BY <1>1 DEF SavedElsewhere, StoreRec
<1> HIDE DEF taken, applied
<1>4. CASE store' = [store EXCEPT !.taken = taken]
  BY <1>1, <1>4 DEF StoreRec
<1>5. CASE store' = [store EXCEPT !.taken = taken, !.applied = applied]
  <2>1. /\ store' \in StoreRec /\ store'.applied = applied /\ store'.newest = store.newest
        /\ store'.documents = store.documents /\ store'.asked = store.asked
    BY <1>1, <1>2, <1>5 DEF StoreRec
  <2> QED  BY <1>2, <2>1
<1> QED  BY <1>3, <1>4, <1>5

LEMMA NotesElsewhereStep == ASSUME NotesInv, NotesElsewhere  PROVE NotesInv'
<1>1. Scalars /\ KeysAreDrawn /\ VersionsInOrder /\ NotesFields
  BY ScalarsLemma DEF NotesInv
<1>2. used' = Lost /\ UNCHANGED <<view, auto, attemptRef, saver, keys>>
  BY DEF NotesElsewhere
<1>3. used' \in UsedRec /\ used'.auto = used.auto
  BY <1>1, <1>2, LostLemma
<1>4. CASE store' = [store EXCEPT !.revision = @ + 1]
  <2>1. /\ store' \in StoreRec /\ store'.newest = store.newest /\ store'.documents = store.documents
        /\ store'.applied = store.applied /\ store'.asked = store.asked
    BY <1>1, <1>4 DEF NotesFields, StoreRec
  <2>2. NotesFields'
    BY <1>1, <1>2, <1>3, <2>1 DEF NotesFields
  <2>9. Quiet
    BY <1>1, <1>2, <1>3, <2>1, <2>2 DEF Quiet, Scalars, KeysAreDrawn, VersionsInOrder
  <2> QED  BY <2>2, <2>9, QuietLemma
<1>5. CASE MarksApplied(store.newest)
  <2>1. store.newest \in Versions
    BY <1>1 DEF Scalars
  <2>2. NotesFields'
    BY <1>1, <1>2, <1>3, <1>5, <2>1, MarksLemma DEF NotesFields
  <2>9. Quiet
    BY <1>1, <1>2, <1>3, <1>5, <2>1, <2>2, MarksLemma DEF Quiet, Scalars, KeysAreDrawn, VersionsInOrder
  <2> QED  BY <2>2, <2>9, QuietLemma
<1>6. ASSUME NEW name \in 0..MaxNameAttempts, SavedElsewhere(name)  PROVE NotesInv'
  <2>1. store.newest \in Versions
    BY <1>1 DEF Scalars
  <2>2. NotesFields'
    BY <1>1, <1>2, <1>3, <1>6, <2>1, SavedElsewhereLemma DEF NotesFields
  <2>3. /\ store'.newest = store.newest /\ store'.documents = store.documents /\ store'.asked = store.asked
        /\ \A w \in Versions : store'.applied[w] = store.applied[w] \/ store'.applied[w] = -1
    BY <1>1, <1>6, <2>1, SavedElsewhereLemma
  <2>9. Quiet
    BY <1>1, <1>2, <1>3, <2>1, <2>2, <2>3 DEF Quiet, Scalars, KeysAreDrawn, VersionsInOrder
  <2> QED  BY <2>2, <2>9, QuietLemma
<1> QED  BY <1>4, <1>5, <1>6 DEF NotesElsewhere, MarksApplied

LEMMA ServerAppendsStep == ASSUME NotesInv, ServerAppends  PROVE NotesInv'
<1>1. Scalars /\ KeysAreDrawn /\ VersionsInOrder /\ NotesFields
  BY ScalarsLemma DEF NotesInv
<1>2. saver.stage = "append" /\ view.phase = "saving" /\ UNCHANGED <<auto, attemptRef, keys>>
  BY <1>1 DEF ServerAppends, VersionsInOrder
<1>3. saver.version \in Versions /\ saver.version = view.notes
  BY <1>1, <1>2 DEF VersionsInOrder, Scalars
<1>4. CASE MarksApplied(saver.version) /\ FinishSave /\ UNCHANGED used
  <2>1. NotesFields'
    BY <1>1, <1>2, <1>3, <1>4, MarksLemma, FinishLemma DEF NotesFields
  <2>2. \E v \in Versions : store'.applied[v] # 0 /\ v >= view'.notes
    BY <1>1, <1>3, <1>4, MarksLemma, FinishLemma DEF Scalars
  <2>9. Quiet
    BY <1>1, <1>2, <1>4, <1>3, <2>1, <2>2, MarksLemma, FinishLemma DEF Quiet, Scalars, KeysAreDrawn, VersionsInOrder
  <2> QED  BY <2>1, <2>9, QuietLemma
<1>5. CASE MarksApplied(saver.version) /\ used' = Lost /\ saver' = [saver EXCEPT !.stage = "failed"] /\ UNCHANGED view
  <2>1. NotesFields'
    BY <1>1, <1>2, <1>3, <1>5, MarksLemma, FailedLemma, LostLemma DEF NotesFields
  <2>9. Quiet
    BY <1>1, <1>2, <1>5, <1>3, <2>1, MarksLemma, FailedLemma, LostLemma DEF Quiet, Scalars, KeysAreDrawn,
         VersionsInOrder
  <2> QED  BY <2>1, <2>9, QuietLemma
<1>6. CASE (used' = Lost \/ UNCHANGED used) /\ saver' = [saver EXCEPT !.stage = "failed"] /\ UNCHANGED <<view, store>>
  <2>1. used' \in UsedRec /\ used'.auto = used.auto
    BY <1>1, <1>6, LostLemma DEF NotesFields
  <2>2. NotesFields'
    BY <1>1, <1>2, <1>6, <2>1, FailedLemma DEF NotesFields
  <2>9. Quiet
    BY <1>1, <1>2, <1>6, <2>1, <2>2, FailedLemma DEF Quiet, Scalars, KeysAreDrawn, VersionsInOrder
  <2> QED  BY <2>2, <2>9, QuietLemma
<1> QED  BY <1>4, <1>5, <1>6 DEF ServerAppends, MarksApplied

LEMMA CreatesLemma ==
  ASSUME NotesInv, saver.stage = "create", UNCHANGED <<view, auto, attemptRef, keys>>,
         used' \in UsedRec, used'.auto = used.auto,
         saver' \in SaverRec, saver'.stage \in {"created", "duplicate", "failed"},
         saver'.version = saver.version, saver'.key = saver.key,
         store' \in StoreRec, store'.newest = store.newest, store'.asked = store.asked,
         NEW doc, doc = [version |-> saver.version, key |-> saver.key, name |-> saver.name],
         \/ store'.documents = store.documents
         \/ /\ store'.documents = store.documents \union {doc} /\ saver'.stage # "duplicate"
            /\ \A d \in store.documents : d.key # saver.key,
         \A v \in Versions : store'.applied[v] = store.applied[v] \/ store'.applied[v] = saver.key,
         saver'.stage = "created" => store'.applied[saver.version] # 0,
         saver'.stage = "duplicate" => \A d \in store.documents : d.key # saver.key
  PROVE  NotesInv'
<1>1. Scalars /\ KeysAreDrawn /\ VersionsInOrder /\ Attempted /\ NotesFields /\ TriedOnce /\ AppliedIsTrue
  BY ScalarsLemma DEF NotesInv
<1>2. NotesFields'
  BY <1>1 DEF NotesFields
<1>3. /\ saver.version = attemptRef.version /\ saver.key = attemptRef.key /\ view.phase = "saving"
      /\ saver.version = view.notes /\ saver.version # 0 /\ saver.key # 0 /\ saver.key <= keys /\ saver.key \in Nat
  BY <1>1 DEF Attempted, VersionsInOrder, KeysAreDrawn, Scalars
<1>4. doc.version = saver.version /\ doc.key = saver.key
  OBVIOUS
<1>5. \A d \in store'.documents : d \in store.documents \/ d = doc
  OBVIOUS
<1>6. KeysAreDrawn'
  <2>1. keys \in Nat /\ -1 \in Int /\ attemptRef.key <= keys /\ (attemptRef.version # 0 => attemptRef.key # 0)
    BY <1>1 DEF KeysAreDrawn, Scalars
  <2>2. \A v \in Versions : store'.applied[v] \in -1..keys
    <3>1. \A v \in Versions : store.applied[v] \in -1..keys
      BY <1>1 DEF KeysAreDrawn
    <3>2. saver.key \in -1..keys
      BY <1>3, <2>1
    <3> QED  BY <3>1, <3>2
  <2>3. \A d \in store'.documents : d.key \in 1..keys
    <3>1. \A d \in store.documents : d.key \in 1..keys
      BY <1>1 DEF KeysAreDrawn
    <3>2. saver.key \in 1..keys
      BY <1>3, <2>1
    <3> QED  BY <1>4, <1>5, <3>1, <3>2
  <2> QED  BY <1>3, <2>1, <2>2, <2>3 DEF KeysAreDrawn, Versions
<1>7. VersionsInOrder'
  BY <1>1, <1>3 DEF VersionsInOrder
<1>8. Attempted'
  <2>1. /\ \A d \in store.documents :
              d.version <= attemptRef.version /\ (d.version = attemptRef.version => d.key = attemptRef.key)
        /\ \A d, e \in store.documents : d.version = e.version => d = e
    BY <1>1 DEF Attempted
  <2>2. \A d \in store'.documents :
          d.version <= attemptRef.version /\ (d.version = attemptRef.version => d.key = attemptRef.key)
    <3>1. doc.version <= attemptRef.version
      BY <1>1, <1>3, <1>4 DEF Scalars
    <3> QED  BY <1>3, <1>4, <1>5, <2>1, <3>1
  <2>3. \A d, e \in store'.documents : d.version = e.version => d = e
    <3>1. CASE store'.documents = store.documents
      BY <2>1, <3>1
    <3>2. CASE \A d \in store.documents : d.key # saver.key
      <4>1. \A d \in store.documents : d.version # doc.version
        BY <1>3, <1>4, <2>1, <3>2
      <4> QED  BY <1>5, <2>1, <4>1
    <3> QED  BY <3>1, <3>2
  <2>4. saver'.stage = "duplicate" => \A d \in store'.documents : d.key # saver'.key
    OBVIOUS
  <2> QED  BY <1>3, <2>2, <2>3, <2>4 DEF Attempted
<1>9. TriedOnce' /\ AppliedIsTrue'
  BY <1>1, <1>3 DEF TriedOnce, AppliedIsTrue, Versions
<1> QED  BY <1>2, <1>6, <1>7, <1>8, <1>9 DEF NotesInv

LEMMA ServerCreatesStep == ASSUME NotesInv, ServerCreates  PROVE NotesInv'
<1> DEFINE doc == [version |-> saver.version, key |-> saver.key, name |-> saver.name]
           known == store.applied[saver.version] = saver.key \/ \E d \in store.documents : d.key = saver.key
           docs == IF known THEN store.documents ELSE store.documents \union {doc}
<1>1. Scalars /\ KeysAreDrawn /\ VersionsInOrder /\ Attempted /\ NotesFields
  BY ScalarsLemma DEF NotesInv
<1>2. saver.stage = "create" /\ UNCHANGED <<view, auto, attemptRef, keys>>
  BY DEF ServerCreates
<1>3. saver.version \in Versions /\ saver.key \in Nat /\ saver.key # 0 /\ saver.name \in Nat
  BY <1>1, <1>2 DEF VersionsInOrder, Attempted, KeysAreDrawn, Scalars
<1>4. \/ docs = store.documents
      \/ docs = store.documents \union {doc} /\ \A d \in store.documents : d.key # saver.key
  OBVIOUS
<1>5. docs \in SUBSET [version : Versions, key : Nat, name : Nat]
  <2>1. store.documents \in SUBSET [version : Versions, key : Nat, name : Nat]
    BY <1>1 DEF NotesFields, StoreRec
  <2> QED  BY <1>3, <2>1
<1>6. used.auto = used.auto /\ used \in UsedRec /\ store \in StoreRec
  BY <1>1 DEF NotesFields
<1>7. CASE saver' = [saver EXCEPT !.stage = "failed"] /\ UNCHANGED <<store, used>>
  <2>1. saver' \in SaverRec /\ saver'.stage = "failed" /\ saver'.key = saver.key /\ saver'.version = saver.version
    BY <1>1, <1>7 DEF NotesFields, SaverRec
  <2> QED  BY <1>2, <1>6, <1>7, <2>1, CreatesLemma
<1>8. CASE ~known /\ saver' = [saver EXCEPT !.stage = "duplicate"] /\ UNCHANGED <<store, used>>
  <2>1. saver' \in SaverRec /\ saver'.stage = "duplicate" /\ saver'.key = saver.key /\ saver'.version = saver.version
    BY <1>1, <1>8 DEF NotesFields, SaverRec
  <2>2. \A d \in store.documents : d.key # saver.key
    BY <1>8
  <2> QED  BY <1>2, <1>6, <1>8, <2>1, <2>2, CreatesLemma
<1> HIDE DEF known, docs, doc
<1>9. CASE /\ store' = [store EXCEPT !.documents = docs, !.applied[saver.version] = saver.key]
           /\ \/ saver' = [saver EXCEPT !.stage = "created"] /\ UNCHANGED used
              \/ used' = Lost /\ saver' = [saver EXCEPT !.stage = "failed"]
  <2>1. /\ saver' \in SaverRec /\ saver'.stage \in {"created", "failed"} /\ saver'.key = saver.key
        /\ saver'.version = saver.version
    BY <1>1, <1>9 DEF NotesFields, SaverRec
  <2>2. used' \in UsedRec /\ used'.auto = used.auto
    BY <1>1, <1>6, <1>9, LostLemma
  <2> DEFINE applied == [store.applied EXCEPT ![saver.version] = saver.key]
  <2>3. store.applied \in [Versions -> Int]
    BY <1>1 DEF Scalars
  <2>4. /\ applied \in [Versions -> Int] /\ applied[saver.version] = saver.key
        /\ \A v \in Versions : applied[v] = store.applied[v] \/ applied[v] = saver.key
    BY <1>3, <2>3
  <2>5. store' = [store EXCEPT !.documents = docs, !.applied = applied]
    BY <1>6, <1>9 DEF StoreRec
  <2> HIDE DEF applied
  <2>6. /\ store' \in StoreRec /\ store'.newest = store.newest /\ store'.asked = store.asked
        /\ store'.documents = docs /\ store'.applied = applied
    BY <1>5, <1>6, <2>4, <2>5 DEF StoreRec
  <2> QED  BY <1>2, <1>3, <1>4, <2>1, <2>2, <2>4, <2>6, CreatesLemma DEF doc
<1>10. CASE /\ store' = store \/ store' = [store EXCEPT !.documents = docs]
            /\ used' = Lost /\ saver' = [saver EXCEPT !.stage = "failed"]
  <2>1. /\ saver' \in SaverRec /\ saver'.stage = "failed" /\ saver'.key = saver.key
        /\ saver'.version = saver.version
    BY <1>1, <1>10 DEF NotesFields, SaverRec
  <2>2. used' \in UsedRec /\ used'.auto = used.auto
    BY <1>1, <1>10, LostLemma
  <2>3. /\ store' \in StoreRec /\ store'.newest = store.newest /\ store'.asked = store.asked
        /\ store'.documents = store.documents \/ store'.documents = docs
        /\ store'.applied = store.applied
    BY <1>5, <1>6, <1>10 DEF StoreRec
  <2> QED  BY <1>2, <1>4, <2>1, <2>2, <2>3, CreatesLemma DEF doc
<1> QED  BY <1>7, <1>8, <1>9, <1>10 DEF ServerCreates, known, docs, doc

LEMMA TriesNextNameStep == ASSUME NotesInv, TriesNextName  PROVE NotesInv'
<1>1. Scalars /\ KeysAreDrawn /\ VersionsInOrder /\ Attempted /\ NotesFields /\ TriedOnce /\ AppliedIsTrue
  BY ScalarsLemma DEF NotesInv
<1>2. /\ saver.stage = "duplicate" /\ keys' = keys + 1 /\ UNCHANGED <<view, auto, store, used>>
      /\ attemptRef' = [version |-> saver.version, name |-> saver.name + 1, key |-> keys + 1]
      /\ \/ saver' = [saver EXCEPT !.stage = "failed"]
         \/ /\ ~SaveGivesUp(saver.sent)
            /\ saver' = [saver EXCEPT !.stage = "create", !.name = saver.name + 1, !.key = keys + 1, !.sent = @ + 1]
  BY DEF TriesNextName
<1>3. attemptRef' \in AttemptRec /\ attemptRef'.version = saver.version /\ attemptRef'.key = keys + 1
  <2>1. saver.version \in 0..MaxVersions /\ saver.name + 1 \in Nat /\ keys + 1 \in Nat
    BY <1>1 DEF Scalars
  <2> QED  BY <1>2, <2>1 DEF AttemptRec
<1>4. /\ saver' \in SaverRec /\ saver'.version = saver.version
      /\ \/ saver'.stage = "failed" /\ saver'.key = saver.key
         \/ saver'.stage = "create" /\ saver'.key = keys + 1
  <2>1. CASE saver' = [saver EXCEPT !.stage = "failed"]
    <3>1. saver'.version = saver.version
      BY <1>1, <2>1 DEF NotesFields, SaverRec
    <3>2. saver' \in SaverRec /\ saver'.stage = "failed" /\ saver'.key = saver.key
      BY <1>1, <2>1, FailedLemma
    <3> QED  BY <3>1, <3>2
  <2>2. CASE /\ ~SaveGivesUp(saver.sent)
             /\ saver' = [saver EXCEPT !.stage = "create", !.name = saver.name + 1, !.key = keys + 1, !.sent = @ + 1]
    <3>1. saver.sent + 1 \in 0..MaxNameAttempts /\ saver.name + 1 \in Nat /\ keys + 1 \in Nat
      BY <1>1, <2>2, MeetingNotesSaveAssumption DEF SaveGivesUp, Scalars
    <3>2. saver \in SaverRec
      BY <1>1 DEF NotesFields
    <3> QED  BY <2>2, <3>1, <3>2 DEF SaverRec
  <2> QED  BY <1>2, <2>1, <2>2
<1>5. NotesFields'
  BY <1>1, <1>2, <1>3, <1>4 DEF NotesFields, Scalars
<1>6. saver.version = attemptRef.version /\ saver.key = attemptRef.key /\ \A d \in store.documents : d.key # saver.key
  BY <1>1, <1>2 DEF Attempted
<1>7. keys \in Nat /\ keys < keys' /\ saver'.key <= keys' /\ attemptRef'.key <= keys' /\ attemptRef'.key # 0
  BY <1>1, <1>2, <1>3, <1>4 DEF Scalars, KeysAreDrawn
<1>8. KeysAreDrawn'
  <2>1. \A v \in Versions : store.applied[v] \in -1..keys'
    BY <1>1, <1>2, <1>7 DEF KeysAreDrawn, Scalars
  <2>2. \A d \in store.documents : d.key \in 1..keys'
    BY <1>1, <1>2, <1>7 DEF KeysAreDrawn, Scalars
  <2> QED  BY <1>2, <1>7, <2>1, <2>2 DEF KeysAreDrawn, Versions
<1>9. VersionsInOrder'
  BY <1>1, <1>2, <1>3, <1>4, <1>6 DEF VersionsInOrder
<1>10. Attempted'
  <2>1. \A d \in store.documents : d.version <= attemptRef.version /\ d.version # attemptRef.version
    BY <1>1, <1>6 DEF Attempted
  <2>2. \A d, e \in store.documents : d.version = e.version => d = e
    BY <1>1 DEF Attempted
  <2> QED  BY <1>2, <1>3, <1>4, <1>6, <2>1, <2>2 DEF Attempted
<1>11. TriedOnce' /\ AppliedIsTrue'
  BY <1>1, <1>2 DEF TriedOnce, AppliedIsTrue, Versions
<1> QED  BY <1>5, <1>8, <1>9, <1>10, <1>11 DEF NotesInv

LEMMA NotesNextLemma == NotesInv /\ [NotesNext]_notesVars => NotesInv'
<1> SUFFICES ASSUME NotesInv, [NotesNext]_notesVars  PROVE NotesInv'
  OBVIOUS
<1>1. CASE NotesNext
  BY <1>1, RenderStep, SaveClickedStep, ServerCreatesStep, CreatedStep, TriesNextNameStep, HandleSaveFailureStep,
     PreviewedStep, ServerAppendsStep, PreviewAppendStep, ConfirmAppendStep, CancelPreviewStep, NewVersionStep,
     ServerGeneratesStep, NotesArriveStep, EnableStep, NotesElsewhereStep
  DEF NotesNext, SaveStep
<1>2. CASE UNCHANGED notesVars
  BY <1>2 DEF notesVars, NotesInv, NotesFields, KeysAreDrawn, VersionsInOrder, Attempted, TriedOnce, AppliedIsTrue,
     ViewRec, AutoRec, AttemptRec, SaverRec, StoreRec, UsedRec, Versions
<1> QED  BY <1>1, <1>2

\* Whatever answers of creating and appending are lost, however often saving is repeated, by hand or by itself, and
\* whatever other tabs do: a version becomes one document, is appended once, is saved by itself once, and "applied" is
\* shown only of a version that was applied (useMeetingSession.ts, meetingNotesSave.ts).
THEOREM NotesAreSavedOnceTheorem == NotesSpec => [](NotesTypeOK /\ NotesAreSavedOnce)
<1>1. NotesSpec => []NotesInv
  BY NotesInvInit, NotesNextLemma, PTL DEF NotesSpec
<1> QED  BY <1>1, NotesInvImplies, PTL
-----------------------------------------------------------------------------
(* From a recording to its notes: MeetingTranscription.                      *)

(* A deletion is on its way only while the screen shows it: no answer about  *)
(* notes that comes late changes the phase under it, as deleteCurrentMeeting *)
(* would then restore a phase that is not the screen's any more.             *)
DeletionIsShown == reply["delete"].stage # "none" => phase = "deleting"

Numbers == 0..MaxMeetings
UploadRec == [stage : {"none", "creating", "sending", "completed", "undone"}, id : Numbers,
              reusable : BOOLEAN, aborted : BOOLEAN]
PollRec == [stage : {"off", "waiting", "answered", "done"}, id : Numbers, run : Nat,
            seen : Statuses \union {"error"}]
CancelRec == [stage : {"none", "sent", "answered", "asks", "told"}, id : Numbers, run : Nat, seen : Statuses]
PostRec == [stage : {"none", "sent", "answered", "waits"}, id : Numbers, view : Nat, attempt : Nat,
            seen : {"none", "generating", "ready", "failed", "refused", "in_use"}]
ReplyRec == [stage : {"none", "sent", "half", "answered"}, id : Numbers, view : Nat, seen : Statuses,
             notes : NotesStatuses, before : Phases]
TallyRec == [uploads : Nat, posts : Nat, stops : Nat, trouble : Nat, asked : [Meetings -> Nat],
             unseen : SUBSET Meetings, elsewhere : BOOLEAN]

MeetingFields ==
  /\ mount \in BOOLEAN /\ pending \in BOOLEAN
  /\ phase \in Phases
  /\ meeting \in [id : Numbers, status : Statuses]
  /\ viewRun \in Nat /\ settled \in Nat
  /\ upload \in UploadRec
  /\ poll \in PollRec
  /\ notesPoll \subseteq {"ready", "failed", "applied", "off"}
  /\ cancel \in [Cancels -> CancelRec]
  /\ post \in [Posts -> PostRec]
  /\ reply \in [Replies -> ReplyRec]
  /\ server \in [Meetings -> [status : Statuses, notes : NotesStatuses]]
  /\ tally \in TallyRec

(* What is on its way is about a meeting.                                    *)
Numbered ==
  /\ meeting.status = "open" => meeting.id # 0
  /\ upload.stage \in {"sending", "completed"} => upload.id # 0
  /\ poll.stage # "off" => poll.id # 0
  /\ \A c \in Cancels : cancel[c].stage # "none" => cancel[c].id # 0
  /\ \A g \in Posts : post[g].stage # "none" => post[g].id # 0
  /\ \A r \in Replies : reply[r].stage # "none" => reply[r].id # 0

Ended == {"stopped", "generating", "ready", "applied"}
Over == {"open", "gone"}
Status(m) == server[m].status

(* The poll waits for the transcription on the screen, or its end was shown  *)
(* and the effect stops at the next render.                                  *)
PollWaits ==
  poll.stage # "off" =>
    /\ poll.seen # "gone" /\ Status(poll.id) # "gone"
    /\ poll.seen = "open" => Status(poll.id) \in Over
    /\ \/ /\ phase = "transcribing" /\ poll.stage # "done" /\ poll.run = settled /\ meeting.id = poll.id
          /\ (poll.stage = "answered" /\ poll.seen \notin {"transcribing", "error"}) =>
               Status(poll.id) # "transcribing"
       \/ pending /\ phase \in Ended /\ poll.run < settled

(* A cancellation that may still settle is one of the transcription on the   *)
(* screen, and what it was told is the end of it.                            *)
CancelsWait ==
  \A c \in Cancels : cancel[c].stage # "none" =>
    /\ cancel[c].run <= settled
    /\ cancel[c].seen = "open" => Status(cancel[c].id) \in Over
    /\ cancel[c].run = settled =>
         /\ phase = "transcribing" /\ meeting.id = cancel[c].id
         /\ cancel[c].stage # "sent" => Status(cancel[c].id) # "transcribing"
         /\ cancel[c].stage \in {"answered", "told"} => cancel[c].seen # "transcribing"

(* Only the uploading screen has an upload.                                  *)
UploadWaits ==
  upload.stage # "none" =>
    /\ phase = "uploading"
    /\ upload.stage \in {"sending", "completed"} => meeting.id = upload.id

(* Only the opening screen waits for a meeting that is opened.               *)
RepliesWait ==
  /\ reply["open"].stage # "none" =>
       /\ reply["open"].view <= viewRun
       /\ reply["open"].view = viewRun => phase = "opening"
  /\ reply["delete"].stage # "none" =>
       phase = "deleting" /\ reply["delete"].before \in {"stopped", "ready", "applied"}

NotesShown == meeting.status = "open" /\ phase \in Ended \union {"deleting"}

(* What the screen still listens to about notes is about a meeting with a    *)
(* transcript.                                                               *)
NotesWait ==
  /\ phase = "generating" => meeting.status = "open"
  /\ notesPoll # {"off"} => meeting.status = "open" /\ phase \in Ended
  /\ \A g \in Posts : post[g].stage # "none" =>
       /\ post[g].view <= viewRun
       /\ post[g].view = viewRun => NotesShown
  /\ reply["cancelNotes"].stage # "none" =>
       /\ reply["cancelNotes"].view <= viewRun
       /\ reply["cancelNotes"].view = viewRun => NotesShown

(* A meeting whose transcription is watched, or will be, was not deleted.    *)
NotDeleted ==
  /\ (phase = "transcribing" /\ meeting.id # 0) => Status(meeting.id) # "gone"
  /\ upload.stage = "completed" => Status(upload.id) # "gone"
  /\ (/\ reply["open"].stage # "none" /\ reply["open"].view = viewRun
      /\ reply["open"].seen = "transcribing") => Status(reply["open"].id) # "gone"

(* Once notes were asked for, the transcription is over, and neither the     *)
(* screen nor an answer on its way says otherwise.                           *)
AskedOnce ==
  \A m \in Meetings :
    /\ tally.asked[m] <= 1
    /\ tally.asked[m] = 1 =>
         /\ Status(m) \in Over
         /\ ~(phase = "transcribing" /\ meeting.id = m)
         /\ ~(/\ reply["open"].stage # "none" /\ reply["open"].view = viewRun
              /\ reply["open"].id = m /\ reply["open"].seen = "transcribing")
         /\ ~(upload.stage = "completed" /\ upload.id = m)

(* A transcription is on the screen, or the user has closed it.              *)
AllShown ==
  \A m \in Meetings : (Status(m) = "transcribing" /\ m \notin tally.unseen /\ mount) =>
    /\ meeting.id = m
    /\ phase = "transcribing" \/ (phase = "uploading" /\ upload.stage = "completed")

ScreenInv == /\ PollWaits /\ CancelsWait /\ UploadWaits /\ RepliesWait /\ NotesWait
             /\ NotDeleted /\ AskedOnce /\ AllShown
TranscriptionInv == MeetingFields /\ Numbered /\ (tally.elsewhere \/ ScreenInv)

LEMMA MeetingFacts == /\ Meetings \subseteq Nat /\ 0 \notin Meetings
                      /\ \A m \in Numbers : m = 0 \/ m \in Meetings
                      /\ 0 \in Numbers /\ Meetings \subseteq Numbers
BY MeetingTranscriptionAssumption DEF Meetings, Numbers

-----------------------------------------------------------------------------
(* What the parts of the steps do.                                           *)

LEMMA NothingLemma ==
  /\ NoMeeting \in [id : Numbers, status : Statuses]
  /\ NoUpload \in UploadRec /\ NoPoll \in PollRec /\ NoCancel \in CancelRec
  /\ NoPost \in PostRec /\ NoReply \in ReplyRec
<1> USE MeetingFacts
<1>1. NoMeeting \in [id : Numbers, status : Statuses]
  BY DEF NoMeeting, Statuses
<1>2. NoUpload \in UploadRec
  BY DEF NoUpload, UploadRec
<1>3. NoPoll \in PollRec /\ NoCancel \in CancelRec
  BY DEF NoPoll, PollRec, NoCancel, CancelRec, Statuses
<1>4. NoPost \in PostRec
  BY DEF NoPost, PostRec
<1>5. NoReply \in ReplyRec
  BY DEF NoReply, ReplyRec, Statuses, NotesStatuses, Phases
<1> QED  BY <1>1, <1>2, <1>3, <1>4, <1>5

LEMMA NothingWaits ==
  /\ NoMeeting.id = 0 /\ NoMeeting.status = "none"
  /\ NoUpload.stage = "none" /\ NoPoll.stage = "off" /\ NoCancel.stage = "none"
  /\ NoPost.stage = "none" /\ NoReply.stage = "none"
  /\ NoPoll.seen = "none" /\ NoCancel.seen = "none" /\ NoReply.seen = "none"
BY DEF NoMeeting, NoUpload, NoPoll, NoCancel, NoPost, NoReply

(* A count that goes up leaves the history alone.                            *)
SameHistory(u, t) == u \in TallyRec /\ u.asked = t.asked /\ u.unseen = t.unseen /\ u.elsewhere = t.elsewhere

LEMMA CountLemma ==
  ASSUME NEW t \in TallyRec, NEW u,
         \/ u = [t EXCEPT !.uploads = @ + 1] \/ u = [t EXCEPT !.posts = @ + 1]
         \/ u = [t EXCEPT !.stops = @ + 1] \/ u = [t EXCEPT !.trouble = @ + 1]
  PROVE  SameHistory(u, t)
<1>1. u \in TallyRec
  BY DEF TallyRec
<1>2. u.asked = t.asked /\ u.unseen = t.unseen
  BY DEF TallyRec
<1>3. u.elsewhere = t.elsewhere
  BY DEF TallyRec
<1> QED  BY <1>1, <1>2, <1>3 DEF SameHistory

LEMMA SpentLemma == ASSUME tally \in TallyRec  PROVE SameHistory(Spent, tally)
BY CountLemma DEF Spent

LEMMA AskedLemma ==
  ASSUME NEW t \in TallyRec, NEW m \in Meetings
  PROVE  LET u == [t EXCEPT !.asked[m] = @ + 1]
         IN  /\ u \in TallyRec /\ u.asked = [t.asked EXCEPT ![m] = @ + 1]
             /\ u.unseen = t.unseen /\ u.elsewhere = t.elsewhere
<1> DEFINE u == [t EXCEPT !.asked[m] = @ + 1]
<1>1. u \in TallyRec
  BY DEF TallyRec
<1>2. u.asked = [t.asked EXCEPT ![m] = @ + 1] /\ u.unseen = t.unseen
  BY DEF TallyRec
<1>3. u.elsewhere = t.elsewhere
  BY DEF TallyRec
<1> QED  BY <1>1, <1>2, <1>3

Sent(t, m, S) == [t EXCEPT !.asked[m] = 0, !.unseen = S]

LEMMA SentLemma ==
  ASSUME NEW t \in TallyRec, NEW m \in Meetings, NEW S \in SUBSET Meetings
  PROVE  /\ Sent(t, m, S) \in TallyRec /\ Sent(t, m, S).asked = [t.asked EXCEPT ![m] = 0]
         /\ Sent(t, m, S).unseen = S /\ Sent(t, m, S).elsewhere = t.elsewhere
<1> DEFINE u == [t EXCEPT !.asked[m] = 0, !.unseen = S]
<1>1. u \in TallyRec
  BY DEF TallyRec
<1>2. u.asked = [t.asked EXCEPT ![m] = 0] /\ u.unseen = S
  BY DEF TallyRec
<1>3. u.elsewhere = t.elsewhere
  BY DEF TallyRec
<1> QED  BY <1>1, <1>2, <1>3 DEF Sent

(* The request that generateNotes sends is one of the view that is shown.    *)
Requests(m) ==
  /\ post' \in [Posts -> PostRec]
  /\ \A g \in Posts : post'[g] = post[g] \/ (post'[g].id = m /\ post'[g].view = viewRun)

LEMMA GenerateLemma ==
  ASSUME NEW m \in [id : Meetings, status : Statuses], NEW t \in TallyRec, MeetingFields, GenerateNotes(m, t)
  PROVE  Requests(m.id) /\ SameHistory(tally', t)
<1>1. tally' = [t EXCEPT !.posts = @ + 1]
  BY DEF GenerateNotes, Counted
<1>2. PICK g \in Posts : post' = [post EXCEPT ![g] = [NoPost EXCEPT !.stage = "sent", !.id = m.id, !.view = viewRun]]
  BY DEF GenerateNotes
<1> DEFINE new == [NoPost EXCEPT !.stage = "sent", !.id = m.id, !.view = viewRun]
<1>3. new \in PostRec /\ new.id = m.id /\ new.view = viewRun
  BY MeetingFacts DEF NoPost, PostRec, MeetingFields
<1>4. post' = [post EXCEPT ![g] = new] /\ post \in [Posts -> PostRec]
  BY <1>2 DEF MeetingFields
<1> HIDE DEF new
<1>5. post' \in [Posts -> PostRec] /\ \A k \in Posts : post'[k] = IF k = g THEN new ELSE post[k]
  BY <1>3, <1>4
<1> QED  BY <1>1, <1>3, <1>5, CountLemma DEF Requests

(* What ApplyRecordingMeeting does to the screen, the requests and the tally. *)
Applies(id, status) ==
  /\ phase' = (IF status = "open" THEN "generating"
               ELSE IF status = "transcribing" THEN "transcribing" ELSE "stopped")
  /\ meeting' = [id |-> id, status |-> status] /\ pending' = TRUE
  /\ meeting' \in [id : Numbers, status : Statuses]
  /\ status # "open" => UNCHANGED post
  /\ Requests(id)
  /\ tally' \in TallyRec /\ tally'.unseen = tally.unseen /\ tally'.elsewhere = tally.elsewhere
  /\ tally'.asked = IF status = "open" THEN [tally.asked EXCEPT ![id] = @ + 1] ELSE tally.asked

(* The screen takes a meeting as it is said to be.                           *)
LEMMA ApplyLemma ==
  ASSUME NEW id \in Meetings, NEW status \in Statuses, MeetingFields, ApplyRecordingMeeting(id, status)
  PROVE  Applies(id, status)
<1>0. [id |-> id, status |-> status] \in [id : Numbers, status : Statuses]
  BY MeetingFacts
<1>1. CASE status = "open"
  <2> DEFINE t == [tally EXCEPT !.asked[id] = @ + 1]
             m == [id |-> id, status |-> status]
  <2>1. phase' = "generating" /\ meeting' = m /\ pending' = TRUE /\ GenerateNotes(m, t)
    BY <1>1 DEF ApplyRecordingMeeting, Sets
  <2>2. /\ t \in TallyRec /\ t.asked = [tally.asked EXCEPT ![id] = @ + 1]
        /\ t.unseen = tally.unseen /\ t.elsewhere = tally.elsewhere
    BY AskedLemma DEF MeetingFields
  <2>3. m \in [id : Meetings, status : Statuses] /\ m.id = id
    OBVIOUS
  <2> HIDE DEF t, m
  <2>4. Requests(m.id) /\ SameHistory(tally', t)
    BY <2>1, <2>2, <2>3, GenerateLemma
  <2>5. Requests(id) /\ post' \in [Posts -> PostRec]
    BY <2>3, <2>4 DEF Requests
  <2>6. /\ tally' \in TallyRec /\ tally'.unseen = tally.unseen /\ tally'.elsewhere = tally.elsewhere
        /\ tally'.asked = [tally.asked EXCEPT ![id] = @ + 1]
    BY <2>2, <2>4 DEF SameHistory
  <2> QED  BY <1>0, <1>1, <2>1, <2>5, <2>6 DEF m, Applies
<1>2. CASE status # "open"
  <2>1. /\ phase' = (IF status = "transcribing" THEN "transcribing" ELSE "stopped")
        /\ meeting' = [id |-> id, status |-> status] /\ pending' = TRUE
        /\ UNCHANGED <<post, tally>>
    BY <1>2 DEF ApplyRecordingMeeting, Sets
  <2> QED  BY <1>0, <1>2, <2>1 DEF MeetingFields, Requests, Applies
<1> QED  BY <1>1, <1>2

(* A failed upload is over, or is being undone.                              *)
UploadEnds ==
  /\ upload' \in UploadRec /\ pending' \in BOOLEAN
  /\ UNCHANGED <<viewRun, settled, meeting>>
  /\ \/ upload'.stage = "undone" /\ phase' = phase
     \/ upload'.stage = "none" /\ phase' = "stopped"

LEMMA FailedUploadLemma ==
  ASSUME NEW id \in Numbers, MeetingFields, UploadFailed(id)
  PROVE  UploadEnds
<1>1. CASE upload.aborted
  <2>1. upload' = [upload EXCEPT !.stage = "undone", !.id = id] /\ UNCHANGED screenVars
    BY <1>1 DEF UploadFailed
  <2>2. upload' \in UploadRec /\ upload'.stage = "undone"
    BY <2>1 DEF UploadRec, MeetingFields
  <2> QED  BY <2>1, <2>2 DEF screenVars, MeetingFields, UploadEnds
<1>2. CASE ~upload.aborted
  <2>1. upload' = NoUpload /\ phase' = "stopped" /\ meeting' = meeting /\ pending' = TRUE
        /\ UNCHANGED <<viewRun, settled>>
    BY <1>2 DEF UploadFailed, Sets
  <2>2. NoUpload.stage = "none"
    BY DEF NoUpload
  <2> QED  BY <2>1, <2>2, NothingLemma DEF UploadEnds
<1> QED  BY <1>1, <1>2

(* The server says something else of one meeting, or nothing new of any.     *)
ServerFits == server' \in [Meetings -> [status : Statuses, notes : NotesStatuses]]
Becomes(m, s) == ServerFits /\ \A k \in Meetings : Status(k)' = IF k = m THEN s ELSE Status(k)
SameStatus == ServerFits /\ \A k \in Meetings : Status(k)' = Status(k)

LEMMA BecomesLemma ==
  ASSUME MeetingFields, NEW m \in Meetings, NEW s \in Statuses,
         \/ server' = [server EXCEPT ![m].status = s]
         \/ server' = [server EXCEPT ![m] = [status |-> s, notes |-> "none"]]
  PROVE  Becomes(m, s)
<1>1. server \in [Meetings -> [status : Statuses, notes : NotesStatuses]]
  BY DEF MeetingFields
<1>2. "none" \in NotesStatuses
  BY DEF NotesStatuses
<1>3. ServerFits
  BY <1>1, <1>2 DEF ServerFits
<1>4. \A k \in Meetings : Status(k)' = IF k = m THEN s ELSE Status(k)
  BY <1>1 DEF Status
<1> QED  BY <1>3, <1>4 DEF Becomes

LEMMA NotesLemma ==
  ASSUME MeetingFields, NEW m \in Meetings, NEW n \in NotesStatuses, server' = [server EXCEPT ![m].notes = n]
  PROVE  SameStatus
<1>1. server \in [Meetings -> [status : Statuses, notes : NotesStatuses]]
  BY DEF MeetingFields
<1>2. ServerFits
  BY <1>1 DEF ServerFits
<1>3. \A k \in Meetings : Status(k)' = Status(k)
  BY <1>1 DEF Status
<1> QED  BY <1>2, <1>3 DEF SameStatus

LEMMA SameLemma == ASSUME MeetingFields, server' = server  PROVE SameStatus
BY DEF MeetingFields, SameStatus, ServerFits, Status

(* The end of a transcription is shown if no other answer has shown it.      *)
Settles(run, id, status) ==
  /\ UNCHANGED viewRun
  /\ \/ settled # run /\ UNCHANGED <<phase, meeting, pending, settled, post, tally>>
     \/ settled = run /\ settled' = settled + 1 /\ Applies(id, status)

LEMMA SettleLemma ==
  ASSUME NEW run \in Nat, NEW id \in Meetings, NEW status \in Statuses, MeetingFields,
         SettleTranscription(run, id, status)
  PROVE  Settles(run, id, status)
<1>1. CASE settled # run
  BY <1>1 DEF SettleTranscription, screenVars, Settles
<1>2. CASE settled = run
  <2>1. settled' = settled + 1 /\ ApplyRecordingMeeting(id, status) /\ UNCHANGED viewRun
    BY <1>2 DEF SettleTranscription
  <2>2. Applies(id, status)
    BY <2>1, ApplyLemma
  <2> QED  BY <1>2, <2>1, <2>2 DEF Settles
<1> QED  BY <1>1, <1>2

(* Creating a meeting: it waits for the file, or the upload has failed.      *)
Creates ==
  /\ UNCHANGED <<mount, viewRun, settled, cancel, post, reply, poll, notesPoll>>
  /\ upload.stage = "creating"
  /\ \/ \E m \in Meetings :
          /\ Status(m) = "none" /\ Becomes(m, "awaiting_upload")
          /\ upload' \in UploadRec /\ upload'.stage = "sending" /\ upload'.id = m
          /\ phase' = phase /\ meeting' = [id |-> m, status |-> "awaiting_upload"] /\ pending' = TRUE
          /\ SameHistory(tally', tally)
     \/ UploadEnds /\ SameStatus /\ SameHistory(tally', tally)

LEMMA MeetingMadeLemma == ASSUME MeetingFields, CreateMeeting  PROVE Creates
<1>1. /\ UNCHANGED <<mount, cancel, post, reply, poll, notesPoll>>
      /\ upload.stage = "creating"
  BY DEF CreateMeeting, effectVars
<1>2. SameHistory(tally, tally)
  BY DEF SameHistory, MeetingFields
<1>3. CASE \E m \in Meetings :
             /\ server[m].status = "none"
             /\ \A k \in Meetings : server[k].status = "none" => m <= k
             /\ server' = [server EXCEPT ![m].status = "awaiting_upload"]
             /\ upload' = [upload EXCEPT !.stage = "sending", !.id = m]
             /\ Sets(phase, [id |-> m, status |-> "awaiting_upload"])
             /\ UNCHANGED <<viewRun, settled, tally>>
  <2>1. PICK m \in Meetings :
             /\ server[m].status = "none"
             /\ server' = [server EXCEPT ![m].status = "awaiting_upload"]
             /\ upload' = [upload EXCEPT !.stage = "sending", !.id = m]
             /\ phase' = phase /\ meeting' = [id |-> m, status |-> "awaiting_upload"] /\ pending' = TRUE
             /\ UNCHANGED <<viewRun, settled, tally>>
    BY <1>3 DEF Sets
  <2>2. Becomes(m, "awaiting_upload")
    BY <2>1, BecomesLemma DEF Statuses
  <2>3. upload' \in UploadRec /\ upload'.stage = "sending" /\ upload'.id = m
    BY <2>1, MeetingFacts DEF UploadRec, MeetingFields
  <2> QED  BY <1>1, <1>2, <2>1, <2>2, <2>3 DEF Creates, Status
<1>4. CASE (Spent = tally' \/ tally' = tally) /\ UploadFailed(0) /\ server' = server
  <2>1. UploadEnds
    BY <1>4, MeetingFacts, FailedUploadLemma
  <2>2. SameHistory(tally', tally)
    BY <1>2, <1>4, SpentLemma DEF MeetingFields
  <2>3. SameStatus
    BY <1>4, SameLemma
  <2> QED  BY <1>1, <2>1, <2>2, <2>3 DEF Creates, UploadEnds
<1> QED  BY <1>3, <1>4 DEF CreateMeeting

(* Sending the file: it is complete and the transcription begins, unseen if  *)
(* the answer was lost; or the upload has failed.                            *)
Completes(S) ==
  /\ Becomes(upload.id, "transcribing") /\ Status(upload.id) \in {"awaiting_upload", "failed"}
  /\ tally' \in TallyRec /\ tally'.asked = [tally.asked EXCEPT ![upload.id] = 0]
  /\ tally'.unseen = S /\ tally'.elsewhere = tally.elsewhere

Sends ==
  /\ UNCHANGED <<mount, viewRun, settled, cancel, post, reply, poll, notesPoll, meeting>>
  /\ upload.stage = "sending" /\ upload.id \in Meetings
  /\ \/ /\ Completes(tally.unseen \ {upload.id})
        /\ upload' \in UploadRec /\ upload'.stage = "completed" /\ upload'.id = upload.id
        /\ UNCHANGED <<phase, pending>>
     \/ Completes(tally.unseen \union {upload.id}) /\ UploadEnds
     \/ UploadEnds /\ SameStatus /\ SameHistory(tally', tally)

LEMMA SendsLemma == ASSUME MeetingFields, Numbered, SendRecording  PROVE Sends
<1>1. /\ UNCHANGED <<mount, cancel, post, reply, poll, notesPoll>>
      /\ upload.stage = "sending"
  BY DEF SendRecording, effectVars
<1>2. upload.id \in Meetings
  BY <1>1, MeetingFacts DEF Numbered, MeetingFields, UploadRec
<1> DEFINE id == upload.id
<1>3. SameHistory(tally, tally) /\ tally \in TallyRec /\ SameHistory(Spent, tally) /\ tally.unseen \in SUBSET Meetings
  <2>1. tally \in TallyRec
    BY DEF MeetingFields
  <2> QED  BY <2>1, SpentLemma DEF SameHistory, TallyRec
<1>4. CASE /\ server[id].status \in {"awaiting_upload", "failed"}
           /\ server' = [server EXCEPT ![id].status = "transcribing"]
           /\ upload' = [upload EXCEPT !.stage = "completed"]
           /\ tally' = [tally EXCEPT !.asked[id] = 0, !.unseen = @ \ {id}]
           /\ UNCHANGED screenVars
  <2>1. Becomes(id, "transcribing")
    BY <1>2, <1>4, BecomesLemma DEF Statuses
  <2>2. upload' \in UploadRec /\ upload'.stage = "completed" /\ upload'.id = upload.id
    BY <1>4 DEF MeetingFields, UploadRec
  <2>3. tally.unseen \ {id} \in SUBSET Meetings /\ tally' = Sent(tally, id, tally.unseen \ {id})
    BY <1>3, <1>4 DEF Sent
  <2>4. /\ tally' \in TallyRec /\ tally'.asked = [tally.asked EXCEPT ![id] = 0]
        /\ tally'.unseen = tally.unseen \ {id} /\ tally'.elsewhere = tally.elsewhere
    BY <1>2, <1>3, <2>3, SentLemma
  <2>5. Completes(tally.unseen \ {id})
    BY <1>4, <2>1, <2>4 DEF Completes, Status
  <2> QED  BY <1>1, <1>2, <1>4, <2>2, <2>5 DEF Sends, screenVars
<1>5. CASE /\ server[id].status \in {"awaiting_upload", "failed"}
           /\ server' = [server EXCEPT ![id].status = "transcribing"]
           /\ tally' = [Spent EXCEPT !.asked[id] = 0, !.unseen = @ \union {id}]
           /\ UploadFailed(id)
  <2>1. Becomes(id, "transcribing")
    BY <1>2, <1>5, BecomesLemma DEF Statuses
  <2>2. UploadEnds
    BY <1>2, <1>5, MeetingFacts, FailedUploadLemma
  <2>3. Spent \in TallyRec /\ Spent.unseen = tally.unseen /\ Spent.asked = tally.asked
        /\ Spent.elsewhere = tally.elsewhere
    BY <1>3 DEF SameHistory
  <2>4. /\ tally.unseen \union {id} \in SUBSET Meetings
        /\ tally' = Sent(Spent, id, tally.unseen \union {id})
    BY <1>2, <1>3, <1>5, <2>3 DEF Sent
  <2>5. /\ tally' \in TallyRec /\ tally'.asked = [tally.asked EXCEPT ![id] = 0]
        /\ tally'.unseen = tally.unseen \union {id} /\ tally'.elsewhere = tally.elsewhere
    BY <1>2, <2>3, <2>4, SentLemma
  <2>6. Completes(tally.unseen \union {id})
    BY <1>5, <2>1, <2>5 DEF Completes, Status
  <2> QED  BY <1>1, <1>2, <2>2, <2>6 DEF Sends, UploadEnds
<1>6. CASE (tally' = Spent \/ tally' = tally) /\ UploadFailed(id) /\ server' = server
  <2>1. UploadEnds
    BY <1>2, <1>6, MeetingFacts, FailedUploadLemma
  <2>2. SameHistory(tally', tally) /\ SameStatus
    BY <1>3, <1>6, SameLemma
  <2> QED  BY <1>1, <1>2, <2>1, <2>2 DEF Sends, UploadEnds
<1> QED  BY <1>4, <1>5, <1>6 DEF SendRecording

(* The end of an upload that is complete.                                    *)
UploadDone ==
  /\ UNCHANGED <<mount, viewRun, settled, cancel, reply, poll, notesPoll>>
  /\ upload.stage = "completed" /\ upload.id \in Meetings /\ upload' \in UploadRec
  /\ \/ Applies(upload.id, "transcribing") /\ SameStatus /\ upload'.stage = "none"
     \/ /\ Becomes(upload.id, "failed") /\ Status(upload.id) = "transcribing"
        /\ upload'.stage = "undone"
        /\ UNCHANGED <<phase, meeting, pending, post, tally>>

LEMMA UploadDoneLemma == ASSUME MeetingFields, Numbered, UploadIsDone  PROVE UploadDone
<1>1. UNCHANGED <<mount, cancel, reply, poll, notesPoll>> /\ upload.stage = "completed"
  BY DEF UploadIsDone, effectVars
<1>2. upload.id \in Meetings /\ "transcribing" \in Statuses
  BY <1>1, MeetingFacts DEF Numbered, MeetingFields, UploadRec, Statuses
<1>3. CASE /\ upload' = NoUpload /\ ApplyRecordingMeeting(upload.id, "transcribing")
           /\ UNCHANGED <<viewRun, settled, server>>
  <2>1. Applies(upload.id, "transcribing")
    BY <1>2, <1>3, ApplyLemma
  <2>2. SameStatus /\ upload' \in UploadRec
    BY <1>3, SameLemma, NothingLemma
  <2>3. upload'.stage = "none"
    BY <1>3 DEF NoUpload
  <2> QED  BY <1>1, <1>2, <1>3, <2>1, <2>2, <2>3 DEF UploadDone
<1>4. CASE /\ server[upload.id].status = "transcribing"
           /\ server' = [server EXCEPT ![upload.id].status = "failed"]
           /\ upload' = [upload EXCEPT !.stage = "undone"]
           /\ UNCHANGED <<post, tally>> /\ UNCHANGED screenVars
  <2>1. Becomes(upload.id, "failed")
    BY <1>2, <1>4, BecomesLemma DEF Statuses
  <2>2. upload' \in UploadRec /\ upload'.stage = "undone"
    BY <1>4 DEF MeetingFields, UploadRec
  <2> QED  BY <1>1, <1>2, <1>4, <2>1, <2>2 DEF UploadDone, Status, screenVars
<1> QED  BY <1>3, <1>4 DEF UploadIsDone, UndoFails

(* The end of an upload that was cancelled.                                  *)
Undone ==
  /\ UNCHANGED <<mount, viewRun, settled, cancel, post, reply, tally, poll, notesPoll>>
  /\ upload.stage = "undone" /\ upload' = NoUpload
  /\ \/ SameStatus
     \/ \E m \in Meetings : Becomes(m, "gone") /\ Status(m) # "transcribing"
  /\ phase' = "stopped" /\ meeting' \in {meeting, NoMeeting} /\ pending' = TRUE

LEMMA UndoneLemma == ASSUME MeetingFields, UploadIsCancelled  PROVE Undone
<1>1. /\ UNCHANGED <<mount, viewRun, settled, cancel, post, reply, tally, poll, notesPoll>>
      /\ upload.stage = "undone" /\ upload' = NoUpload
      /\ phase' = "stopped" /\ meeting' \in {meeting, NoMeeting} /\ pending' = TRUE
  BY DEF UploadIsCancelled, effectVars, Sets
<1>2. CASE server' = server
  BY <1>1, <1>2, SameLemma DEF Undone
<1>3. CASE /\ upload.id # 0 /\ server[upload.id].status # "transcribing"
           /\ server' = [server EXCEPT ![upload.id].status = "gone"]
  <2>1. upload.id \in Meetings /\ "gone" \in Statuses
    BY <1>3, MeetingFacts DEF MeetingFields, UploadRec, Statuses
  <2>2. Becomes(upload.id, "gone") /\ Status(upload.id) # "transcribing"
    BY <1>3, <2>1, BecomesLemma DEF Status
  <2> QED  BY <1>1, <2>1, <2>2 DEF Undone
<1> QED  BY <1>2, <1>3 DEF UploadIsCancelled

(* An answer to the poll: go on, nothing is left, or the end.                *)
PollAnswered ==
  /\ UNCHANGED <<mount, viewRun, notesPoll, upload, cancel, reply, server>>
  /\ poll.stage = "answered"
  /\ poll' \in PollRec /\ poll'.id = poll.id /\ poll'.run = poll.run
  /\ \/ /\ poll'.stage = "waiting" /\ poll'.seen = "none"
        /\ UNCHANGED <<phase, meeting, pending, settled, post, tally>>
     \/ /\ poll.seen = "gone" /\ poll'.stage = "done" /\ poll'.seen = "gone"
        /\ phase' = "stopped" /\ meeting' = NoMeeting /\ pending' = TRUE
        /\ UNCHANGED <<settled, post, tally>>
     \/ /\ poll.seen \notin {"transcribing", "error", "gone"}
        /\ poll'.stage = "done" /\ poll'.seen = poll.seen
        /\ Settles(poll.run, poll.id, poll.seen)

LEMMA PollAnsweredLemma == ASSUME MeetingFields, Numbered, PollAnswers  PROVE PollAnswered
<1>1. UNCHANGED <<mount, notesPoll, upload, cancel, reply, server>> /\ poll.stage = "answered"
  BY DEF PollAnswers
<1>2. poll.id \in Meetings /\ poll.run \in Nat /\ poll.seen \in Statuses \union {"error"} /\ poll \in PollRec
  BY <1>1, MeetingFacts DEF Numbered, MeetingFields, PollRec
<1>3. CASE /\ poll' = [poll EXCEPT !.stage = "waiting", !.seen = "none"]
           /\ UNCHANGED screenVars /\ UNCHANGED <<post, tally>>
  <2>1. /\ poll' \in PollRec /\ poll'.id = poll.id /\ poll'.run = poll.run
        /\ poll'.stage = "waiting" /\ poll'.seen = "none"
    BY <1>2, <1>3 DEF PollRec, Statuses
  <2> QED  BY <1>1, <1>3, <2>1 DEF PollAnswered, screenVars
<1>4. ASSUME poll' = [poll EXCEPT !.stage = "done"]
      PROVE  /\ poll' \in PollRec /\ poll'.id = poll.id /\ poll'.run = poll.run
             /\ poll'.stage = "done" /\ poll'.seen = poll.seen
  BY <1>2, <1>4 DEF PollRec
<1>5. CASE /\ poll.seen = "gone" /\ poll' = [poll EXCEPT !.stage = "done"] /\ Sets("stopped", NoMeeting)
           /\ UNCHANGED <<viewRun, settled, post, tally>>
  BY <1>1, <1>4, <1>5 DEF PollAnswered, Sets
<1>6. CASE /\ poll.seen \notin {"transcribing", "error", "gone"} /\ poll' = [poll EXCEPT !.stage = "done"]
           /\ SettleTranscription(poll.run, poll.id, poll.seen)
  <2>1. poll.seen \in Statuses
    BY <1>2, <1>6
  <2>2. Settles(poll.run, poll.id, poll.seen)
    BY <1>2, <1>6, <2>1, SettleLemma
  <2>3. UNCHANGED viewRun
    BY <2>2 DEF Settles
  <2> QED  BY <1>1, <1>4, <1>6, <2>2, <2>3 DEF PollAnswered
<1> QED  BY <1>3, <1>5, <1>6 DEF PollAnswers

(* The answer to a cancellation.                                             *)
CancelAnswered(c) ==
  /\ UNCHANGED <<mount, upload, reply, server, poll, notesPoll>>
  /\ cancel[c].stage \in {"answered", "told"}
  /\ cancel' = [cancel EXCEPT ![c] = NoCancel]
  /\ cancel[c].id \in Meetings /\ cancel[c].run \in Nat /\ cancel[c].seen \in Statuses
  /\ Settles(cancel[c].run, cancel[c].id, cancel[c].seen)

LEMMA CancelAnsweredLemma ==
  ASSUME NEW c \in Cancels, MeetingFields, Numbered, CancelAnswers(c)  PROVE CancelAnswered(c)
<1>1. /\ UNCHANGED <<mount, upload, reply, server, poll, notesPoll>>
      /\ cancel[c].stage \in {"answered", "told"}
      /\ cancel' = [cancel EXCEPT ![c] = NoCancel]
      /\ SettleTranscription(cancel[c].run, cancel[c].id, cancel[c].seen)
  BY DEF CancelAnswers, effectVars
<1>2. cancel[c].id \in Meetings /\ cancel[c].run \in Nat /\ cancel[c].seen \in Statuses
  BY <1>1, MeetingFacts DEF Numbered, MeetingFields, CancelRec
<1> QED  BY <1>1, <1>2, SettleLemma DEF CancelAnswered

(* The server takes a request for notes, or refuses it.                      *)
PostTaken ==
  /\ UNCHANGED <<mount, phase, meeting, pending, viewRun, settled, poll, notesPoll, upload, cancel, reply>>
  /\ SameStatus /\ SameHistory(tally', tally)
  /\ post' \in [Posts -> PostRec]
  /\ \A k \in Posts : /\ post'[k].id = post[k].id /\ post'[k].view = post[k].view
                      /\ post'[k].stage # "none" => post[k].stage # "none"

LEMMA PostTakenLemma ==
  ASSUME NEW g \in Posts, MeetingFields, Numbered, ServerTakesPost(g)  PROVE PostTaken
<1> DEFINE m == post[g].id
<1>1. /\ UNCHANGED <<mount, phase, meeting, pending, viewRun, settled, poll, notesPoll, upload, cancel, reply>>
      /\ post[g].stage = "sent"
  BY DEF ServerTakesPost, screenVars, effectVars
<1>2. m \in Meetings
  BY <1>1, MeetingFacts DEF Numbered, MeetingFields, PostRec
<1>3. SameHistory(tally', tally)
  <2>1. tally' = tally \/ tally' = Spent
    BY DEF ServerTakesPost
  <2>2. SameHistory(tally, tally)
    BY DEF SameHistory, MeetingFields
  <2> QED  BY <2>1, <2>2, SpentLemma DEF MeetingFields
<1>4. \E seen \in {"generating", "ready", "failed", "refused", "in_use"} :
        post' = [post EXCEPT ![g].stage = "answered", ![g].seen = seen]
  BY DEF ServerTakesPost
<1>5. /\ post' \in [Posts -> PostRec]
      /\ \A k \in Posts : /\ post'[k].id = post[k].id /\ post'[k].view = post[k].view
                          /\ post'[k].stage # "none" => post[k].stage # "none"
  <2>1. PICK seen \in {"generating", "ready", "failed", "refused", "in_use"} :
          post' = [post EXCEPT ![g].stage = "answered", ![g].seen = seen]
    BY <1>4
  <2> DEFINE new == [post[g] EXCEPT !.stage = "answered", !.seen = seen]
  <2>2. post \in [Posts -> PostRec] /\ post' = [post EXCEPT ![g] = new]
    BY <2>1 DEF MeetingFields
  <2>3. new \in PostRec /\ new.id = post[g].id /\ new.view = post[g].view
    BY <2>2 DEF PostRec
  <2> HIDE DEF new
  <2>4. \A k \in Posts : post'[k] = IF k = g THEN new ELSE post[k]
    BY <2>2
  <2> QED  BY <1>1, <2>2, <2>3, <2>4
<1>6. server' = server \/ \E n \in NotesStatuses : server' = [server EXCEPT ![m].notes = n]
  <2>1. CASE \E seen \in {"generating", "ready", "failed"} : server' = [server EXCEPT ![m].notes = seen]
    BY <2>1 DEF NotesStatuses
  <2>2. CASE server' = [server EXCEPT ![m].notes = IF server[m].status = "open" THEN "generating" ELSE @]
    <3>1. server' = [server EXCEPT ![m].notes = IF server[m].status = "open" THEN "generating" ELSE server[m].notes]
      BY <2>2
    <3>2. (IF server[m].status = "open" THEN "generating" ELSE server[m].notes) \in NotesStatuses
      BY <1>2 DEF NotesStatuses, MeetingFields
    <3> QED  BY <3>1, <3>2
  <2> QED  BY <2>1, <2>2 DEF ServerTakesPost
<1>7. SameStatus
  BY <1>2, <1>6, SameLemma, NotesLemma
<1> QED  BY <1>1, <1>3, <1>5, <1>7 DEF PostTaken

(* The notes of a meeting end, or are cancelled.                             *)
LEMMA NotesEndShape == ASSUME NEW m \in Meetings, MeetingFields, NotesEnd(m)  PROVE SameStatus
<1>1. PICK n \in {"ready", "failed"} : server' = [server EXCEPT ![m].notes = n]
  BY DEF NotesEnd
<1> QED  BY <1>1, NotesLemma DEF NotesStatuses

LEMMA CancelledNotesShape ==
  ASSUME MeetingFields, Numbered, ServerCancelsNotes
  PROVE  /\ SameStatus
         /\ reply' \in [Replies -> ReplyRec]
         /\ \A r \in Replies \ {"cancelNotes"} : reply'[r] = reply[r]
         /\ LET old == reply["cancelNotes"]
                new == reply'["cancelNotes"]
            IN  old.stage = "sent" /\ (new.stage # "none" => new.id = old.id /\ new.view = old.view)
<1> DEFINE r == reply["cancelNotes"]
<1>1. r \in ReplyRec /\ r.stage = "sent" /\ r.id \in Meetings /\ reply \in [Replies -> ReplyRec] /\ "cancelNotes" \in Replies
  BY MeetingFacts DEF ServerCancelsNotes, Numbered, MeetingFields, ReplyRec, Replies
<1>2. CASE server[r.id].notes = "generating"
  <2>1. server' = [server EXCEPT ![r.id].notes = "failed"] /\ reply' = [reply EXCEPT !["cancelNotes"].stage = "answered"]
    BY <1>2 DEF ServerCancelsNotes
  <2>2. SameStatus
    BY <1>1, <2>1, NotesLemma DEF NotesStatuses
  <2> QED  BY <1>1, <2>1, <2>2 DEF ReplyRec
<1>3. CASE server[r.id].notes # "generating"
  <2>1. server' = server /\ reply' = [reply EXCEPT !["cancelNotes"] = NoReply]
    BY <1>3 DEF ServerCancelsNotes
  <2>2. SameStatus
    BY <2>1, SameLemma
  <2>3. NoReply.stage = "none"
    BY DEF NoReply
  <2> QED  BY <1>1, <2>1, <2>2, <2>3, NothingLemma
<1> QED  BY <1>2, <1>3

(* What another tab does.                                                    *)
LEMMA ElsewhereShape ==
  ASSUME NEW m \in Meetings, MeetingFields, OtherTabMeeting(m)
  PROVE  /\ UNCHANGED <<mount, phase, meeting, pending, viewRun, settled, poll, notesPoll, upload, cancel, post, reply>>
         /\ ServerFits /\ tally' \in TallyRec /\ (tally.elsewhere => tally'.elsewhere)
         /\ tally'.elsewhere \/ (SameStatus /\ SameHistory(tally', tally))
<1>1. UNCHANGED <<mount, phase, meeting, pending, viewRun, settled, poll, notesPoll, upload, cancel, post,
                  reply>>
  BY DEF OtherTabMeeting, screenVars, effectVars, callVars
<1>2. CASE /\ server' = [server EXCEPT ![m] = [status |-> "gone", notes |-> "none"]]
           /\ tally' = [Spent EXCEPT !.elsewhere = TRUE]
  <2>1. Becomes(m, "gone")
    BY <1>2, BecomesLemma DEF Statuses
  <2>2. Spent \in TallyRec
    BY SpentLemma DEF MeetingFields, SameHistory
  <2>3. tally' \in TallyRec /\ tally'.elsewhere
    BY <1>2, <2>2 DEF TallyRec
  <2> QED  BY <1>1, <2>1, <2>3 DEF Becomes
<1>3. CASE server' = [server EXCEPT ![m].notes = "applied"] /\ tally' = Spent
  <2>1. SameStatus
    BY <1>3, NotesLemma DEF NotesStatuses
  <2>2. SameHistory(tally', tally)
    BY <1>3, SpentLemma DEF MeetingFields
  <2> QED  BY <1>1, <2>1, <2>2 DEF SameStatus, SameHistory
<1> QED  BY <1>2, <1>3 DEF OtherTabMeeting

(* The end of a deletion.                                                    *)
Deleted ==
  /\ UNCHANGED <<mount, upload, cancel, post, poll, notesPoll>>
  /\ reply["delete"].stage = "sent" /\ reply' = [reply EXCEPT !["delete"] = NoReply]
  /\ pending' = TRUE
  /\ \/ /\ Becomes(reply["delete"].id, "gone") /\ Status(reply["delete"].id) # "transcribing"
        /\ viewRun' = viewRun + 1 /\ settled' = settled + 1
        /\ phase' = "idle" /\ meeting' = NoMeeting
        /\ UNCHANGED tally
     \/ /\ phase' = reply["delete"].before
        /\ SameStatus /\ SameHistory(tally', tally)
        /\ UNCHANGED <<meeting, viewRun, settled>>

LEMMA DeletedLemma == ASSUME MeetingFields, Numbered, Deletes  PROVE Deleted
<1> DEFINE r == reply["delete"]
<1>1. /\ UNCHANGED <<mount, upload, cancel, post, poll, notesPoll>>
      /\ r.stage = "sent" /\ reply' = [reply EXCEPT !["delete"] = NoReply]
  BY DEF Deletes, effectVars
<1>2. r.id \in Meetings
  BY <1>1, MeetingFacts DEF Numbered, MeetingFields, ReplyRec, Replies
<1>3. CASE /\ server[r.id].status # "transcribing"
           /\ server' = [server EXCEPT ![r.id] = [status |-> "gone", notes |-> "none"]]
           /\ NextView /\ settled' = settled + 1 /\ Sets("idle", NoMeeting) /\ UNCHANGED tally
  <2>1. Becomes(r.id, "gone")
    BY <1>2, <1>3, BecomesLemma DEF Statuses
  <2> QED  BY <1>1, <1>3, <2>1 DEF Deleted, NextView, Sets, Status
<1>4. CASE (tally' = tally \/ tally' = Spent) /\ Sets(r.before, meeting) /\ UNCHANGED <<viewRun, settled, server>>
  <2>1. SameStatus
    BY <1>4, SameLemma
  <2>2. SameHistory(tally', tally)
    BY <1>4, SpentLemma DEF SameHistory, MeetingFields
  <2> QED  BY <1>1, <1>4, <2>1, <2>2 DEF Deleted, Sets
<1> QED  BY <1>3, <1>4 DEF Deletes

-----------------------------------------------------------------------------
(* Types, and what is on its way is about a meeting: one lemma per action.   *)

LEMMA RenderFields ==
  ASSUME MeetingFields, Numbered, Render
  PROVE  MeetingFields' /\ Numbered' /\ (tally.elsewhere => tally'.elsewhere)
<1> USE MeetingFacts, NothingLemma, NothingWaits DEF MeetingFields
<1>1. UNCHANGED <<mount, phase, meeting, viewRun, settled, upload, cancel, post, reply, server, tally>>
  BY DEF Render, Effects, callVars
<1>2. pending' \in BOOLEAN
  BY DEF Render, Effects, callVars
<1>3. poll' \in PollRec
  BY DEF Render, Effects, callVars, PollRec, Statuses
<1>4. notesPoll' \subseteq {"ready", "failed", "applied", "off"}
  BY DEF Render, Effects, callVars, NotesStatuses
<1>5. Numbered'
  BY DEF Render, Effects, callVars, Numbered, Replies
<1> QED  BY <1>1, <1>2, <1>3, <1>4, <1>5

LEMMA UploadRecordingFields ==
  ASSUME MeetingFields, Numbered, UploadRecording
  PROVE  MeetingFields' /\ Numbered' /\ (tally.elsewhere => tally'.elsewhere)
<1> USE MeetingFacts, NothingLemma, NothingWaits DEF MeetingFields
<1>1. UNCHANGED <<mount, viewRun, settled, cancel, post, reply, server>>
  BY DEF UploadRecording, AcceptsRecording, UserActs, Shows, Effects
<1>2. phase' \in Phases
  BY DEF UploadRecording, AcceptsRecording, UserActs, Shows, Effects, Phases
<1>3. meeting' \in [id : Numbers, status : Statuses]
  BY DEF UploadRecording, AcceptsRecording, UserActs, Shows, Effects, Statuses
<1>4. pending' \in BOOLEAN
  BY DEF UploadRecording, AcceptsRecording, UserActs, Shows, Effects
<1>5. upload' \in UploadRec
  <2> DEFINE fits == phase = "stopped" /\ AcceptsRecording
  <2>1. \/ upload' = upload
        \/ upload' = [stage |-> IF fits THEN "sending" ELSE "creating", id |-> IF fits THEN meeting.id ELSE 0,
                      reusable |-> fits, aborted |-> FALSE]
    BY DEF UploadRecording, NoMeeting
  <2>2. fits \in BOOLEAN /\ meeting.id \in Numbers
    BY DEF AcceptsRecording
  <2> HIDE DEF fits
  <2>3. [stage |-> IF fits THEN "sending" ELSE "creating", id |-> IF fits THEN meeting.id ELSE 0,
         reusable |-> fits, aborted |-> FALSE] \in UploadRec
    BY <2>2 DEF UploadRec
  <2> QED  BY <2>1, <2>3
<1>6. poll' \in PollRec
  BY DEF UploadRecording, AcceptsRecording, UserActs, Shows, Effects, PollRec, Statuses
<1>7. notesPoll' \subseteq {"ready", "failed", "applied", "off"}
  BY DEF UploadRecording, AcceptsRecording, UserActs, Shows, Effects, NotesStatuses
<1>8. tally' \in TallyRec /\ (tally.elsewhere => tally'.elsewhere)
  <2>1. tally \in TallyRec
    OBVIOUS
  <2>2. SameHistory(tally', tally)
    BY <2>1, CountLemma, SpentLemma DEF UploadRecording, SameHistory
  <2> QED  BY <2>2 DEF SameHistory
<1>9. Numbered'
  BY DEF UploadRecording, AcceptsRecording, UserActs, Shows, Effects, Numbered, Replies
<1> QED  BY <1>1, <1>2, <1>3, <1>4, <1>5, <1>6, <1>7, <1>8, <1>9

LEMMA CancelUploadFields ==
  ASSUME MeetingFields, Numbered, CancelUpload
  PROVE  MeetingFields' /\ Numbered' /\ (tally.elsewhere => tally'.elsewhere)
<1> USE MeetingFacts, NothingLemma, NothingWaits DEF MeetingFields
<1>1. UNCHANGED <<mount, phase, meeting, pending, viewRun, settled, poll, notesPoll, cancel, post, reply,
                  server, tally>>
  BY DEF CancelUpload, UserActs, screenVars, effectVars
<1>2. upload' \in UploadRec
  BY DEF CancelUpload, UserActs, screenVars, effectVars, UploadRec
<1>3. Numbered'
  BY DEF CancelUpload, UserActs, screenVars, effectVars, Numbered, Replies
<1> QED  BY <1>1, <1>2, <1>3

LEMMA CreateMeetingFields ==
  ASSUME MeetingFields, Numbered, CreateMeeting
  PROVE  MeetingFields' /\ Numbered' /\ (tally.elsewhere => tally'.elsewhere)
<1> USE MeetingFacts, NothingLemma, NothingWaits DEF MeetingFields
<1>0. Creates
  BY MeetingMadeLemma
<1>1. UNCHANGED <<mount, viewRun, settled, poll, notesPoll, cancel, post, reply>>
  BY <1>0 DEF Creates, Becomes, SameStatus, ServerFits, SameHistory, UploadEnds
<1>2. phase' \in Phases
  BY <1>0 DEF Creates, Becomes, SameStatus, ServerFits, SameHistory, UploadEnds, Phases
<1>3. meeting' \in [id : Numbers, status : Statuses]
  BY <1>0 DEF Creates, Becomes, SameStatus, ServerFits, SameHistory, UploadEnds, Statuses
<1>4. pending' \in BOOLEAN
  BY <1>0 DEF Creates, Becomes, SameStatus, ServerFits, SameHistory, UploadEnds
<1>5. upload' \in UploadRec
  BY <1>0 DEF Creates, Becomes, SameStatus, ServerFits, SameHistory, UploadEnds, UploadRec
<1>6. server' \in [Meetings -> [status : Statuses, notes : NotesStatuses]]
  BY <1>0 DEF Creates, Becomes, SameStatus, ServerFits, SameHistory, UploadEnds, Statuses, NotesStatuses
<1>7. tally' \in TallyRec /\ (tally.elsewhere => tally'.elsewhere)
  BY <1>0 DEF Creates, Becomes, SameStatus, ServerFits, SameHistory, UploadEnds, TallyRec, PostRec,
              ReplyRec, Replies, UploadRec, PollRec, CancelRec
<1>8. Numbered'
  BY <1>0 DEF Creates, Becomes, SameStatus, ServerFits, SameHistory, UploadEnds, Numbered, Replies
<1> QED  BY <1>1, <1>2, <1>3, <1>4, <1>5, <1>6, <1>7, <1>8

LEMMA SendRecordingFields ==
  ASSUME MeetingFields, Numbered, SendRecording
  PROVE  MeetingFields' /\ Numbered' /\ (tally.elsewhere => tally'.elsewhere)
<1> USE MeetingFacts, NothingLemma, NothingWaits DEF MeetingFields
<1>0. Sends
  BY SendsLemma
<1>1. UNCHANGED <<mount, viewRun, settled, poll, notesPoll, cancel, post, reply>>
  BY <1>0 DEF Sends, Becomes, SameStatus, ServerFits, SameHistory, UploadEnds, Completes
<1>2. phase' \in Phases
  BY <1>0 DEF Sends, Becomes, SameStatus, ServerFits, SameHistory, UploadEnds, Completes, Phases
<1>3. meeting' \in [id : Numbers, status : Statuses]
  BY <1>0 DEF Sends, Becomes, SameStatus, ServerFits, SameHistory, UploadEnds, Completes, Statuses
<1>4. pending' \in BOOLEAN
  BY <1>0 DEF Sends, Becomes, SameStatus, ServerFits, SameHistory, UploadEnds, Completes
<1>5. upload' \in UploadRec
  BY <1>0 DEF Sends, Becomes, SameStatus, ServerFits, SameHistory, UploadEnds, Completes, UploadRec
<1>6. server' \in [Meetings -> [status : Statuses, notes : NotesStatuses]]
  BY <1>0 DEF Sends, Becomes, SameStatus, ServerFits, SameHistory, UploadEnds, Completes, Statuses,
              NotesStatuses
<1>7. tally' \in TallyRec /\ (tally.elsewhere => tally'.elsewhere)
  BY <1>0 DEF Sends, Becomes, SameStatus, ServerFits, SameHistory, UploadEnds, Completes, TallyRec, PostRec,
              ReplyRec, Replies, UploadRec, PollRec, CancelRec
<1>8. Numbered'
  BY <1>0 DEF Sends, Becomes, SameStatus, ServerFits, SameHistory, UploadEnds, Completes, Numbered, Replies
<1> QED  BY <1>1, <1>2, <1>3, <1>4, <1>5, <1>6, <1>7, <1>8

LEMMA UploadIsDoneFields ==
  ASSUME MeetingFields, Numbered, UploadIsDone
  PROVE  MeetingFields' /\ Numbered' /\ (tally.elsewhere => tally'.elsewhere)
<1> USE MeetingFacts, NothingLemma, NothingWaits DEF MeetingFields
<1>0. UploadDone
  BY UploadDoneLemma
<1>1. UNCHANGED <<mount, viewRun, settled, poll, notesPoll, cancel, reply>>
  BY <1>0 DEF UploadDone, Applies, Requests, Becomes, SameStatus, ServerFits
<1>2. phase' \in Phases
  BY <1>0 DEF UploadDone, Applies, Requests, Becomes, SameStatus, ServerFits, Phases
<1>3. meeting' \in [id : Numbers, status : Statuses]
  BY <1>0 DEF UploadDone, Applies, Requests, Becomes, SameStatus, ServerFits, Statuses
<1>4. pending' \in BOOLEAN
  BY <1>0 DEF UploadDone, Applies, Requests, Becomes, SameStatus, ServerFits
<1>5. upload' \in UploadRec
  BY <1>0 DEF UploadDone, Applies, Requests, Becomes, SameStatus, ServerFits, UploadRec
<1>6. post' \in [Posts -> PostRec]
  BY <1>0 DEF UploadDone, Applies, Requests, Becomes, SameStatus, ServerFits, PostRec, UploadRec, PollRec,
              CancelRec
<1>7. server' \in [Meetings -> [status : Statuses, notes : NotesStatuses]]
  BY <1>0 DEF UploadDone, Applies, Requests, Becomes, SameStatus, ServerFits, Statuses, NotesStatuses
<1>8. tally' \in TallyRec /\ (tally.elsewhere => tally'.elsewhere)
  BY <1>0 DEF UploadDone, Applies, Requests, Becomes, SameStatus, ServerFits, TallyRec, PostRec, ReplyRec,
              Replies, UploadRec, PollRec, CancelRec
<1>9. Numbered'
  BY <1>0 DEF UploadDone, Applies, Requests, Becomes, SameStatus, ServerFits, Numbered, Replies
<1> QED  BY <1>1, <1>2, <1>3, <1>4, <1>5, <1>6, <1>7, <1>8, <1>9

LEMMA UploadIsCancelledFields ==
  ASSUME MeetingFields, Numbered, UploadIsCancelled
  PROVE  MeetingFields' /\ Numbered' /\ (tally.elsewhere => tally'.elsewhere)
<1> USE MeetingFacts, NothingLemma, NothingWaits DEF MeetingFields
<1>0. Undone
  BY UndoneLemma
<1>1. UNCHANGED <<mount, viewRun, settled, poll, notesPoll, cancel, post, reply, tally>>
  BY <1>0 DEF Undone, Becomes, SameStatus, ServerFits
<1>2. phase' \in Phases
  BY <1>0 DEF Undone, Becomes, SameStatus, ServerFits, Phases
<1>3. meeting' \in [id : Numbers, status : Statuses]
  BY <1>0 DEF Undone, Becomes, SameStatus, ServerFits, Statuses
<1>4. pending' \in BOOLEAN
  BY <1>0 DEF Undone, Becomes, SameStatus, ServerFits
<1>5. upload' \in UploadRec
  BY <1>0 DEF Undone, Becomes, SameStatus, ServerFits, UploadRec
<1>6. server' \in [Meetings -> [status : Statuses, notes : NotesStatuses]]
  BY <1>0 DEF Undone, Becomes, SameStatus, ServerFits, Statuses, NotesStatuses
<1>7. Numbered'
  BY <1>0 DEF Undone, Becomes, SameStatus, ServerFits, Numbered, Replies
<1> QED  BY <1>1, <1>2, <1>3, <1>4, <1>5, <1>6, <1>7

LEMMA PollTranscriptionFields ==
  ASSUME MeetingFields, Numbered, PollTranscription
  PROVE  MeetingFields' /\ Numbered' /\ (tally.elsewhere => tally'.elsewhere)
<1> USE MeetingFacts, NothingLemma, NothingWaits DEF MeetingFields
<1>1. UNCHANGED <<mount, phase, meeting, pending, viewRun, settled, upload, notesPoll, cancel, post, reply,
                  server>>
  BY DEF PollTranscription, MeetingTrouble, Spent, screenVars, callVars
<1>2. poll' \in PollRec
  <2>1. poll \in PollRec /\ poll.id \in Meetings
    BY DEF PollTranscription, Numbered, PollRec
  <2>2. server[poll.id].status \in Statuses
    BY <2>1
  <2> QED  BY <2>1, <2>2 DEF PollTranscription, PollRec
<1>3. tally' \in TallyRec /\ (tally.elsewhere => tally'.elsewhere)
  <2>1. tally' = tally \/ tally' = Spent
    BY DEF PollTranscription
  <2> QED  BY <2>1, SpentLemma DEF SameHistory
<1>4. Numbered'
  <2>1. poll'.id = poll.id /\ poll.id # 0
    BY DEF PollTranscription, Numbered, PollRec
  <2> QED  BY <1>1, <2>1 DEF Numbered
<1> QED  BY <1>1, <1>2, <1>3, <1>4

LEMMA PollAnswersFields ==
  ASSUME MeetingFields, Numbered, PollAnswers
  PROVE  MeetingFields' /\ Numbered' /\ (tally.elsewhere => tally'.elsewhere)
<1> USE MeetingFacts, NothingLemma, NothingWaits DEF MeetingFields
<1>0. PollAnswered
  BY PollAnsweredLemma
<1>1. UNCHANGED <<mount, viewRun, upload, notesPoll, cancel, reply, server>>
  BY <1>0 DEF PollAnswered, Settles, Applies, Requests
<1>2. phase' \in Phases
  BY <1>0 DEF PollAnswered, Settles, Applies, Requests, Phases
<1>3. meeting' \in [id : Numbers, status : Statuses]
  BY <1>0 DEF PollAnswered, Settles, Applies, Requests, Statuses
<1>4. pending' \in BOOLEAN
  BY <1>0 DEF PollAnswered, Settles, Applies, Requests
<1>5. settled' \in Nat
  BY <1>0 DEF PollAnswered, Settles, Applies, Requests
<1>6. poll' \in PollRec
  BY <1>0 DEF PollAnswered, Settles, Applies, Requests, PollRec, Statuses
<1>7. post' \in [Posts -> PostRec]
  BY <1>0 DEF PollAnswered, Settles, Applies, Requests, PostRec, UploadRec, PollRec, CancelRec
<1>8. tally' \in TallyRec /\ (tally.elsewhere => tally'.elsewhere)
  BY <1>0 DEF PollAnswered, Settles, Applies, Requests, TallyRec, PostRec, ReplyRec, Replies, UploadRec,
              PollRec, CancelRec
<1>9. Numbered'
  BY <1>0 DEF PollAnswered, Settles, Applies, Requests, Numbered, Replies
<1> QED  BY <1>1, <1>2, <1>3, <1>4, <1>5, <1>6, <1>7, <1>8, <1>9

LEMMA CancelTranscriptionFields ==
  ASSUME NEW c \in Cancels, MeetingFields, Numbered, CancelTranscription(c)
  PROVE  MeetingFields' /\ Numbered' /\ (tally.elsewhere => tally'.elsewhere)
<1> USE MeetingFacts, NothingLemma, NothingWaits DEF MeetingFields
<1>1. UNCHANGED <<mount, phase, meeting, pending, viewRun, settled, upload, poll, notesPoll, post, reply,
                  server, tally>>
  BY DEF CancelTranscription, UserActs, screenVars, effectVars
<1>2. cancel' \in [Cancels -> CancelRec]
  BY DEF CancelTranscription, UserActs, screenVars, effectVars, CancelRec, Statuses
<1>3. Numbered'
  BY DEF CancelTranscription, UserActs, screenVars, effectVars, Numbered, Replies
<1> QED  BY <1>1, <1>2, <1>3

LEMMA ServerCancelsFields ==
  ASSUME NEW c \in Cancels, MeetingFields, Numbered, ServerCancels(c)
  PROVE  MeetingFields' /\ Numbered' /\ (tally.elsewhere => tally'.elsewhere)
<1> USE MeetingFacts, NothingLemma, NothingWaits DEF MeetingFields
<1>1. UNCHANGED <<mount, phase, meeting, pending, viewRun, settled, upload, poll, notesPoll, post, reply>>
  BY DEF ServerCancels, MeetingTrouble, Spent, screenVars, effectVars
<1>2. cancel' \in [Cancels -> CancelRec]
  BY DEF ServerCancels, MeetingTrouble, Spent, screenVars, effectVars, CancelRec, Statuses
<1>3. server' \in [Meetings -> [status : Statuses, notes : NotesStatuses]]
  BY DEF ServerCancels, MeetingTrouble, Spent, screenVars, effectVars, Statuses, NotesStatuses
<1>4. tally' \in TallyRec /\ (tally.elsewhere => tally'.elsewhere)
  <2>1. tally' = tally \/ tally' = Spent
    BY DEF ServerCancels
  <2> QED  BY <2>1, SpentLemma DEF SameHistory
<1>5. Numbered'
  <2>1. /\ \A k \in Cancels \ {c} : cancel'[k] = cancel[k]
        /\ cancel[c].stage # "none"
    BY DEF ServerCancels
  <2>2. cancel'[c].stage # "none" => cancel'[c].id = cancel[c].id
    BY DEF ServerCancels, CancelRec
  <2> QED  BY <1>1, <2>1, <2>2 DEF Numbered
<1> QED  BY <1>1, <1>2, <1>3, <1>4, <1>5

LEMMA CancelAsksAgainFields ==
  ASSUME NEW c \in Cancels, MeetingFields, Numbered, CancelAsksAgain(c)
  PROVE  MeetingFields' /\ Numbered' /\ (tally.elsewhere => tally'.elsewhere)
<1> USE MeetingFacts, NothingLemma, NothingWaits DEF MeetingFields
<1>1. UNCHANGED <<mount, phase, meeting, pending, viewRun, settled, upload, poll, notesPoll, post, reply,
                  server, tally>>
  BY DEF CancelAsksAgain, screenVars, effectVars
<1>2. cancel' \in [Cancels -> CancelRec]
  <2>1. cancel[c].id \in Meetings
    BY DEF CancelAsksAgain, Numbered, CancelRec
  <2>2. server[cancel[c].id].status \in Statuses
    BY <2>1
  <2>3. \/ cancel' = [cancel EXCEPT ![c] = NoCancel]
        \/ cancel' = [cancel EXCEPT ![c] = [cancel[c] EXCEPT !.stage = "told", !.seen = server[cancel[c].id].status]]
    BY DEF CancelAsksAgain
  <2>4. [cancel[c] EXCEPT !.stage = "told", !.seen = server[cancel[c].id].status] \in CancelRec
    BY <2>2 DEF CancelRec
  <2> QED  BY <2>3, <2>4
<1>3. Numbered'
  BY DEF CancelAsksAgain, screenVars, effectVars, Numbered, Replies
<1> QED  BY <1>1, <1>2, <1>3

LEMMA CancelAnswersFields ==
  ASSUME NEW c \in Cancels, MeetingFields, Numbered, CancelAnswers(c)
  PROVE  MeetingFields' /\ Numbered' /\ (tally.elsewhere => tally'.elsewhere)
<1> USE MeetingFacts, NothingLemma, NothingWaits DEF MeetingFields
<1>0. CancelAnswered(c)
  BY CancelAnsweredLemma
<1>1. UNCHANGED <<mount, viewRun, upload, poll, notesPoll, reply, server>>
  BY <1>0 DEF CancelAnswered, Settles, Applies, Requests
<1>2. phase' \in Phases
  BY <1>0 DEF CancelAnswered, Settles, Applies, Requests, Phases
<1>3. meeting' \in [id : Numbers, status : Statuses]
  BY <1>0 DEF CancelAnswered, Settles, Applies, Requests, Statuses
<1>4. pending' \in BOOLEAN
  BY <1>0 DEF CancelAnswered, Settles, Applies, Requests
<1>5. settled' \in Nat
  BY <1>0 DEF CancelAnswered, Settles, Applies, Requests
<1>6. cancel' \in [Cancels -> CancelRec]
  BY <1>0 DEF CancelAnswered
<1>7. post' \in [Posts -> PostRec]
  BY <1>0 DEF CancelAnswered, Settles, Applies, Requests, PostRec, UploadRec, PollRec, CancelRec
<1>8. tally' \in TallyRec /\ (tally.elsewhere => tally'.elsewhere)
  BY <1>0 DEF CancelAnswered, Settles, Applies, Requests, TallyRec, PostRec, ReplyRec, Replies, UploadRec,
              PollRec, CancelRec
<1>9. Numbered'
  BY <1>0 DEF CancelAnswered, Settles, Applies, Requests, Numbered, Replies
<1> QED  BY <1>1, <1>2, <1>3, <1>4, <1>5, <1>6, <1>7, <1>8, <1>9

LEMMA ServerTakesPostFields ==
  ASSUME NEW g \in Posts, MeetingFields, Numbered, ServerTakesPost(g)
  PROVE  MeetingFields' /\ Numbered' /\ (tally.elsewhere => tally'.elsewhere)
<1> USE MeetingFacts, NothingLemma, NothingWaits DEF MeetingFields
<1>0. PostTaken
  BY PostTakenLemma
<1>1. UNCHANGED <<mount, phase, meeting, pending, viewRun, settled, upload, poll, notesPoll, cancel, reply>>
  BY <1>0 DEF PostTaken, SameStatus, ServerFits, SameHistory
<1>2. post' \in [Posts -> PostRec]
  BY <1>0 DEF PostTaken, SameStatus, ServerFits, SameHistory, PostRec, UploadRec, PollRec, CancelRec
<1>3. server' \in [Meetings -> [status : Statuses, notes : NotesStatuses]]
  BY <1>0 DEF PostTaken, SameStatus, ServerFits, SameHistory, Statuses, NotesStatuses
<1>4. tally' \in TallyRec /\ (tally.elsewhere => tally'.elsewhere)
  BY <1>0 DEF PostTaken, SameStatus, ServerFits, SameHistory, TallyRec, PostRec, ReplyRec, Replies,
              UploadRec, PollRec, CancelRec
<1>5. Numbered'
  BY <1>0 DEF PostTaken, SameStatus, ServerFits, SameHistory, Numbered, Replies
<1> QED  BY <1>1, <1>2, <1>3, <1>4, <1>5

LEMMA PostAnswersFields ==
  ASSUME NEW g \in Posts, MeetingFields, Numbered, PostAnswers(g)
  PROVE  MeetingFields' /\ Numbered' /\ (tally.elsewhere => tally'.elsewhere)
<1> USE MeetingFacts, NothingLemma, NothingWaits DEF MeetingFields
<1>1. UNCHANGED <<mount, viewRun, settled, upload, poll, notesPoll, cancel, reply, server, tally>>
  BY DEF PostAnswers, Abandoned, screenVars, Sets, effectVars
<1>2. phase' \in Phases
  BY DEF PostAnswers, Abandoned, screenVars, Sets, effectVars, Phases
<1>3. meeting' \in [id : Numbers, status : Statuses]
  BY DEF PostAnswers, Abandoned, screenVars, Sets, effectVars, Statuses
<1>4. pending' \in BOOLEAN
  BY DEF PostAnswers, Abandoned, screenVars, Sets, effectVars
<1>5. post' \in [Posts -> PostRec]
  BY DEF PostAnswers, Abandoned, screenVars, Sets, effectVars, PostRec, UploadRec, PollRec, CancelRec
<1>6. Numbered'
  BY DEF PostAnswers, Abandoned, screenVars, Sets, effectVars, Numbered, Replies
<1> QED  BY <1>1, <1>2, <1>3, <1>4, <1>5, <1>6

LEMMA PostAgainFields ==
  ASSUME NEW g \in Posts, MeetingFields, Numbered, PostAgain(g)
  PROVE  MeetingFields' /\ Numbered' /\ (tally.elsewhere => tally'.elsewhere)
<1> USE MeetingFacts, NothingLemma, NothingWaits DEF MeetingFields
<1>1. UNCHANGED <<mount, phase, meeting, pending, viewRun, settled, upload, poll, notesPoll, cancel, reply,
                  server, tally>>
  BY DEF PostAgain, Abandoned, screenVars, effectVars
<1>2. post' \in [Posts -> PostRec]
  <2> DEFINE p == post[g]
             n == p.attempt + 1
             new == [p EXCEPT !.stage = "sent", !.attempt = n]
  <2>1. p \in PostRec /\ n \in Nat
    BY DEF PostRec
  <2>2. post' = [post EXCEPT ![g] = IF Abandoned(g) THEN NoPost ELSE new]
    BY DEF PostAgain
  <2> HIDE DEF p, n
  <2>3. new \in PostRec
    BY <2>1 DEF PostRec
  <2> HIDE DEF new
  <2> QED  BY <2>2, <2>3
<1>3. Numbered'
  BY DEF PostAgain, Abandoned, screenVars, effectVars, Numbered, Replies
<1> QED  BY <1>1, <1>2, <1>3

LEMMA PollNotesFields ==
  ASSUME MeetingFields, Numbered, PollNotes
  PROVE  MeetingFields' /\ Numbered' /\ (tally.elsewhere => tally'.elsewhere)
<1> USE MeetingFacts, NothingLemma, NothingWaits DEF MeetingFields
<1>1. UNCHANGED <<mount, phase, meeting, pending, viewRun, settled, upload, poll, cancel, post, reply,
                  server, tally>>
  BY DEF PollNotes, AwaitsNotes, screenVars, callVars, Abandoned
<1>2. notesPoll' \subseteq {"ready", "failed", "applied", "off"}
  BY DEF PollNotes, AwaitsNotes, screenVars, callVars, Abandoned, NotesStatuses
<1>3. Numbered'
  BY DEF PollNotes, AwaitsNotes, screenVars, callVars, Abandoned, Numbered, Replies
<1> QED  BY <1>1, <1>2, <1>3

LEMMA NotesPollAnswersFields ==
  ASSUME MeetingFields, Numbered, NotesPollAnswers
  PROVE  MeetingFields' /\ Numbered' /\ (tally.elsewhere => tally'.elsewhere)
<1> USE MeetingFacts, NothingLemma, NothingWaits DEF MeetingFields
<1>1. UNCHANGED <<mount, viewRun, settled, upload, poll, cancel, post, reply, server, tally>>
  BY DEF NotesPollAnswers, Sets, callVars
<1>2. phase' \in Phases
  <2>1. PICK seen \in notesPoll \ {"off"} : phase' = (IF seen = "failed" THEN "stopped" ELSE seen)
    BY DEF NotesPollAnswers, Sets
  <2>2. seen \in {"ready", "failed", "applied"}
    OBVIOUS
  <2> QED  BY <2>1, <2>2 DEF Phases
<1>3. meeting' \in [id : Numbers, status : Statuses]
  BY DEF NotesPollAnswers, Sets, callVars, Statuses
<1>4. pending' \in BOOLEAN
  BY DEF NotesPollAnswers, Sets, callVars
<1>5. notesPoll' \subseteq {"ready", "failed", "applied", "off"}
  BY DEF NotesPollAnswers, Sets, callVars, NotesStatuses
<1>6. Numbered'
  BY DEF NotesPollAnswers, Sets, callVars, Numbered, Replies
<1> QED  BY <1>1, <1>2, <1>3, <1>4, <1>5, <1>6

LEMMA CancelNotesFields ==
  ASSUME MeetingFields, Numbered, CancelNotes
  PROVE  MeetingFields' /\ Numbered' /\ (tally.elsewhere => tally'.elsewhere)
<1> USE MeetingFacts, NothingLemma, NothingWaits DEF MeetingFields
<1>1. UNCHANGED <<mount, phase, meeting, pending, viewRun, settled, upload, poll, notesPoll, cancel, post,
                  server>>
  BY DEF CancelNotes, UserActs, screenVars, effectVars
<1>2. reply' \in [Replies -> ReplyRec]
  BY DEF CancelNotes, UserActs, screenVars, effectVars, ReplyRec, Replies, Statuses, NotesStatuses, Phases
<1>3. tally' \in TallyRec /\ (tally.elsewhere => tally'.elsewhere)
  <2>1. tally \in TallyRec
    OBVIOUS
  <2>2. SameHistory(tally', tally)
    BY <2>1, CountLemma, SpentLemma DEF CancelNotes, SameHistory
  <2> QED  BY <2>2 DEF SameHistory
<1>4. Numbered'
  BY DEF CancelNotes, UserActs, screenVars, effectVars, Numbered, Replies
<1> QED  BY <1>1, <1>2, <1>3, <1>4

LEMMA ServerCancelsNotesFields ==
  ASSUME MeetingFields, Numbered, ServerCancelsNotes
  PROVE  MeetingFields' /\ Numbered' /\ (tally.elsewhere => tally'.elsewhere)
<1> USE MeetingFacts, NothingLemma, NothingWaits DEF MeetingFields
<1>1. UNCHANGED <<mount, phase, meeting, pending, viewRun, settled, upload, poll, notesPoll, cancel, post,
                  tally>>
  BY DEF ServerCancelsNotes, screenVars, effectVars
<1>2. reply' \in [Replies -> ReplyRec]
  BY CancelledNotesShape
<1>3. server' \in [Meetings -> [status : Statuses, notes : NotesStatuses]]
  BY CancelledNotesShape DEF SameStatus, ServerFits
<1>4. Numbered'
  <2>1. /\ \A r \in Replies \ {"cancelNotes"} : reply'[r] = reply[r]
        /\ reply["cancelNotes"].stage = "sent"
        /\ reply'["cancelNotes"].stage # "none" => reply'["cancelNotes"].id = reply["cancelNotes"].id
    BY CancelledNotesShape
  <2> QED  BY <1>1, <2>1 DEF Numbered, Replies
<1> QED  BY <1>1, <1>2, <1>3, <1>4

LEMMA CancelNotesAnswersFields ==
  ASSUME MeetingFields, Numbered, CancelNotesAnswers
  PROVE  MeetingFields' /\ Numbered' /\ (tally.elsewhere => tally'.elsewhere)
<1> USE MeetingFacts, NothingLemma, NothingWaits DEF MeetingFields
<1>1. UNCHANGED <<mount, viewRun, settled, upload, poll, notesPoll, cancel, post, server, tally>>
  BY DEF CancelNotesAnswers, Sets, screenVars, effectVars
<1>2. phase' \in Phases
  BY DEF CancelNotesAnswers, Sets, screenVars, effectVars, Phases
<1>3. meeting' \in [id : Numbers, status : Statuses]
  BY DEF CancelNotesAnswers, Sets, screenVars, effectVars, Statuses
<1>4. pending' \in BOOLEAN
  BY DEF CancelNotesAnswers, Sets, screenVars, effectVars
<1>5. reply' \in [Replies -> ReplyRec]
  BY DEF CancelNotesAnswers, Sets, screenVars, effectVars, ReplyRec, Replies, Statuses, NotesStatuses, Phases
<1>6. Numbered'
  BY DEF CancelNotesAnswers, Sets, screenVars, effectVars, Numbered, Replies
<1> QED  BY <1>1, <1>2, <1>3, <1>4, <1>5, <1>6

LEMMA RegenerateMeetingFields ==
  ASSUME MeetingFields, Numbered, RegenerateMeeting
  PROVE  MeetingFields' /\ Numbered' /\ (tally.elsewhere => tally'.elsewhere)
<1> USE MeetingFacts, NothingLemma, NothingWaits DEF MeetingFields
<1>1. UNCHANGED <<mount, viewRun, settled, upload, cancel, reply, server>>
  BY DEF RegenerateMeeting, UserActs, AwaitsNotes, Shows, GenerateNotes, Abandoned, Effects, Counted
<1>2. phase' \in Phases
  BY DEF RegenerateMeeting, UserActs, AwaitsNotes, Shows, GenerateNotes, Abandoned, Effects, Counted, Phases
<1>3. meeting' \in [id : Numbers, status : Statuses]
  BY DEF RegenerateMeeting, UserActs, AwaitsNotes, Shows, GenerateNotes, Abandoned, Effects, Counted, Statuses
<1>4. pending' \in BOOLEAN
  BY DEF RegenerateMeeting, UserActs, AwaitsNotes, Shows, GenerateNotes, Abandoned, Effects, Counted
<1>5. poll' \in PollRec
  BY DEF RegenerateMeeting, UserActs, AwaitsNotes, Shows, GenerateNotes, Abandoned, Effects, Counted,
         PollRec, Statuses
<1>6. notesPoll' \subseteq {"ready", "failed", "applied", "off"}
  BY DEF RegenerateMeeting, UserActs, AwaitsNotes, Shows, GenerateNotes, Abandoned, Effects, Counted,
         NotesStatuses
<1>7. post' \in [Posts -> PostRec]
  <2>1. meeting.id \in Meetings /\ GenerateNotes(meeting, tally)
    BY DEF RegenerateMeeting, Numbered
  <2>2. meeting \in [id : Meetings, status : Statuses]
    BY <2>1
  <2> QED  BY <2>1, <2>2, GenerateLemma DEF Requests
<1>8. tally' \in TallyRec /\ (tally.elsewhere => tally'.elsewhere)
  <2>1. meeting.id \in Meetings /\ GenerateNotes(meeting, tally)
    BY DEF RegenerateMeeting, Numbered
  <2>2. meeting \in [id : Meetings, status : Statuses] /\ tally \in TallyRec
    BY <2>1
  <2> QED  BY <2>1, <2>2, GenerateLemma DEF SameHistory
<1>9. Numbered'
  BY DEF RegenerateMeeting, UserActs, AwaitsNotes, Shows, GenerateNotes, Abandoned, Effects, Counted,
         Numbered, Replies
<1> QED  BY <1>1, <1>2, <1>3, <1>4, <1>5, <1>6, <1>7, <1>8, <1>9

LEMMA CloseMeetingFields ==
  ASSUME MeetingFields, Numbered, CloseMeeting
  PROVE  MeetingFields' /\ Numbered' /\ (tally.elsewhere => tally'.elsewhere)
<1> USE MeetingFacts, NothingLemma, NothingWaits DEF MeetingFields
<1>1. UNCHANGED <<mount, upload, cancel, post, reply, server>>
  BY DEF CloseMeeting, UserActs, BusyPhases, NextView, Shows, callVars, Effects
<1>2. phase' \in Phases
  BY DEF CloseMeeting, UserActs, BusyPhases, NextView, Shows, callVars, Effects, Phases
<1>3. meeting' \in [id : Numbers, status : Statuses]
  BY DEF CloseMeeting, UserActs, BusyPhases, NextView, Shows, callVars, Effects, Statuses
<1>4. pending' \in BOOLEAN
  BY DEF CloseMeeting, UserActs, BusyPhases, NextView, Shows, callVars, Effects
<1>5. viewRun' \in Nat
  BY DEF CloseMeeting, UserActs, BusyPhases, NextView, Shows, callVars, Effects
<1>6. settled' \in Nat
  BY DEF CloseMeeting, UserActs, BusyPhases, NextView, Shows, callVars, Effects
<1>7. poll' \in PollRec
  BY DEF CloseMeeting, UserActs, BusyPhases, NextView, Shows, callVars, Effects, PollRec, Statuses
<1>8. notesPoll' \subseteq {"ready", "failed", "applied", "off"}
  BY DEF CloseMeeting, UserActs, BusyPhases, NextView, Shows, callVars, Effects, NotesStatuses
<1>9. tally' \in TallyRec /\ (tally.elsewhere => tally'.elsewhere)
  <2> DEFINE S == tally.unseen \union ({meeting.id} \ {0})
  <2>1. tally' = [tally EXCEPT !.unseen = S]
    BY DEF CloseMeeting
  <2>2. tally \in TallyRec
    OBVIOUS
  <2>3. tally.unseen \in SUBSET Meetings /\ meeting.id \in Numbers
    BY <2>2 DEF TallyRec
  <2>4. S \in SUBSET Meetings
    BY <2>3
  <2> HIDE DEF S
  <2>5. tally' \in TallyRec /\ tally'.elsewhere = tally.elsewhere
    BY <2>1, <2>2, <2>4 DEF TallyRec
  <2> QED  BY <2>5
<1>10. Numbered'
  BY DEF CloseMeeting, UserActs, BusyPhases, NextView, Shows, callVars, Effects, Numbered, Replies
<1> QED  BY <1>1, <1>2, <1>3, <1>4, <1>5, <1>6, <1>7, <1>8, <1>9, <1>10

LEMMA ServerOpensFields ==
  ASSUME MeetingFields, Numbered, ServerOpens
  PROVE  MeetingFields' /\ Numbered' /\ (tally.elsewhere => tally'.elsewhere)
<1> USE MeetingFacts, NothingLemma, NothingWaits DEF MeetingFields
<1>1. UNCHANGED <<mount, phase, meeting, pending, viewRun, settled, upload, poll, notesPoll, cancel, post,
                  server>>
  BY DEF ServerOpens, MeetingTrouble, Spent, screenVars, effectVars
<1>2. reply' \in [Replies -> ReplyRec]
  BY DEF ServerOpens, MeetingTrouble, Spent, screenVars, effectVars, ReplyRec, Replies, Statuses,
         NotesStatuses, Phases
<1>3. tally' \in TallyRec /\ (tally.elsewhere => tally'.elsewhere)
  <2>1. tally' = tally \/ tally' = Spent
    BY DEF ServerOpens
  <2> QED  BY <2>1, SpentLemma DEF SameHistory
<1>4. Numbered'
  <2>1. /\ \A r \in Replies \ {"open"} : reply'[r] = reply[r]
        /\ reply["open"].stage # "none" /\ reply'["open"].id = reply["open"].id
    BY DEF ServerOpens, Replies, ReplyRec
  <2> QED  BY <1>1, <2>1 DEF Numbered, Replies
<1> QED  BY <1>1, <1>2, <1>3, <1>4

LEMMA OpensFields ==
  ASSUME MeetingFields, Numbered, Opens
  PROVE  MeetingFields' /\ Numbered' /\ (tally.elsewhere => tally'.elsewhere)
<1> USE MeetingFacts, NothingLemma, NothingWaits DEF MeetingFields
<1>1. UNCHANGED <<mount, viewRun, settled, upload, poll, notesPoll, cancel, post, server, tally>>
  BY DEF Opens, Sets, ResumedPhase, effectVars
<1>2. phase' \in Phases
  BY DEF Opens, Sets, ResumedPhase, effectVars, Phases
<1>3. meeting' \in [id : Numbers, status : Statuses]
  <2>1. \/ meeting' = meeting
        \/ meeting' = [id |-> reply["open"].id, status |-> reply["open"].seen]
    BY DEF Opens, Sets
  <2>2. reply["open"].id \in Numbers /\ reply["open"].seen \in Statuses
    BY DEF Replies, ReplyRec
  <2> QED  BY <2>1, <2>2
<1>4. pending' \in BOOLEAN
  BY DEF Opens, Sets, ResumedPhase, effectVars
<1>5. reply' \in [Replies -> ReplyRec]
  BY DEF Opens, Sets, ResumedPhase, effectVars, ReplyRec, Replies, Statuses, NotesStatuses, Phases
<1>6. Numbered'
  BY DEF Opens, Sets, ResumedPhase, effectVars, Numbered, Replies
<1> QED  BY <1>1, <1>2, <1>3, <1>4, <1>5, <1>6

LEMMA DeleteCurrentMeetingFields ==
  ASSUME MeetingFields, Numbered, DeleteCurrentMeeting
  PROVE  MeetingFields' /\ Numbered' /\ (tally.elsewhere => tally'.elsewhere)
<1> USE MeetingFacts, NothingLemma, NothingWaits DEF MeetingFields
<1>1. UNCHANGED <<mount, viewRun, settled, upload, cancel, post, server, tally>>
  BY DEF DeleteCurrentMeeting, UserActs, AwaitsNotes, Shows, Abandoned, Effects
<1>2. phase' \in Phases
  BY DEF DeleteCurrentMeeting, UserActs, AwaitsNotes, Shows, Abandoned, Effects, Phases
<1>3. meeting' \in [id : Numbers, status : Statuses]
  BY DEF DeleteCurrentMeeting, UserActs, AwaitsNotes, Shows, Abandoned, Effects, Statuses
<1>4. pending' \in BOOLEAN
  BY DEF DeleteCurrentMeeting, UserActs, AwaitsNotes, Shows, Abandoned, Effects
<1>5. poll' \in PollRec
  BY DEF DeleteCurrentMeeting, UserActs, AwaitsNotes, Shows, Abandoned, Effects, PollRec, Statuses
<1>6. notesPoll' \subseteq {"ready", "failed", "applied", "off"}
  BY DEF DeleteCurrentMeeting, UserActs, AwaitsNotes, Shows, Abandoned, Effects, NotesStatuses
<1>7. reply' \in [Replies -> ReplyRec]
  BY DEF DeleteCurrentMeeting, UserActs, AwaitsNotes, Shows, Abandoned, Effects, ReplyRec, Replies,
         Statuses, NotesStatuses, Phases
<1>8. Numbered'
  BY DEF DeleteCurrentMeeting, UserActs, AwaitsNotes, Shows, Abandoned, Effects, Numbered, Replies
<1> QED  BY <1>1, <1>2, <1>3, <1>4, <1>5, <1>6, <1>7, <1>8

LEMMA DeletesFields ==
  ASSUME MeetingFields, Numbered, Deletes
  PROVE  MeetingFields' /\ Numbered' /\ (tally.elsewhere => tally'.elsewhere)
<1> USE MeetingFacts, NothingLemma, NothingWaits DEF MeetingFields
<1>0. Deleted
  BY DeletedLemma
<1>1. UNCHANGED <<mount, upload, poll, notesPoll, cancel, post>>
  BY <1>0 DEF Deleted, Becomes, SameStatus, ServerFits, SameHistory
<1>2. phase' \in Phases
  <2>1. reply["delete"].before \in Phases /\ "idle" \in Phases
    BY DEF Replies, ReplyRec, Phases
  <2> QED  BY <1>0, <2>1 DEF Deleted
<1>3. meeting' \in [id : Numbers, status : Statuses]
  BY <1>0 DEF Deleted, Becomes, SameStatus, ServerFits, SameHistory, Statuses
<1>4. pending' \in BOOLEAN
  BY <1>0 DEF Deleted, Becomes, SameStatus, ServerFits, SameHistory
<1>5. viewRun' \in Nat
  BY <1>0 DEF Deleted, Becomes, SameStatus, ServerFits, SameHistory
<1>6. settled' \in Nat
  BY <1>0 DEF Deleted, Becomes, SameStatus, ServerFits, SameHistory
<1>7. reply' \in [Replies -> ReplyRec]
  BY <1>0 DEF Deleted
<1>8. server' \in [Meetings -> [status : Statuses, notes : NotesStatuses]]
  BY <1>0 DEF Deleted, Becomes, SameStatus, ServerFits, SameHistory, Statuses, NotesStatuses
<1>9. tally' \in TallyRec /\ (tally.elsewhere => tally'.elsewhere)
  BY <1>0 DEF Deleted, Becomes, SameStatus, ServerFits, SameHistory, TallyRec, PostRec, ReplyRec, Replies,
              UploadRec, PollRec, CancelRec
<1>10. Numbered'
  BY <1>0 DEF Deleted, Becomes, SameStatus, ServerFits, SameHistory, Numbered, Replies
<1> QED  BY <1>1, <1>2, <1>3, <1>4, <1>5, <1>6, <1>7, <1>8, <1>9, <1>10

LEMMA LeaveMeetingFields ==
  ASSUME MeetingFields, Numbered, LeaveMeeting
  PROVE  MeetingFields' /\ Numbered' /\ (tally.elsewhere => tally'.elsewhere)
<1> USE MeetingFacts, NothingLemma, NothingWaits DEF MeetingFields
<1>1. UNCHANGED <<phase, meeting, pending, viewRun, settled, server, tally>>
  BY DEF LeaveMeeting, UserActs, Replies, screenVars
<1>2. mount' \in BOOLEAN
  BY DEF LeaveMeeting, UserActs, Replies, screenVars
<1>3. upload' \in UploadRec
  BY DEF LeaveMeeting, UserActs, Replies, screenVars, UploadRec
<1>4. poll' \in PollRec
  BY DEF LeaveMeeting, UserActs, Replies, screenVars, PollRec, Statuses
<1>5. notesPoll' \subseteq {"ready", "failed", "applied", "off"}
  BY DEF LeaveMeeting, UserActs, Replies, screenVars, NotesStatuses
<1>6. cancel' \in [Cancels -> CancelRec]
  BY DEF LeaveMeeting, UserActs, Replies, screenVars, CancelRec, Statuses
<1>7. post' \in [Posts -> PostRec]
  BY DEF LeaveMeeting, UserActs, Replies, screenVars, PostRec, UploadRec, PollRec, CancelRec
<1>8. reply' \in [Replies -> ReplyRec]
  BY DEF LeaveMeeting, UserActs, Replies, screenVars, ReplyRec, Statuses, NotesStatuses, Phases
<1>9. Numbered'
  BY DEF LeaveMeeting, UserActs, Replies, screenVars, Numbered
<1> QED  BY <1>1, <1>2, <1>3, <1>4, <1>5, <1>6, <1>7, <1>8, <1>9

LEMMA ResumeFields ==
  ASSUME NEW m \in Meetings, MeetingFields, Numbered, Resume(m)
  PROVE  MeetingFields' /\ Numbered' /\ (tally.elsewhere => tally'.elsewhere)
<1> USE MeetingFacts, NothingLemma, NothingWaits DEF MeetingFields
<1>1. UNCHANGED <<mount, settled, upload, cancel, post, server, tally>>
  BY DEF Resume, UserActs, Shows, Effects
<1>2. phase' \in Phases
  BY DEF Resume, UserActs, Shows, Effects, Phases
<1>3. meeting' \in [id : Numbers, status : Statuses]
  BY DEF Resume, UserActs, Shows, Effects, Statuses
<1>4. pending' \in BOOLEAN
  BY DEF Resume, UserActs, Shows, Effects
<1>5. viewRun' \in Nat
  BY DEF Resume, UserActs, Shows, Effects
<1>6. poll' \in PollRec
  BY DEF Resume, UserActs, Shows, Effects, PollRec, Statuses
<1>7. notesPoll' \subseteq {"ready", "failed", "applied", "off"}
  BY DEF Resume, UserActs, Shows, Effects, NotesStatuses
<1>8. reply' \in [Replies -> ReplyRec]
  <2> DEFINE new == [NoReply EXCEPT !.stage = "sent", !.id = m, !.view = viewRun + 1]
  <2>1. viewRun + 1 \in Nat /\ m \in Numbers /\ NoReply \in ReplyRec
    OBVIOUS
  <2>2. new \in ReplyRec
    BY <2>1 DEF ReplyRec
  <2>3. reply' = [reply EXCEPT !["open"] = new]
    BY DEF Resume
  <2> HIDE DEF new
  <2> QED  BY <2>2, <2>3
<1>9. Numbered'
  BY DEF Resume, UserActs, Shows, Effects, Numbered, Replies
<1> QED  BY <1>1, <1>2, <1>3, <1>4, <1>5, <1>6, <1>7, <1>8, <1>9

LEMMA TranscriptionEndsFields ==
  ASSUME NEW m \in Meetings, MeetingFields, Numbered, TranscriptionEnds(m)
  PROVE  MeetingFields' /\ Numbered' /\ (tally.elsewhere => tally'.elsewhere)
<1> USE MeetingFacts, NothingLemma, NothingWaits DEF MeetingFields
<1>1. UNCHANGED <<mount, phase, meeting, pending, viewRun, settled, upload, poll, notesPoll, cancel, post,
                  reply, tally>>
  BY DEF TranscriptionEnds, screenVars, effectVars, callVars
<1>2. server' \in [Meetings -> [status : Statuses, notes : NotesStatuses]]
  BY DEF TranscriptionEnds, screenVars, effectVars, callVars, Statuses, NotesStatuses
<1>3. Numbered'
  BY DEF TranscriptionEnds, screenVars, effectVars, callVars, Numbered, Replies
<1> QED  BY <1>1, <1>2, <1>3

LEMMA NotesEndFields ==
  ASSUME NEW m \in Meetings, MeetingFields, Numbered, NotesEnd(m)
  PROVE  MeetingFields' /\ Numbered' /\ (tally.elsewhere => tally'.elsewhere)
<1> USE MeetingFacts, NothingLemma, NothingWaits DEF MeetingFields
<1>1. UNCHANGED <<mount, phase, meeting, pending, viewRun, settled, upload, poll, notesPoll, cancel, post,
                  reply, tally>>
  BY DEF NotesEnd, screenVars, effectVars, callVars
<1>2. server' \in [Meetings -> [status : Statuses, notes : NotesStatuses]]
  BY NotesEndShape DEF SameStatus, ServerFits
<1>3. Numbered'
  BY DEF NotesEnd, screenVars, effectVars, callVars, Numbered, Replies
<1> QED  BY <1>1, <1>2, <1>3

LEMMA OtherTabMeetingFields ==
  ASSUME NEW m \in Meetings, MeetingFields, Numbered, OtherTabMeeting(m)
  PROVE  MeetingFields' /\ Numbered' /\ (tally.elsewhere => tally'.elsewhere)
<1> USE MeetingFacts, NothingLemma, NothingWaits DEF MeetingFields
<1>1. UNCHANGED <<mount, phase, meeting, pending, viewRun, settled, upload, poll, notesPoll, cancel, post,
                  reply>>
  BY DEF OtherTabMeeting, MeetingTrouble, Spent, screenVars, effectVars, callVars
<1>2. server' \in [Meetings -> [status : Statuses, notes : NotesStatuses]]
  BY ElsewhereShape DEF ServerFits
<1>3. tally' \in TallyRec /\ (tally.elsewhere => tally'.elsewhere)
  BY ElsewhereShape DEF ServerFits
<1>4. Numbered'
  BY <1>1 DEF Numbered
<1> QED  BY <1>1, <1>2, <1>3, <1>4

(* What the steps leave as it was.                                           *)
LEMMA CancelsKept ==
  ASSUME MeetingFields, Numbered, CancelsWait, cancel' = cancel,
         settled' \in Nat, settled' > settled \/ (phase # "transcribing" /\ settled' = settled),
         \A m \in Meetings : Status(m) \in Over => Status(m)' \in Over
  PROVE  CancelsWait'
<1> SUFFICES ASSUME NEW c \in Cancels, cancel[c].stage # "none"
             PROVE  /\ cancel[c].run <= settled' /\ cancel[c].run # settled'
                    /\ cancel[c].seen = "open" => Status(cancel[c].id)' \in Over
  BY DEF CancelsWait
<1>1. cancel[c].id \in Meetings /\ cancel[c].run \in Nat /\ settled \in Nat
  BY MeetingFacts DEF Numbered, MeetingFields, CancelRec
<1>2. /\ cancel[c].run <= settled
      /\ cancel[c].seen = "open" => Status(cancel[c].id) \in Over
      /\ cancel[c].run = settled => phase = "transcribing"
  BY DEF CancelsWait
<1> QED  BY <1>1, <1>2

LEMMA SameStatusKept ==
  ASSUME MeetingFields, Numbered, ScreenInv, SameStatus,
         UNCHANGED <<mount, phase, meeting, pending, settled, poll, upload, cancel, viewRun>>,
         tally'.unseen = tally.unseen
  PROVE  PollWaits' /\ CancelsWait' /\ AllShown'
<1>1. PollWaits'
  <2>1. poll.stage # "off" => Status(poll.id)' = Status(poll.id)
    BY MeetingFacts DEF Numbered, MeetingFields, PollRec, SameStatus
  <2> QED  BY <2>1 DEF PollWaits, ScreenInv
<1>2. CancelsWait'
  <2>1. \A c \in Cancels : cancel[c].stage # "none" => Status(cancel[c].id)' = Status(cancel[c].id)
    BY MeetingFacts DEF Numbered, MeetingFields, CancelRec, SameStatus
  <2> QED  BY <2>1 DEF CancelsWait, ScreenInv
<1>3. AllShown'
  BY DEF SameStatus, AllShown, ScreenInv
<1> QED  BY <1>1, <1>2, <1>3

(* No meeting is deleted.                                                    *)
NoneGoes == \A m \in Meetings : server[m].status # "gone" => server'[m].status # "gone"

LEMMA NotDeletedKept ==
  ASSUME MeetingFields, Numbered, ScreenInv, NoneGoes, UNCHANGED <<phase, meeting, upload, viewRun>>,
         reply'["open"] = reply["open"]
  PROVE  NotDeleted'
<1>1. /\ upload.stage = "completed" => upload.id \in Meetings
      /\ reply["open"].stage # "none" => reply["open"].id \in Meetings
      /\ meeting.id = 0 \/ meeting.id \in Meetings
  BY MeetingFacts DEF MeetingFields, Numbered, UploadRec, ReplyRec, Replies
<1>2. ASSUME NEW k \in Meetings, server[k].status # "gone"  PROVE server'[k].status # "gone"
  BY <1>2 DEF NoneGoes
<1>3. /\ (phase = "transcribing" /\ meeting.id # 0) => server[meeting.id].status # "gone"
      /\ upload.stage = "completed" => server[upload.id].status # "gone"
      /\ (/\ reply["open"].stage # "none" /\ reply["open"].view = viewRun
          /\ reply["open"].seen = "transcribing") => server[reply["open"].id].status # "gone"
  BY DEF NotDeleted, ScreenInv, Status
<1>4. (phase' = "transcribing" /\ meeting'.id # 0) => server'[meeting'.id].status # "gone"
  BY <1>1, <1>2, <1>3
<1>5. upload'.stage = "completed" => server'[upload'.id].status # "gone"
  BY <1>1, <1>2, <1>3
<1>6. (/\ reply'["open"].stage # "none" /\ reply'["open"].view = viewRun'
       /\ reply'["open"].seen = "transcribing") => server'[reply'["open"].id].status # "gone"
  BY <1>1, <1>2, <1>3
<1> QED  BY <1>4, <1>5, <1>6 DEF NotDeleted, Status

(* The server ends the transcription, or has nothing to cancel.              *)
Cancelled(c) ==
  /\ SameStatus \/ (Status(cancel[c].id) = "transcribing" /\ Becomes(cancel[c].id, "failed"))
  /\ SameHistory(tally', tally)
  /\ cancel[c].stage = "sent" /\ cancel[c].id \in Meetings
  /\ \A k \in Cancels \ {c} : cancel'[k] = cancel[k]
  /\ cancel'[c].stage # "none" =>
       /\ cancel'[c].stage \in {"answered", "asks"}
       /\ cancel'[c].id = cancel[c].id /\ cancel'[c].run = cancel[c].run
       /\ cancel'[c].seen = IF cancel'[c].stage = "answered" THEN "failed" ELSE cancel[c].seen
       /\ server'[cancel[c].id].status # "transcribing"

LEMMA CancelledLemma ==
  ASSUME NEW c \in Cancels, MeetingFields, Numbered, ServerCancels(c)  PROVE Cancelled(c)
<1> DEFINE m == cancel[c].id
<1>1. cancel[c].stage = "sent" /\ cancel[c] \in CancelRec /\ cancel \in [Cancels -> CancelRec]
  BY DEF ServerCancels, MeetingFields
<1>2. m \in Meetings
  BY <1>1, MeetingFacts DEF Numbered, CancelRec
<1>3. \A k \in Cancels \ {c} : cancel'[k] = cancel[k]
  BY <1>1 DEF ServerCancels
<1>4. SameHistory(tally', tally)
  <2>1. tally' = tally \/ tally' = Spent
    BY DEF ServerCancels
  <2> QED  BY <2>1, SpentLemma DEF SameHistory, MeetingFields
<1>5. CASE /\ server[m].status = "transcribing"
           /\ server' = [server EXCEPT ![m].status = "failed"]
           /\ cancel' = [cancel EXCEPT ![c].stage = "answered", ![c].seen = "failed"]
  <2>1. Becomes(m, "failed")
    BY <1>2, <1>5, BecomesLemma DEF Statuses
  <2>2. /\ cancel'[c].stage = "answered" /\ cancel'[c].seen = "failed"
        /\ cancel'[c].id = cancel[c].id /\ cancel'[c].run = cancel[c].run
    BY <1>1, <1>5 DEF CancelRec
  <2>3. server'[m].status = "failed" /\ Status(m) = "transcribing"
    BY <1>2, <1>5, <2>1 DEF Becomes, Status
  <2> QED  BY <1>1, <1>2, <1>3, <1>4, <2>1, <2>2, <2>3 DEF Cancelled
<1>6. CASE /\ server[m].status # "transcribing" /\ server' = server
           /\ cancel' = [cancel EXCEPT ![c] = IF server[m].status = "gone" THEN NoCancel
                                             ELSE [@ EXCEPT !.stage = "asks"]]
  <2>1. SameStatus /\ server'[m].status # "transcribing"
    BY <1>6, SameLemma DEF Status
  <2>2. cancel'[c] = NoCancel \/ cancel'[c] = [cancel[c] EXCEPT !.stage = "asks"]
    BY <1>1, <1>6
  <2>3. cancel'[c].stage # "none" =>
          /\ cancel'[c].stage = "asks" /\ cancel'[c].seen = cancel[c].seen
          /\ cancel'[c].id = cancel[c].id /\ cancel'[c].run = cancel[c].run
    BY <1>1, <2>2, NothingWaits DEF CancelRec
  <2> QED  BY <1>1, <1>2, <1>3, <1>4, <2>1, <2>3 DEF Cancelled
<1>7. CASE /\ cancel' = [cancel EXCEPT ![c] = NoCancel]
           /\ server' \in {server, [server EXCEPT ![m].status = IF @ = "transcribing" THEN "failed" ELSE @]}
  <2>1. cancel'[c].stage = "none"
    BY <1>1, <1>7, NothingWaits
  <2>2. SameStatus \/ (Status(m) = "transcribing" /\ Becomes(m, "failed"))
    <3>1. CASE server' = server
      BY <3>1, SameLemma
    <3>2. CASE /\ server' = [server EXCEPT ![m].status = IF @ = "transcribing" THEN "failed" ELSE @]
               /\ server[m].status = "transcribing"
      <4>1. server' = [server EXCEPT ![m].status = "failed"]
        BY <3>2
      <4> QED  BY <1>2, <3>2, <4>1, BecomesLemma DEF Statuses, Status
    <3>3. CASE /\ server' = [server EXCEPT ![m].status = IF @ = "transcribing" THEN "failed" ELSE @]
               /\ server[m].status # "transcribing"
      <4>1. server \in [Meetings -> [status : Statuses, notes : NotesStatuses]]
        BY DEF MeetingFields
      <4>2. server' = [server EXCEPT ![m].status = server[m].status]
        BY <3>3
      <4>3. server' = server
        BY <1>2, <4>1, <4>2
      <4> QED  BY <4>3, SameLemma
    <3> QED  BY <1>7, <3>1, <3>2, <3>3
  <2> QED  BY <1>1, <1>2, <1>3, <1>4, <2>1, <2>2 DEF Cancelled
<1> QED  BY <1>5, <1>6, <1>7 DEF ServerCancels

-----------------------------------------------------------------------------
(* The screen keeps up with the server: one lemma per action, with one step  *)
(* for each part of ScreenInv that the action disturbs.                      *)

LEMMA RenderPhaseStep ==
  ASSUME MeetingFields, Numbered, ScreenInv, MeetingFields', Numbered',
         DeletionIsShown', ~tally'.elsewhere, Render
  PROVE  ScreenInv'
<1> USE MeetingFacts, NothingWaits DEF MeetingFields, ScreenInv
<1>1. UNCHANGED <<mount, phase, meeting, viewRun, settled, upload, cancel, post, reply, server, tally>>
  BY DEF Render, Effects, callVars
<1>2. UploadWaits' /\ RepliesWait'
  BY <1>1 DEF UploadWaits, RepliesWait, Status
<1>3. CancelsWait' /\ NotDeleted' /\ AskedOnce' /\ AllShown'
  BY <1>1 DEF CancelsWait, NotDeleted, AskedOnce, AllShown, Status
<1>4. PollWaits'
  BY DEF Render, Effects, callVars, PollWaits, NotDeleted, Status, NotesShown, Ended, Over
<1>5. NotesWait'
  BY DEF Render, Effects, callVars, NotesWait, NotesShown, Ended
<1> QED  BY <1>1, <1>2, <1>3, <1>4, <1>5

LEMMA UploadRecordingStep ==
  ASSUME MeetingFields, Numbered, ScreenInv, MeetingFields', Numbered',
         DeletionIsShown', ~tally'.elsewhere, UploadRecording
  PROVE  ScreenInv'
<1> USE MeetingFacts, NothingWaits DEF MeetingFields, ScreenInv
<1>1. UNCHANGED <<mount, viewRun, settled, cancel, post, reply, server>>
  BY DEF UploadRecording, AcceptsRecording, UserActs, Shows, Effects
<1>2. PollWaits'
  BY DEF UploadRecording, AcceptsRecording, UserActs, Shows, Effects, PollWaits, Ended, Over, Status
<1>3. CancelsWait'
  BY DEF UploadRecording, AcceptsRecording, UserActs, Shows, Effects, CancelsWait, Over, Status
<1>4. UploadWaits'
  BY DEF UploadRecording, AcceptsRecording, UserActs, Shows, Effects, UploadWaits
<1>5. RepliesWait'
  BY DEF UploadRecording, AcceptsRecording, UserActs, Shows, Effects, RepliesWait
<1>6. NotesWait'
  BY DEF UploadRecording, AcceptsRecording, UserActs, Shows, Effects, NotesWait, NotesShown, Ended,
         Numbered, PostRec, ReplyRec, Replies
<1>7. NotDeleted'
  BY DEF UploadRecording, AcceptsRecording, UserActs, Shows, Effects, NotDeleted, Status
<1>8. AskedOnce'
  BY DEF UploadRecording, AcceptsRecording, UserActs, Shows, Effects, AskedOnce, Status, Over
<1>9. AllShown'
  BY DEF UploadRecording, AcceptsRecording, UserActs, Shows, Effects, AllShown, Status
<1> QED  BY <1>1, <1>2, <1>3, <1>4, <1>5, <1>6, <1>7, <1>8, <1>9

LEMMA CancelUploadStep ==
  ASSUME MeetingFields, Numbered, ScreenInv, MeetingFields', Numbered',
         DeletionIsShown', ~tally'.elsewhere, CancelUpload
  PROVE  ScreenInv'
<1> USE MeetingFacts, NothingWaits DEF MeetingFields, ScreenInv
<1>1. UNCHANGED <<mount, phase, meeting, pending, viewRun, settled, poll, notesPoll, cancel, post, reply,
                  server, tally>>
  BY DEF CancelUpload, UserActs, screenVars, effectVars
<1>2. RepliesWait' /\ NotesWait'
  BY <1>1 DEF RepliesWait, NotesWait, NotesShown, Status
<1>3. PollWaits' /\ CancelsWait'
  BY <1>1 DEF PollWaits, CancelsWait, Status
<1>4. UploadWaits'
  BY DEF CancelUpload, UserActs, screenVars, effectVars, UploadWaits
<1>5. NotDeleted'
  BY DEF CancelUpload, UserActs, screenVars, effectVars, NotDeleted, Status
<1>6. AskedOnce'
  BY DEF CancelUpload, UserActs, screenVars, effectVars, AskedOnce, Status, Over
<1>7. AllShown'
  BY DEF CancelUpload, UserActs, screenVars, effectVars, AllShown, Status
<1> QED  BY <1>1, <1>2, <1>3, <1>4, <1>5, <1>6, <1>7

LEMMA CreateMeetingStep ==
  ASSUME MeetingFields, Numbered, ScreenInv, MeetingFields', Numbered',
         DeletionIsShown', ~tally'.elsewhere, CreateMeeting
  PROVE  ScreenInv'
<1> USE MeetingFacts, NothingWaits DEF MeetingFields, ScreenInv
<1>0. Creates
  BY MeetingMadeLemma
<1>1. UNCHANGED <<mount, viewRun, settled, poll, notesPoll, cancel, post, reply>>
  BY <1>0 DEF Creates, Becomes, SameStatus, ServerFits, SameHistory, UploadEnds
<1>2. PollWaits'
  BY <1>0 DEF Creates, Becomes, SameStatus, ServerFits, SameHistory, UploadEnds, PollWaits, UploadWaits,
              Status, NotesShown, Ended, Over
<1>3. CancelsWait'
  BY <1>0, <1>1, CancelsKept DEF Creates, UploadEnds, Becomes, SameStatus, UploadWaits, RepliesWait,
                                 NotesWait, Over
<1>4. UploadWaits'
  BY <1>0 DEF Creates, Becomes, SameStatus, ServerFits, SameHistory, UploadEnds, UploadWaits
<1>5. RepliesWait'
  BY <1>0 DEF Creates, Becomes, SameStatus, ServerFits, SameHistory, UploadEnds, UploadWaits, RepliesWait,
              Status, NotesShown, Ended, Over, DeletionIsShown
<1>6. NotesWait'
  BY <1>0 DEF Creates, Becomes, SameStatus, ServerFits, SameHistory, UploadEnds, UploadWaits, NotesWait,
              Status, NotesShown, Ended, Over
<1>7. NotDeleted'
  BY <1>0 DEF Creates, Becomes, SameStatus, ServerFits, SameHistory, UploadEnds, UploadWaits, RepliesWait,
              NotDeleted, Status, NotesShown, Ended, Over
<1>8. AskedOnce'
  BY <1>0 DEF Creates, Becomes, SameStatus, ServerFits, SameHistory, UploadEnds, AskedOnce, Status, Over
<1>9. AllShown'
  BY <1>0 DEF Creates, Becomes, SameStatus, ServerFits, SameHistory, UploadEnds, UploadWaits, AllShown,
              Status, NotesShown, Ended, Over
<1> QED  BY <1>1, <1>2, <1>3, <1>4, <1>5, <1>6, <1>7, <1>8, <1>9

LEMMA SendRecordingStep ==
  ASSUME MeetingFields, Numbered, ScreenInv, MeetingFields', Numbered',
         DeletionIsShown', ~tally'.elsewhere, SendRecording
  PROVE  ScreenInv'
<1> USE MeetingFacts, NothingWaits DEF MeetingFields, ScreenInv
<1>0. Sends
  BY SendsLemma
<1>1. UNCHANGED <<mount, viewRun, settled, poll, notesPoll, cancel, post, reply>>
  BY <1>0 DEF Sends, Becomes, SameStatus, ServerFits, SameHistory, UploadEnds, Completes
<1>2. PollWaits'
  BY <1>0 DEF Sends, Becomes, SameStatus, ServerFits, SameHistory, UploadEnds, Completes, PollWaits,
              UploadWaits, Status, NotesShown, Ended, Over
<1>3. CancelsWait'
  BY <1>0, <1>1, CancelsKept DEF Sends, UploadEnds, Completes, Becomes, SameStatus, UploadWaits,
                                 RepliesWait, NotesWait, Over
<1>4. UploadWaits'
  BY <1>0 DEF Sends, Becomes, SameStatus, ServerFits, SameHistory, UploadEnds, Completes, UploadWaits
<1>5. RepliesWait'
  BY <1>0 DEF Sends, Becomes, SameStatus, ServerFits, SameHistory, UploadEnds, Completes, UploadWaits,
              RepliesWait, Status, NotesShown, Ended, Over, DeletionIsShown
<1>6. NotesWait'
  BY <1>0 DEF Sends, Becomes, SameStatus, ServerFits, SameHistory, UploadEnds, Completes, NotesWait,
              NotesShown, Ended
<1>7. NotDeleted'
  <2>1. UNCHANGED <<meeting, viewRun, reply>> /\ (phase' = "transcribing" => phase = "transcribing")
    BY <1>0 DEF Sends, UploadEnds
  <2>2. ASSUME NEW k \in Meetings, server[k].status # "gone"  PROVE server'[k].status # "gone"
    BY <1>0, <2>2 DEF Sends, Completes, Becomes, SameStatus, Status
  <2>3. upload'.stage = "completed" => server'[upload'.id].status # "gone"
    BY <1>0 DEF Sends, Completes, Becomes, UploadEnds, UploadWaits, Status
  <2>4. /\ reply["open"].stage # "none" => reply["open"].id \in Meetings
        /\ meeting.id = 0 \/ meeting.id \in Meetings
    BY DEF Numbered, ReplyRec, Replies
  <2> QED  BY <2>1, <2>2, <2>3, <2>4 DEF NotDeleted, Status
<1>8. AskedOnce'
  BY <1>0 DEF Sends, Becomes, SameStatus, ServerFits, SameHistory, UploadEnds, Completes, AskedOnce, Status,
              Over, Numbered, TallyRec, ReplyRec, Replies
<1>9. AllShown'
  BY <1>0 DEF Sends, Becomes, SameStatus, ServerFits, SameHistory, UploadEnds, Completes, UploadWaits,
              AllShown, Status, NotesShown, Ended, Over
<1> QED  BY <1>1, <1>2, <1>3, <1>4, <1>5, <1>6, <1>7, <1>8, <1>9

LEMMA UploadIsDoneStep ==
  ASSUME MeetingFields, Numbered, ScreenInv, MeetingFields', Numbered',
         DeletionIsShown', ~tally'.elsewhere, UploadIsDone
  PROVE  ScreenInv'
<1> USE MeetingFacts, NothingWaits DEF MeetingFields, ScreenInv
<1>0. UploadDone
  BY UploadDoneLemma
<1>1. UNCHANGED <<mount, viewRun, settled, poll, notesPoll, cancel, reply>>
  BY <1>0 DEF UploadDone, Applies, Requests, Becomes, SameStatus, ServerFits
<1>2. PollWaits'
  BY <1>0 DEF UploadDone, Applies, Requests, Becomes, SameStatus, ServerFits, PollWaits, UploadWaits,
              Status, NotesShown, Ended, Over
<1>3. CancelsWait'
  BY <1>0, <1>1, CancelsKept DEF UploadDone, Becomes, SameStatus, UploadWaits, RepliesWait, NotesWait, Over
<1>4. UploadWaits'
  BY <1>0 DEF UploadDone, Applies, Requests, Becomes, SameStatus, ServerFits, UploadWaits
<1>5. RepliesWait'
  BY <1>0 DEF UploadDone, Applies, Requests, Becomes, SameStatus, ServerFits, UploadWaits, RepliesWait,
              Status, NotesShown, Ended, Over, DeletionIsShown
<1>6. NotesWait'
  BY <1>0 DEF UploadDone, Applies, Requests, Becomes, SameStatus, ServerFits, UploadWaits, NotesWait,
              Status, NotesShown, Ended, Over
<1>7. NotDeleted'
  <2>1. CASE Applies(upload.id, "transcribing") /\ SameStatus /\ upload'.stage = "none"
    <3>1. phase' = "transcribing" /\ meeting'.id = upload.id /\ server'[upload.id].status # "gone"
      BY <1>0, <2>1 DEF UploadDone, Applies, SameStatus, NotDeleted, Status
    <3>2. ~(reply["open"].stage # "none" /\ reply["open"].view = viewRun)
      BY <1>0 DEF UploadDone, UploadWaits, RepliesWait
    <3> QED  BY <1>1, <2>1, <3>1, <3>2 DEF NotDeleted, Status
  <2>2. CASE Becomes(upload.id, "failed") /\ upload'.stage = "undone" /\ UNCHANGED <<phase, meeting>>
    <3>1. \A m \in Meetings : Status(m) # "gone" => Status(m)' # "gone"
      BY <2>2 DEF Becomes
    <3> QED  BY <1>1, <2>2, <3>1 DEF NotDeleted, Numbered, ReplyRec, Replies
  <2> QED  BY <1>0, <2>1, <2>2 DEF UploadDone
<1>8. AskedOnce'
  BY <1>0 DEF UploadDone, Applies, Requests, Becomes, SameStatus, ServerFits, AskedOnce, Status, Over
<1>9. AllShown'
  BY <1>0 DEF UploadDone, Applies, Requests, Becomes, SameStatus, ServerFits, UploadWaits, AllShown, Status,
              NotesShown, Ended, Over
<1> QED  BY <1>1, <1>2, <1>3, <1>4, <1>5, <1>6, <1>7, <1>8, <1>9

LEMMA UploadIsCancelledStep ==
  ASSUME MeetingFields, Numbered, ScreenInv, MeetingFields', Numbered',
         DeletionIsShown', ~tally'.elsewhere, UploadIsCancelled
  PROVE  ScreenInv'
<1> USE MeetingFacts, NothingWaits DEF MeetingFields, ScreenInv
<1>0. Undone
  BY UndoneLemma
<1>1. UNCHANGED <<mount, viewRun, settled, poll, notesPoll, cancel, post, reply, tally>>
  BY <1>0 DEF Undone, Becomes, SameStatus, ServerFits
<1>2. PollWaits'
  BY <1>0 DEF Undone, Becomes, SameStatus, ServerFits, PollWaits, UploadWaits, Status, NotesShown, Ended, Over
<1>3. CancelsWait'
  BY <1>0, <1>1, CancelsKept DEF Undone, Becomes, SameStatus, UploadWaits, RepliesWait, NotesWait, Over
<1>4. UploadWaits'
  BY <1>0 DEF Undone, Becomes, SameStatus, ServerFits, UploadWaits
<1>5. RepliesWait'
  BY <1>0 DEF Undone, Becomes, SameStatus, ServerFits, UploadWaits, RepliesWait, Status, NotesShown, Ended,
              Over, DeletionIsShown
<1>6. NotesWait'
  BY <1>0 DEF Undone, Becomes, SameStatus, ServerFits, UploadWaits, NotesWait, Status, NotesShown, Ended, Over
<1>7. NotDeleted'
  BY <1>0 DEF Undone, Becomes, SameStatus, ServerFits, UploadWaits, RepliesWait, NotDeleted, Status,
              NotesShown, Ended, Over
<1>8. AskedOnce'
  BY <1>0 DEF Undone, Becomes, SameStatus, ServerFits, AskedOnce, Status, Over
<1>9. AllShown'
  BY <1>0 DEF Undone, Becomes, SameStatus, ServerFits, UploadWaits, AllShown, Status, NotesShown, Ended, Over
<1> QED  BY <1>1, <1>2, <1>3, <1>4, <1>5, <1>6, <1>7, <1>8, <1>9

LEMMA PollTranscriptionStep ==
  ASSUME MeetingFields, Numbered, ScreenInv, MeetingFields', Numbered',
         DeletionIsShown', ~tally'.elsewhere, PollTranscription
  PROVE  ScreenInv'
<1> USE MeetingFacts, NothingWaits DEF MeetingFields, ScreenInv
<1>1. UNCHANGED <<mount, phase, meeting, pending, viewRun, settled, upload, notesPoll, cancel, post, reply,
                  server>>
  BY DEF PollTranscription, MeetingTrouble, Spent, screenVars, callVars
<1>2. UploadWaits' /\ RepliesWait' /\ NotesWait'
  BY <1>1 DEF UploadWaits, RepliesWait, NotesWait, NotesShown, Status
<1>3. CancelsWait' /\ NotDeleted'
  BY <1>1 DEF CancelsWait, NotDeleted, Status
<1>4. PollWaits'
  <2>1. /\ poll.stage = "waiting" /\ poll.id \in Meetings
        /\ \/ poll' = [poll EXCEPT !.stage = "answered", !.seen = server[poll.id].status]
           \/ poll' = [poll EXCEPT !.stage = "answered", !.seen = "error"]
    BY DEF PollTranscription, Numbered, PollRec
  <2>2. /\ poll'.stage = "answered" /\ poll'.id = poll.id /\ poll'.run = poll.run
        /\ poll'.seen = Status(poll.id) \/ poll'.seen = "error"
    <3>1. poll \in PollRec
      OBVIOUS
    <3> HIDE DEF MeetingFields, ScreenInv
    <3>2. CASE poll' = [poll EXCEPT !.stage = "answered", !.seen = server[poll.id].status]
      BY <3>1, <3>2 DEF PollRec, Status
    <3>3. CASE poll' = [poll EXCEPT !.stage = "answered", !.seen = "error"]
      BY <3>1, <3>3 DEF PollRec
    <3> QED  BY <2>1, <3>2, <3>3
  <2> QED  BY <1>1, <2>1, <2>2 DEF PollWaits, Over, Status
<1>5. SameHistory(tally', tally)
  <2>1. tally' = tally \/ tally' = Spent
    BY DEF PollTranscription
  <2> QED  BY <2>1, SpentLemma DEF SameHistory
<1>6. AskedOnce' /\ AllShown'
  BY <1>1, <1>5 DEF SameHistory, AskedOnce, AllShown, Status
<1> QED  BY <1>1, <1>2, <1>3, <1>4, <1>5, <1>6

LEMMA PollAnswersStep ==
  ASSUME MeetingFields, Numbered, ScreenInv, MeetingFields', Numbered',
         DeletionIsShown', ~tally'.elsewhere, PollAnswers
  PROVE  ScreenInv'
<1> USE MeetingFacts, NothingWaits DEF MeetingFields, ScreenInv
<1>0. PollAnswered
  BY PollAnsweredLemma
<1>1. UNCHANGED <<mount, viewRun, upload, notesPoll, cancel, reply, server>>
  BY <1>0 DEF PollAnswered, Settles, Applies, Requests
<1>2. PollWaits'
  BY <1>0 DEF PollAnswered, Settles, Applies, Requests, PollWaits, Ended, Over, Status
<1>3. CancelsWait'
  BY <1>0 DEF PollAnswered, Settles, Applies, Requests, PollWaits, CancelsWait, Status, NotesShown, Ended,
              Over, CancelRec
<1>4. UploadWaits'
  BY <1>0 DEF PollAnswered, Settles, Applies, Requests, PollWaits, UploadWaits, Status, NotesShown, Ended,
              Over
<1>5. RepliesWait'
  BY <1>0 DEF PollAnswered, Settles, Applies, Requests, PollWaits, RepliesWait, Status, NotesShown, Ended,
              Over, DeletionIsShown
<1>6. NotesWait'
  BY <1>0 DEF PollAnswered, Settles, Applies, Requests, PollWaits, NotesWait, Status, NotesShown, Ended, Over
<1>7. NotDeleted'
  BY <1>0 DEF PollAnswered, Settles, Applies, Requests, NotDeleted, Status
<1>8. AskedOnce'
  BY <1>0 DEF PollAnswered, Settles, Applies, Requests, PollWaits, UploadWaits, RepliesWait, AskedOnce,
              Status, NotesShown, Ended, Over, TallyRec, ReplyRec, Replies
<1>9. AllShown'
  <2>1. CASE UNCHANGED <<phase, meeting, tally>>
    BY <1>1, <2>1 DEF AllShown, Status
  <2>2. CASE /\ poll.seen \notin {"transcribing", "error", "gone"} /\ settled = poll.run
             /\ Applies(poll.id, poll.seen)
    <3>1. meeting.id = poll.id /\ Status(poll.id) # "transcribing"
      BY <1>0, <2>2 DEF PollAnswered, PollWaits
    <3>2. \A m \in Meetings : (Status(m) = "transcribing" /\ mount) => m \in tally.unseen
      BY <3>1 DEF AllShown
    <3> QED  BY <1>1, <2>2, <3>2 DEF Applies, AllShown, Status
  <2> QED  BY <1>0, <2>1, <2>2 DEF PollAnswered, Settles, PollWaits
<1> QED  BY <1>1, <1>2, <1>3, <1>4, <1>5, <1>6, <1>7, <1>8, <1>9

LEMMA CancelTranscriptionStep ==
  ASSUME NEW c \in Cancels, MeetingFields, Numbered, ScreenInv, MeetingFields', Numbered',
         DeletionIsShown', ~tally'.elsewhere, CancelTranscription(c)
  PROVE  ScreenInv'
<1> USE MeetingFacts, NothingWaits DEF MeetingFields, ScreenInv
<1>1. UNCHANGED <<mount, phase, meeting, pending, viewRun, settled, upload, poll, notesPoll, post, reply,
                  server, tally>>
  BY DEF CancelTranscription, UserActs, screenVars, effectVars
<1>2. UploadWaits' /\ RepliesWait' /\ NotesWait'
  BY <1>1 DEF UploadWaits, RepliesWait, NotesWait, NotesShown, Status
<1>3. PollWaits' /\ NotDeleted' /\ AskedOnce' /\ AllShown'
  BY <1>1 DEF PollWaits, NotDeleted, AskedOnce, AllShown, Status
<1>4. CancelsWait'
  BY DEF CancelTranscription, UserActs, screenVars, effectVars, CancelsWait, Over, Status
<1> QED  BY <1>1, <1>2, <1>3, <1>4

LEMMA ServerCancelsStep ==
  ASSUME NEW c \in Cancels, MeetingFields, Numbered, ScreenInv, MeetingFields', Numbered',
         DeletionIsShown', ~tally'.elsewhere, ServerCancels(c)
  PROVE  ScreenInv'
<1> USE MeetingFacts, NothingWaits DEF MeetingFields, ScreenInv
<1>0. Cancelled(c)
  BY CancelledLemma
<1>1. UNCHANGED <<mount, phase, meeting, pending, viewRun, settled, upload, poll, notesPoll, post, reply>>
  BY DEF ServerCancels, MeetingTrouble, Spent, screenVars, effectVars
<1>2. UploadWaits' /\ RepliesWait' /\ NotesWait'
  BY <1>1 DEF UploadWaits, RepliesWait, NotesWait, NotesShown, Status
<1>3. PollWaits'
  <2>1. poll.stage # "off" => poll.id \in Meetings
    BY DEF Numbered, PollRec
  <2> QED  BY <1>0, <1>1, <2>1 DEF Cancelled, Becomes, SameStatus, SameHistory, PollWaits, Over
<1>4. CancelsWait'
  <2>1. ASSUME NEW m \in Meetings
        PROVE  /\ server[m].status \in Over => server'[m].status \in Over
               /\ server[m].status # "transcribing" => server'[m].status # "transcribing"
    BY <1>0 DEF Cancelled, Becomes, SameStatus, SameHistory, Over, Status
  <2>2. ASSUME NEW k \in Cancels, cancel[k].stage # "none"  PROVE cancel[k].id \in Meetings
    BY <2>2 DEF Numbered, CancelRec
  <2>3. ASSUME NEW k \in Cancels \ {c}, cancel'[k].stage # "none"
        PROVE  /\ cancel'[k].run <= settled'
               /\ cancel'[k].seen = "open" => server'[cancel'[k].id].status \in Over
               /\ cancel'[k].run = settled' =>
                    /\ phase' = "transcribing" /\ meeting'.id = cancel'[k].id
                    /\ cancel'[k].stage # "sent" => server'[cancel'[k].id].status # "transcribing"
                    /\ cancel'[k].stage \in {"answered", "told"} => cancel'[k].seen # "transcribing"
    <3>1. cancel'[k] = cancel[k] /\ cancel[k].stage # "none" /\ cancel[k].id \in Meetings
      BY <1>0, <2>2, <2>3 DEF Cancelled
    <3>2. /\ cancel[k].run <= settled
          /\ cancel[k].seen = "open" => server[cancel[k].id].status \in Over
          /\ cancel[k].run = settled =>
               /\ phase = "transcribing" /\ meeting.id = cancel[k].id
               /\ cancel[k].stage # "sent" => server[cancel[k].id].status # "transcribing"
               /\ cancel[k].stage \in {"answered", "told"} => cancel[k].seen # "transcribing"
      BY <3>1 DEF CancelsWait, Status
    <3>3. /\ server[cancel[k].id].status \in Over => server'[cancel[k].id].status \in Over
          /\ server[cancel[k].id].status # "transcribing" => server'[cancel[k].id].status # "transcribing"
      BY <2>1, <3>1
    <3> HIDE DEF MeetingFields, ScreenInv
    <3> QED  BY <1>1, <3>1, <3>2, <3>3
  <2>4. ASSUME cancel'[c].stage # "none"
        PROVE  /\ cancel'[c].run <= settled'
               /\ cancel'[c].seen = "open" => server'[cancel'[c].id].status \in Over
               /\ cancel'[c].run = settled' =>
                    /\ phase' = "transcribing" /\ meeting'.id = cancel'[c].id
                    /\ cancel'[c].stage # "sent" => server'[cancel'[c].id].status # "transcribing"
                    /\ cancel'[c].stage \in {"answered", "told"} => cancel'[c].seen # "transcribing"
    <3>1. /\ cancel[c].stage = "sent" /\ cancel[c].id \in Meetings
          /\ cancel'[c].stage \in {"answered", "asks"}
          /\ cancel'[c].id = cancel[c].id /\ cancel'[c].run = cancel[c].run
          /\ cancel'[c].seen = IF cancel'[c].stage = "answered" THEN "failed" ELSE cancel[c].seen
          /\ server'[cancel[c].id].status # "transcribing"
      BY <1>0, <2>4 DEF Cancelled
    <3>2. /\ cancel[c].run <= settled
          /\ cancel[c].seen = "open" => server[cancel[c].id].status \in Over
          /\ cancel[c].run = settled => phase = "transcribing" /\ meeting.id = cancel[c].id
      BY <3>1 DEF CancelsWait, Status
    <3>3. server[cancel[c].id].status \in Over => server'[cancel[c].id].status \in Over
      BY <2>1, <3>1
    <3> HIDE DEF MeetingFields, ScreenInv
    <3> QED  BY <1>1, <3>1, <3>2, <3>3
  <2> QED  BY <2>3, <2>4 DEF CancelsWait, Status
<1>5. NotDeleted'
  <2>1. NoneGoes
    BY <1>0 DEF Cancelled, Becomes, SameStatus, SameHistory, Status, NoneGoes
  <2> QED  BY <1>1, <2>1, NotDeletedKept
<1>6. AskedOnce'
  <2>1. \A m \in Meetings : Status(m) \in Over => Status(m)' \in Over
    BY <1>0 DEF Cancelled, Becomes, SameStatus, SameHistory, Over
  <2>2. tally'.asked = tally.asked
    BY <1>0 DEF Cancelled, Becomes, SameStatus, SameHistory
  <2> QED  BY <1>1, <2>1, <2>2 DEF AskedOnce
<1>7. AllShown'
  <2>1. \A m \in Meetings : Status(m)' = "transcribing" => Status(m) = "transcribing"
    BY <1>0 DEF Cancelled, Becomes, SameStatus, SameHistory
  <2>2. tally'.unseen = tally.unseen
    BY <1>0 DEF Cancelled, Becomes, SameStatus, SameHistory
  <2> QED  BY <1>1, <2>1, <2>2 DEF AllShown
<1> QED  BY <1>1, <1>2, <1>3, <1>4, <1>5, <1>6, <1>7

LEMMA CancelAsksAgainStep ==
  ASSUME NEW c \in Cancels, MeetingFields, Numbered, ScreenInv, MeetingFields', Numbered',
         DeletionIsShown', ~tally'.elsewhere, CancelAsksAgain(c)
  PROVE  ScreenInv'
<1> USE MeetingFacts, NothingWaits DEF MeetingFields, ScreenInv
<1>1. UNCHANGED <<mount, phase, meeting, pending, viewRun, settled, upload, poll, notesPoll, post, reply,
                  server, tally>>
  BY DEF CancelAsksAgain, screenVars, effectVars
<1>2. UploadWaits' /\ RepliesWait' /\ NotesWait'
  BY <1>1 DEF UploadWaits, RepliesWait, NotesWait, NotesShown, Status
<1>3. PollWaits' /\ NotDeleted' /\ AskedOnce' /\ AllShown'
  BY <1>1 DEF PollWaits, NotDeleted, AskedOnce, AllShown, Status
<1>4. CancelsWait'
  BY DEF CancelAsksAgain, screenVars, effectVars, CancelsWait, Over, Status
<1> QED  BY <1>1, <1>2, <1>3, <1>4

LEMMA CancelAnswersStep ==
  ASSUME NEW c \in Cancels, MeetingFields, Numbered, ScreenInv, MeetingFields', Numbered',
         DeletionIsShown', ~tally'.elsewhere, CancelAnswers(c)
  PROVE  ScreenInv'
<1> USE MeetingFacts, NothingWaits DEF MeetingFields, ScreenInv
<1>0. CancelAnswered(c)
  BY CancelAnsweredLemma
<1>1. UNCHANGED <<mount, viewRun, upload, poll, notesPoll, reply, server>>
  BY <1>0 DEF CancelAnswered, Settles, Applies, Requests
<1>2. PollWaits'
  BY <1>0 DEF CancelAnswered, Settles, Applies, Requests, PollWaits, CancelsWait, Status, NotesShown, Ended,
              Over
<1>3. CancelsWait'
  BY <1>0 DEF CancelAnswered, Settles, Applies, Requests, CancelsWait, Over, Status, Numbered, CancelRec
<1>4. UploadWaits'
  BY <1>0 DEF CancelAnswered, Settles, Applies, Requests, CancelsWait, UploadWaits, Status, NotesShown,
              Ended, Over
<1>5. RepliesWait'
  BY <1>0 DEF CancelAnswered, Settles, Applies, Requests, CancelsWait, RepliesWait, Status, NotesShown,
              Ended, Over, DeletionIsShown
<1>6. NotesWait'
  BY <1>0 DEF CancelAnswered, Settles, Applies, Requests, CancelsWait, NotesWait, Status, NotesShown, Ended,
              Over
<1>7. NotDeleted'
  BY <1>0 DEF CancelAnswered, Settles, Applies, Requests, CancelsWait, NotDeleted, Status, NotesShown,
              Ended, Over
<1>8. AskedOnce'
  <2> DEFINE m == cancel[c].id
  <2>1. CASE /\ settled # cancel[c].run
             /\ UNCHANGED <<phase, meeting, pending, settled, post, tally>>
    BY <1>0, <1>1, <2>1 DEF CancelAnswered, Settles, AskedOnce, Status
  <2>2. CASE settled = cancel[c].run /\ Applies(m, cancel[c].seen)
    <3>1. /\ m \in Meetings /\ phase = "transcribing" /\ meeting.id = m
          /\ cancel[c].seen = "open" => Status(m) \in Over
          /\ cancel[c].seen # "transcribing"
      BY <1>0, <2>2 DEF CancelAnswered, CancelsWait
    <3>2. phase' # "transcribing"
      BY <2>2, <3>1 DEF Applies
    <3>3. ~(reply["open"].stage # "none" /\ reply["open"].view = viewRun) /\ upload.stage = "none"
      BY <3>1 DEF RepliesWait, UploadWaits
    <3>4. /\ tally.asked \in [Meetings -> Nat]
          /\ tally.asked[m] \in Nat /\ tally.asked[m] <= 1 /\ tally.asked[m] # 1
      BY <3>1 DEF AskedOnce, TallyRec
    <3>5. tally'.asked = IF cancel[c].seen = "open" THEN [tally.asked EXCEPT ![m] = @ + 1] ELSE tally.asked
      BY <2>2 DEF Applies
    <3>6. \A k \in Meetings : tally'.asked[k] = IF cancel[c].seen = "open" /\ k = m THEN 1 ELSE tally.asked[k]
      <4> DEFINE f == tally.asked
      <4>1. f \in [Meetings -> Nat] /\ f[m] = 0
        BY <3>4
      <4> HIDE DEF f, m
      <4> QED  BY <3>1, <3>5, <4>1 DEF f
    <3> QED  BY <1>0, <1>1, <3>1, <3>2, <3>3, <3>6 DEF CancelAnswered, AskedOnce, Status
  <2> QED  BY <1>0, <2>1, <2>2 DEF CancelAnswered, Settles
<1>9. AllShown'
  BY <1>0 DEF CancelAnswered, Settles, Applies, Requests, CancelsWait, RepliesWait, AllShown, Status,
              NotesShown, Ended, Over
<1> QED  BY <1>1, <1>2, <1>3, <1>4, <1>5, <1>6, <1>7, <1>8, <1>9

LEMMA ServerTakesPostStep ==
  ASSUME NEW g \in Posts, MeetingFields, Numbered, ScreenInv, MeetingFields', Numbered',
         DeletionIsShown', ~tally'.elsewhere, ServerTakesPost(g)
  PROVE  ScreenInv'
<1> USE MeetingFacts, NothingWaits DEF MeetingFields, ScreenInv
<1>0. PostTaken
  BY PostTakenLemma
<1>1. UNCHANGED <<mount, phase, meeting, pending, viewRun, settled, upload, poll, notesPoll, cancel, reply>>
  BY <1>0 DEF PostTaken, SameStatus, ServerFits, SameHistory
<1>2. UploadWaits' /\ RepliesWait'
  BY <1>1 DEF UploadWaits, RepliesWait, Status
<1>3. PollWaits'
  BY <1>0, SameStatusKept DEF PostTaken, SameHistory
<1>4. CancelsWait'
  BY <1>0, SameStatusKept DEF PostTaken, SameHistory
<1>5. NotesWait'
  BY <1>0 DEF PostTaken, SameStatus, ServerFits, SameHistory, NotesWait, NotesShown, Ended
<1>6. NotDeleted'
  BY <1>0, NotDeletedKept DEF PostTaken, SameStatus, Status, NoneGoes
<1>7. AskedOnce'
  <2>1. tally'.asked = tally.asked
    BY <1>0 DEF PostTaken, SameHistory
  <2>2. ASSUME NEW m \in Meetings, server[m].status \in Over  PROVE server'[m].status \in Over
    BY <1>0, <2>2 DEF PostTaken, SameStatus, Status
  <2> QED  BY <1>1, <2>1, <2>2 DEF AskedOnce, Status
<1>8. AllShown'
  BY <1>0, SameStatusKept DEF PostTaken, SameHistory
<1> QED  BY <1>1, <1>2, <1>3, <1>4, <1>5, <1>6, <1>7, <1>8

LEMMA PostAnswersStep ==
  ASSUME NEW g \in Posts, MeetingFields, Numbered, ScreenInv, MeetingFields', Numbered',
         DeletionIsShown', ~tally'.elsewhere, PostAnswers(g)
  PROVE  ScreenInv'
<1> USE MeetingFacts, NothingWaits DEF MeetingFields, ScreenInv
<1>1. UNCHANGED <<mount, viewRun, settled, upload, poll, notesPoll, cancel, reply, server, tally>>
  BY DEF PostAnswers, Abandoned, screenVars, Sets, effectVars
<1>2. PollWaits'
  BY DEF PostAnswers, Abandoned, screenVars, Sets, effectVars, PollWaits, NotesWait, Status, NotesShown,
         Ended, Over
<1>3. CancelsWait'
  BY DEF PostAnswers, Abandoned, screenVars, Sets, effectVars, CancelsWait, NotesWait, Status, NotesShown,
         Ended, Over
<1>4. UploadWaits'
  BY DEF PostAnswers, Abandoned, screenVars, Sets, effectVars, UploadWaits, NotesWait, Status, NotesShown,
         Ended, Over
<1>5. RepliesWait'
  BY DEF PostAnswers, Abandoned, screenVars, Sets, effectVars, RepliesWait, NotesWait, Status, NotesShown,
         Ended, Over, DeletionIsShown
<1>6. NotesWait'
  BY DEF PostAnswers, Abandoned, screenVars, Sets, effectVars, NotesWait, NotesShown, Ended
<1>7. NotDeleted'
  BY DEF PostAnswers, Abandoned, screenVars, Sets, effectVars, NotDeleted, Status
<1>8. AskedOnce'
  BY DEF PostAnswers, Abandoned, screenVars, Sets, effectVars, AskedOnce, Status, Over
<1>9. AllShown'
  BY DEF PostAnswers, Abandoned, screenVars, Sets, effectVars, NotesWait, AllShown, Status, NotesShown,
         Ended, Over
<1> QED  BY <1>1, <1>2, <1>3, <1>4, <1>5, <1>6, <1>7, <1>8, <1>9

LEMMA PostAgainStep ==
  ASSUME NEW g \in Posts, MeetingFields, Numbered, ScreenInv, MeetingFields', Numbered',
         DeletionIsShown', ~tally'.elsewhere, PostAgain(g)
  PROVE  ScreenInv'
<1> USE MeetingFacts, NothingWaits DEF MeetingFields, ScreenInv
<1>1. UNCHANGED <<mount, phase, meeting, pending, viewRun, settled, upload, poll, notesPoll, cancel, reply,
                  server, tally>>
  BY DEF PostAgain, Abandoned, screenVars, effectVars
<1>2. UploadWaits' /\ RepliesWait'
  BY <1>1 DEF UploadWaits, RepliesWait, Status
<1>3. PollWaits' /\ CancelsWait' /\ NotDeleted' /\ AskedOnce' /\ AllShown'
  BY <1>1 DEF PollWaits, CancelsWait, NotDeleted, AskedOnce, AllShown, Status
<1>4. NotesWait'
  BY DEF PostAgain, Abandoned, screenVars, effectVars, NotesWait, NotesShown, Ended
<1> QED  BY <1>1, <1>2, <1>3, <1>4

LEMMA PollNotesStep ==
  ASSUME MeetingFields, Numbered, ScreenInv, MeetingFields', Numbered',
         DeletionIsShown', ~tally'.elsewhere, PollNotes
  PROVE  ScreenInv'
<1> USE MeetingFacts, NothingWaits DEF MeetingFields, ScreenInv
<1>1. UNCHANGED <<mount, phase, meeting, pending, viewRun, settled, upload, poll, cancel, post, reply,
                  server, tally>>
  BY DEF PollNotes, AwaitsNotes, screenVars, callVars, Abandoned
<1>2. UploadWaits' /\ RepliesWait'
  BY <1>1 DEF UploadWaits, RepliesWait, Status
<1>3. PollWaits' /\ CancelsWait' /\ NotDeleted' /\ AskedOnce' /\ AllShown'
  BY <1>1 DEF PollWaits, CancelsWait, NotDeleted, AskedOnce, AllShown, Status
<1>4. NotesWait'
  BY DEF PollNotes, AwaitsNotes, screenVars, callVars, Abandoned, NotesWait, NotesShown, Ended
<1> QED  BY <1>1, <1>2, <1>3, <1>4

LEMMA NotesPollAnswersStep ==
  ASSUME MeetingFields, Numbered, ScreenInv, MeetingFields', Numbered',
         DeletionIsShown', ~tally'.elsewhere, NotesPollAnswers
  PROVE  ScreenInv'
<1> USE MeetingFacts, NothingWaits DEF MeetingFields, ScreenInv
<1>1. UNCHANGED <<mount, viewRun, settled, upload, poll, cancel, post, reply, server, tally>>
  BY DEF NotesPollAnswers, Sets, callVars
<1>2. PollWaits'
  BY DEF NotesPollAnswers, Sets, callVars, PollWaits, NotesWait, Status, NotesShown, Ended, Over
<1>3. CancelsWait'
  BY DEF NotesPollAnswers, Sets, callVars, CancelsWait, NotesWait, Status, NotesShown, Ended, Over
<1>4. UploadWaits'
  BY DEF NotesPollAnswers, Sets, callVars, UploadWaits, NotesWait, Status, NotesShown, Ended, Over
<1>5. RepliesWait'
  BY DEF NotesPollAnswers, Sets, callVars, RepliesWait, NotesWait, Status, NotesShown, Ended, Over,
         DeletionIsShown
<1>6. NotesWait'
  BY DEF NotesPollAnswers, Sets, callVars, NotesWait, NotesShown, Ended
<1>7. NotDeleted'
  BY DEF NotesPollAnswers, Sets, callVars, NotDeleted, Status
<1>8. AskedOnce'
  BY DEF NotesPollAnswers, Sets, callVars, AskedOnce, Status, Over
<1>9. AllShown'
  BY DEF NotesPollAnswers, Sets, callVars, NotesWait, AllShown, Status, NotesShown, Ended, Over
<1> QED  BY <1>1, <1>2, <1>3, <1>4, <1>5, <1>6, <1>7, <1>8, <1>9

LEMMA CancelNotesStep ==
  ASSUME MeetingFields, Numbered, ScreenInv, MeetingFields', Numbered',
         DeletionIsShown', ~tally'.elsewhere, CancelNotes
  PROVE  ScreenInv'
<1> USE MeetingFacts, NothingWaits DEF MeetingFields, ScreenInv
<1>1. UNCHANGED <<mount, phase, meeting, pending, viewRun, settled, upload, poll, notesPoll, cancel, post,
                  server>>
  BY DEF CancelNotes, UserActs, screenVars, effectVars
<1>2. UploadWaits'
  BY <1>1 DEF UploadWaits, Status
<1>3. PollWaits' /\ CancelsWait'
  BY <1>1 DEF PollWaits, CancelsWait, Status
<1>4. RepliesWait'
  BY DEF CancelNotes, UserActs, screenVars, effectVars, RepliesWait
<1>5. NotesWait'
  BY DEF CancelNotes, UserActs, screenVars, effectVars, NotesWait, NotesShown, Ended
<1>6. NotDeleted'
  BY DEF CancelNotes, UserActs, screenVars, effectVars, NotDeleted, Status
<1>7. AskedOnce'
  BY DEF CancelNotes, UserActs, screenVars, effectVars, AskedOnce, Status, Over
<1>8. AllShown'
  BY DEF CancelNotes, UserActs, screenVars, effectVars, AllShown, Status
<1> QED  BY <1>1, <1>2, <1>3, <1>4, <1>5, <1>6, <1>7, <1>8

LEMMA ServerCancelsNotesStep ==
  ASSUME MeetingFields, Numbered, ScreenInv, MeetingFields', Numbered',
         DeletionIsShown', ~tally'.elsewhere, ServerCancelsNotes
  PROVE  ScreenInv'
<1> USE MeetingFacts, NothingWaits DEF MeetingFields, ScreenInv
<1>0. SameStatus
  BY CancelledNotesShape
<1>1. UNCHANGED <<mount, phase, meeting, pending, viewRun, settled, upload, poll, notesPoll, cancel, post,
                  tally>>
  BY DEF ServerCancelsNotes, screenVars, effectVars
<1>2. UploadWaits'
  BY <1>1 DEF UploadWaits, Status
<1>3. PollWaits'
  BY <1>0, <1>1, SameStatusKept
<1>4. CancelsWait'
  BY <1>0, <1>1, SameStatusKept
<1>5. RepliesWait'
  BY DEF ServerCancelsNotes, screenVars, effectVars, RepliesWait, Numbered, ReplyRec, Replies, DeletionIsShown
<1>6. NotesWait'
  <2>1. reply'["cancelNotes"].stage # "none" =>
          /\ reply["cancelNotes"].stage # "none" /\ reply'["cancelNotes"].view = reply["cancelNotes"].view
    BY CancelledNotesShape
  <2> QED  BY <1>1, <2>1 DEF NotesWait, NotesShown
<1>7. NotDeleted'
  <2>1. reply'["open"] = reply["open"]
    BY CancelledNotesShape DEF Replies
  <2> QED  BY <1>0, <1>1, <2>1, NotDeletedKept DEF SameStatus, Status, NoneGoes
<1>8. AskedOnce'
  <2>1. reply'["open"] = reply["open"]
    BY CancelledNotesShape DEF Replies
  <2>2. ASSUME NEW m \in Meetings, server[m].status \in Over  PROVE server'[m].status \in Over
    BY <1>0, <2>2 DEF SameStatus, Status
  <2> QED  BY <1>1, <2>1, <2>2 DEF AskedOnce, Status
<1>9. AllShown'
  BY <1>0, <1>1, SameStatusKept
<1> QED  BY <1>1, <1>2, <1>3, <1>4, <1>5, <1>6, <1>7, <1>8, <1>9

LEMMA CancelNotesAnswersStep ==
  ASSUME MeetingFields, Numbered, ScreenInv, MeetingFields', Numbered',
         DeletionIsShown', ~tally'.elsewhere, CancelNotesAnswers
  PROVE  ScreenInv'
<1> USE MeetingFacts, NothingWaits DEF MeetingFields, ScreenInv
<1>1. UNCHANGED <<mount, viewRun, settled, upload, poll, notesPoll, cancel, post, server, tally>>
  BY DEF CancelNotesAnswers, Sets, screenVars, effectVars
<1>2. PollWaits'
  BY DEF CancelNotesAnswers, Sets, screenVars, effectVars, PollWaits, NotesWait, Status, NotesShown, Ended,
         Over
<1>3. CancelsWait'
  BY DEF CancelNotesAnswers, Sets, screenVars, effectVars, CancelsWait, NotesWait, Status, NotesShown,
         Ended, Over
<1>4. UploadWaits'
  BY DEF CancelNotesAnswers, Sets, screenVars, effectVars, UploadWaits, NotesWait, Status, NotesShown,
         Ended, Over
<1>5. RepliesWait'
  BY DEF CancelNotesAnswers, Sets, screenVars, effectVars, RepliesWait, NotesWait, Status, NotesShown,
         Ended, Over, DeletionIsShown
<1>6. NotesWait'
  BY DEF CancelNotesAnswers, Sets, screenVars, effectVars, NotesWait, NotesShown, Ended
<1>7. NotDeleted'
  BY DEF CancelNotesAnswers, Sets, screenVars, effectVars, NotDeleted, Status
<1>8. AskedOnce'
  BY DEF CancelNotesAnswers, Sets, screenVars, effectVars, AskedOnce, Status, Over
<1>9. AllShown'
  BY DEF CancelNotesAnswers, Sets, screenVars, effectVars, NotesWait, AllShown, Status, NotesShown, Ended,
         Over
<1> QED  BY <1>1, <1>2, <1>3, <1>4, <1>5, <1>6, <1>7, <1>8, <1>9

LEMMA RegenerateMeetingStep ==
  ASSUME MeetingFields, Numbered, ScreenInv, MeetingFields', Numbered',
         DeletionIsShown', ~tally'.elsewhere, RegenerateMeeting
  PROVE  ScreenInv'
<1> USE MeetingFacts, NothingWaits DEF MeetingFields, ScreenInv
<1>1. UNCHANGED <<mount, viewRun, settled, upload, cancel, reply, server>>
  BY DEF RegenerateMeeting, UserActs, AwaitsNotes, Shows, GenerateNotes, Abandoned, Effects, Counted
<1>2. PollWaits'
  BY DEF RegenerateMeeting, UserActs, AwaitsNotes, Shows, GenerateNotes, Abandoned, Effects, Counted,
         PollWaits, Ended, Over, Status
<1>3. CancelsWait'
  BY DEF RegenerateMeeting, UserActs, AwaitsNotes, Shows, GenerateNotes, Abandoned, Effects, Counted,
         CancelsWait, Over, Status
<1>4. UploadWaits'
  BY DEF RegenerateMeeting, UserActs, AwaitsNotes, Shows, GenerateNotes, Abandoned, Effects, Counted,
         UploadWaits
<1>5. RepliesWait'
  BY DEF RegenerateMeeting, UserActs, AwaitsNotes, Shows, GenerateNotes, Abandoned, Effects, Counted,
         RepliesWait
<1>6. NotesWait'
  BY DEF RegenerateMeeting, UserActs, AwaitsNotes, Shows, GenerateNotes, Abandoned, Effects, Counted,
         NotesWait, NotesShown, Ended
<1>7. NotDeleted'
  BY DEF RegenerateMeeting, UserActs, AwaitsNotes, Shows, GenerateNotes, Abandoned, Effects, Counted,
         NotDeleted, Status
<1>8. AskedOnce'
  BY DEF RegenerateMeeting, UserActs, AwaitsNotes, Shows, GenerateNotes, Abandoned, Effects, Counted,
         AskedOnce, Status, Over
<1>9. AllShown'
  BY DEF RegenerateMeeting, UserActs, AwaitsNotes, Shows, GenerateNotes, Abandoned, Effects, Counted,
         AllShown, Status
<1> QED  BY <1>1, <1>2, <1>3, <1>4, <1>5, <1>6, <1>7, <1>8, <1>9

LEMMA CloseMeetingStep ==
  ASSUME MeetingFields, Numbered, ScreenInv, MeetingFields', Numbered',
         DeletionIsShown', ~tally'.elsewhere, CloseMeeting
  PROVE  ScreenInv'
<1> USE MeetingFacts, NothingWaits DEF MeetingFields, ScreenInv
<1>1. UNCHANGED <<mount, upload, cancel, post, reply, server>>
  BY DEF CloseMeeting, UserActs, BusyPhases, NextView, Shows, callVars, Effects
<1>2. PollWaits'
  BY DEF CloseMeeting, UserActs, BusyPhases, NextView, Shows, callVars, Effects, PollWaits, Ended, Over,
         Status
<1>3. CancelsWait'
  BY DEF CloseMeeting, UserActs, BusyPhases, NextView, Shows, callVars, Effects, CancelsWait, Over, Status,
         Numbered, CancelRec
<1>4. UploadWaits'
  BY DEF CloseMeeting, UserActs, BusyPhases, NextView, Shows, callVars, Effects, UploadWaits
<1>5. RepliesWait'
  BY DEF CloseMeeting, UserActs, BusyPhases, NextView, Shows, callVars, Effects, RepliesWait, Numbered,
         ReplyRec, Replies, DeletionIsShown
<1>6. NotesWait'
  BY DEF CloseMeeting, UserActs, BusyPhases, NextView, Shows, callVars, Effects, NotesWait, NotesShown,
         Ended, Numbered, PostRec, ReplyRec, Replies
<1>7. NotDeleted'
  BY DEF CloseMeeting, UserActs, BusyPhases, NextView, Shows, callVars, Effects, RepliesWait, NotDeleted,
         Status, NotesShown, Ended, Over
<1>8. AskedOnce'
  BY DEF CloseMeeting, UserActs, BusyPhases, NextView, Shows, callVars, Effects, RepliesWait, AskedOnce,
         Status, NotesShown, Ended, Over
<1>9. AllShown'
  BY DEF CloseMeeting, UserActs, BusyPhases, NextView, Shows, callVars, Effects, AllShown, Status
<1> QED  BY <1>1, <1>2, <1>3, <1>4, <1>5, <1>6, <1>7, <1>8, <1>9

LEMMA ServerOpensStep ==
  ASSUME MeetingFields, Numbered, ScreenInv, MeetingFields', Numbered',
         DeletionIsShown', ~tally'.elsewhere, ServerOpens
  PROVE  ScreenInv'
<1> USE MeetingFacts, NothingWaits DEF MeetingFields, ScreenInv
<1>1. UNCHANGED <<mount, phase, meeting, pending, viewRun, settled, upload, poll, notesPoll, cancel, post,
                  server>>
  BY DEF ServerOpens, MeetingTrouble, Spent, screenVars, effectVars
<1>2. UploadWaits'
  BY <1>1 DEF UploadWaits, Status
<1>3. PollWaits' /\ CancelsWait'
  BY <1>1 DEF PollWaits, CancelsWait, Status
<1>4. RepliesWait'
  BY DEF ServerOpens, MeetingTrouble, Spent, screenVars, effectVars, RepliesWait, Numbered, ReplyRec,
         Replies, DeletionIsShown
<1>5. NotesWait'
  BY DEF ServerOpens, MeetingTrouble, Spent, screenVars, effectVars, NotesWait, NotesShown, Ended, Numbered,
         PostRec, ReplyRec, Replies
<1>6. NotDeleted'
  BY DEF ServerOpens, MeetingTrouble, Spent, screenVars, effectVars, NotDeleted, Status, Numbered,
         UploadRec, ReplyRec, Replies
<1>7. AskedOnce'
  BY DEF ServerOpens, MeetingTrouble, Spent, screenVars, effectVars, AskedOnce, Status, Over, Numbered,
         TallyRec, ReplyRec, Replies
<1>8. AllShown'
  <2>1. tally' = tally \/ tally' = Spent
    BY DEF ServerOpens
  <2>2. tally'.unseen = tally.unseen
    BY <2>1, SpentLemma DEF SameHistory
  <2> QED  BY <1>1, <2>2 DEF AllShown, Status
<1> QED  BY <1>1, <1>2, <1>3, <1>4, <1>5, <1>6, <1>7, <1>8

LEMMA OpensStep ==
  ASSUME MeetingFields, Numbered, ScreenInv, MeetingFields', Numbered',
         DeletionIsShown', ~tally'.elsewhere, Opens
  PROVE  ScreenInv'
<1> USE MeetingFacts, NothingWaits DEF MeetingFields, ScreenInv
<1>1. UNCHANGED <<mount, viewRun, settled, upload, poll, notesPoll, cancel, post, server, tally>>
  BY DEF Opens, Sets, ResumedPhase, effectVars
<1>2. PollWaits'
  BY DEF Opens, Sets, ResumedPhase, effectVars, PollWaits, RepliesWait, Status, NotesShown, Ended, Over
<1>3. CancelsWait'
  BY DEF Opens, Sets, ResumedPhase, effectVars, CancelsWait, RepliesWait, Status, NotesShown, Ended, Over
<1>4. UploadWaits'
  BY DEF Opens, Sets, ResumedPhase, effectVars, UploadWaits, RepliesWait, Status, NotesShown, Ended, Over
<1>5. RepliesWait'
  BY DEF Opens, Sets, ResumedPhase, effectVars, RepliesWait
<1>6. NotesWait'
  BY DEF Opens, Sets, ResumedPhase, effectVars, RepliesWait, NotesWait, Status, NotesShown, Ended, Over
<1>7. NotDeleted'
  BY DEF Opens, Sets, ResumedPhase, effectVars, NotDeleted, Status
<1>8. AskedOnce'
  BY DEF Opens, Sets, ResumedPhase, effectVars, AskedOnce, Status, Over
<1>9. AllShown'
  BY DEF Opens, Sets, ResumedPhase, effectVars, RepliesWait, AllShown, Status, NotesShown, Ended, Over
<1> QED  BY <1>1, <1>2, <1>3, <1>4, <1>5, <1>6, <1>7, <1>8, <1>9

LEMMA DeleteCurrentMeetingStep ==
  ASSUME MeetingFields, Numbered, ScreenInv, MeetingFields', Numbered',
         DeletionIsShown', ~tally'.elsewhere, DeleteCurrentMeeting
  PROVE  ScreenInv'
<1> USE MeetingFacts, NothingWaits DEF MeetingFields, ScreenInv
<1>1. UNCHANGED <<mount, viewRun, settled, upload, cancel, post, server, tally>>
  BY DEF DeleteCurrentMeeting, UserActs, AwaitsNotes, Shows, Abandoned, Effects
<1>2. PollWaits'
  BY DEF DeleteCurrentMeeting, UserActs, AwaitsNotes, Shows, Abandoned, Effects, PollWaits, Ended, Over,
         Status
<1>3. CancelsWait'
  BY DEF DeleteCurrentMeeting, UserActs, AwaitsNotes, Shows, Abandoned, Effects, CancelsWait, Over, Status
<1>4. UploadWaits'
  BY DEF DeleteCurrentMeeting, UserActs, AwaitsNotes, Shows, Abandoned, Effects, UploadWaits
<1>5. RepliesWait'
  BY DEF DeleteCurrentMeeting, UserActs, AwaitsNotes, Shows, Abandoned, Effects, RepliesWait
<1>6. NotesWait'
  BY DEF DeleteCurrentMeeting, UserActs, AwaitsNotes, Shows, Abandoned, Effects, NotesWait, NotesShown, Ended
<1>7. NotDeleted'
  BY DEF DeleteCurrentMeeting, UserActs, AwaitsNotes, Shows, Abandoned, Effects, NotDeleted, Status
<1>8. AskedOnce'
  BY DEF DeleteCurrentMeeting, UserActs, AwaitsNotes, Shows, Abandoned, Effects, AskedOnce, Status, Over
<1>9. AllShown'
  BY DEF DeleteCurrentMeeting, UserActs, AwaitsNotes, Shows, Abandoned, Effects, AllShown, Status
<1> QED  BY <1>1, <1>2, <1>3, <1>4, <1>5, <1>6, <1>7, <1>8, <1>9

LEMMA DeletesStep ==
  ASSUME MeetingFields, Numbered, ScreenInv, MeetingFields', Numbered',
         DeletionIsShown', ~tally'.elsewhere, Deletes
  PROVE  ScreenInv'
<1> USE MeetingFacts, NothingWaits DEF MeetingFields, ScreenInv
<1>0. Deleted
  BY DeletedLemma
<1>1. UNCHANGED <<mount, upload, poll, notesPoll, cancel, post>>
  BY <1>0 DEF Deleted, Becomes, SameStatus, ServerFits, SameHistory
<1>2. PollWaits'
  BY <1>0 DEF Deleted, Becomes, SameStatus, ServerFits, SameHistory, PollWaits, RepliesWait, Status,
              NotesShown, Ended, Over
<1>3. CancelsWait'
  BY <1>0, <1>1, CancelsKept DEF Deleted, Becomes, SameStatus, UploadWaits, RepliesWait, NotesWait, Over
<1>4. UploadWaits'
  BY <1>0 DEF Deleted, Becomes, SameStatus, ServerFits, SameHistory, UploadWaits, RepliesWait, Status,
              NotesShown, Ended, Over
<1>5. RepliesWait'
  BY <1>0 DEF Deleted, Becomes, SameStatus, ServerFits, SameHistory, RepliesWait, Numbered, ReplyRec,
              Replies, DeletionIsShown
<1>6. NotesWait'
  BY <1>0 DEF Deleted, Becomes, SameStatus, ServerFits, SameHistory, RepliesWait, NotesWait, Status,
              NotesShown, Ended, Over, PostRec, ReplyRec, Replies
<1>7. NotDeleted'
  BY <1>0 DEF Deleted, Becomes, SameStatus, ServerFits, SameHistory, UploadWaits, RepliesWait, NotDeleted,
              Status, NotesShown, Ended, Over
<1>8. AskedOnce'
  BY <1>0 DEF Deleted, Becomes, SameStatus, ServerFits, SameHistory, RepliesWait, NotDeleted, AskedOnce,
              Status, NotesShown, Ended, Over
<1>9. AllShown'
  <2>1. phase = "deleting"
    BY <1>0 DEF Deleted, RepliesWait
  <2>2. \A m \in Meetings : Status(m)' = "transcribing" => Status(m) = "transcribing"
    BY <1>0 DEF Deleted, Becomes, SameStatus
  <2>3. tally'.unseen = tally.unseen
    BY <1>0 DEF Deleted, SameHistory
  <2> QED  BY <1>1, <2>1, <2>2, <2>3 DEF AllShown
<1> QED  BY <1>1, <1>2, <1>3, <1>4, <1>5, <1>6, <1>7, <1>8, <1>9

LEMMA LeaveMeetingStep ==
  ASSUME MeetingFields, Numbered, ScreenInv, MeetingFields', Numbered',
         DeletionIsShown', ~tally'.elsewhere, LeaveMeeting
  PROVE  ScreenInv'
<1> USE MeetingFacts, NothingWaits DEF MeetingFields, ScreenInv
<1>1. UNCHANGED <<phase, meeting, pending, viewRun, settled, server, tally>>
  BY DEF LeaveMeeting, UserActs, Replies, screenVars
<1>2. PollWaits'
  BY DEF LeaveMeeting, UserActs, screenVars, PollWaits, Ended, Over, Status
<1>3. CancelsWait'
  BY DEF LeaveMeeting, UserActs, screenVars, CancelsWait, Over, Status
<1>4. UploadWaits'
  BY DEF LeaveMeeting, UserActs, screenVars, UploadWaits
<1>5. RepliesWait'
  BY DEF LeaveMeeting, UserActs, screenVars, RepliesWait, Numbered, ReplyRec, Replies, DeletionIsShown
<1>6. NotesWait'
  BY DEF LeaveMeeting, UserActs, screenVars, NotesWait, NotesShown, Ended, Numbered, PostRec, ReplyRec,
         Replies
<1>7. NotDeleted'
  BY DEF LeaveMeeting, UserActs, screenVars, NotDeleted, Status, Numbered, UploadRec, ReplyRec, Replies
<1>8. AskedOnce'
  BY DEF LeaveMeeting, UserActs, screenVars, AskedOnce, Status, Over, Numbered, TallyRec, ReplyRec, Replies
<1>9. AllShown'
  BY DEF LeaveMeeting, UserActs, screenVars, AllShown, Status
<1> QED  BY <1>1, <1>2, <1>3, <1>4, <1>5, <1>6, <1>7, <1>8, <1>9

LEMMA ResumeStep ==
  ASSUME NEW m \in Meetings, MeetingFields, Numbered, ScreenInv, MeetingFields', Numbered',
         DeletionIsShown', ~tally'.elsewhere, Resume(m)
  PROVE  ScreenInv'
<1> USE MeetingFacts, NothingWaits DEF MeetingFields, ScreenInv
<1>1. UNCHANGED <<mount, settled, upload, cancel, post, server, tally>>
  BY DEF Resume, UserActs, Shows, Effects
<1>2. PollWaits'
  BY DEF Resume, UserActs, Shows, Effects, PollWaits, Ended, Over, Status
<1>3. CancelsWait'
  BY DEF Resume, UserActs, Shows, Effects, CancelsWait, Over, Status
<1>4. UploadWaits'
  BY DEF Resume, UserActs, Shows, Effects, UploadWaits
<1>5. RepliesWait'
  BY DEF Resume, UserActs, Shows, Effects, RepliesWait
<1>6. NotesWait'
  BY DEF Resume, UserActs, Shows, Effects, NotesWait, NotesShown, Ended, Numbered, PostRec, ReplyRec, Replies
<1>7. NotDeleted'
  BY DEF Resume, UserActs, Shows, Effects, NotDeleted, Status
<1>8. AskedOnce'
  BY DEF Resume, UserActs, Shows, Effects, AskedOnce, Status, Over
<1>9. AllShown'
  BY DEF Resume, UserActs, Shows, Effects, AllShown, Status
<1> QED  BY <1>1, <1>2, <1>3, <1>4, <1>5, <1>6, <1>7, <1>8, <1>9

LEMMA TranscriptionEndsStep ==
  ASSUME NEW m \in Meetings, MeetingFields, Numbered, ScreenInv, MeetingFields', Numbered',
         DeletionIsShown', ~tally'.elsewhere, TranscriptionEnds(m)
  PROVE  ScreenInv'
<1> USE MeetingFacts, NothingWaits DEF MeetingFields, ScreenInv
<1>1. UNCHANGED <<mount, phase, meeting, pending, viewRun, settled, upload, poll, notesPoll, cancel, post,
                  reply, tally>>
  BY DEF TranscriptionEnds, screenVars, effectVars, callVars
<1>2. UploadWaits' /\ RepliesWait' /\ NotesWait'
  BY <1>1 DEF UploadWaits, RepliesWait, NotesWait, NotesShown, Status
<1>3. PollWaits'
  BY DEF TranscriptionEnds, screenVars, effectVars, callVars, PollWaits, Ended, Over, Status
<1>4. CancelsWait'
  BY DEF TranscriptionEnds, screenVars, effectVars, callVars, CancelsWait, Over, Status
<1>5. NotDeleted'
  BY DEF TranscriptionEnds, screenVars, effectVars, callVars, NotDeleted, Status
<1>6. AskedOnce'
  BY DEF TranscriptionEnds, screenVars, effectVars, callVars, AskedOnce, Status, Over
<1>7. AllShown'
  BY DEF TranscriptionEnds, screenVars, effectVars, callVars, AllShown, Status
<1> QED  BY <1>1, <1>2, <1>3, <1>4, <1>5, <1>6, <1>7

LEMMA NotesEndStep ==
  ASSUME NEW m \in Meetings, MeetingFields, Numbered, ScreenInv, MeetingFields', Numbered',
         DeletionIsShown', ~tally'.elsewhere, NotesEnd(m)
  PROVE  ScreenInv'
<1> USE MeetingFacts, NothingWaits DEF MeetingFields, ScreenInv
<1>0. SameStatus
  BY NotesEndShape
<1>1. UNCHANGED <<mount, phase, meeting, pending, viewRun, settled, upload, poll, notesPoll, cancel, post,
                  reply, tally>>
  BY DEF NotesEnd, screenVars, effectVars, callVars
<1>2. UploadWaits' /\ RepliesWait' /\ NotesWait'
  BY <1>1 DEF UploadWaits, RepliesWait, NotesWait, NotesShown, Status
<1>3. PollWaits'
  BY <1>0, <1>1, SameStatusKept
<1>4. CancelsWait'
  BY <1>0, <1>1, SameStatusKept
<1>5. NotDeleted'
  BY DEF NotesEnd, screenVars, effectVars, callVars, NotDeleted, Status
<1>6. AskedOnce'
  BY DEF NotesEnd, screenVars, effectVars, callVars, AskedOnce, Status, Over
<1>7. AllShown'
  BY <1>0, <1>1, SameStatusKept
<1> QED  BY <1>1, <1>2, <1>3, <1>4, <1>5, <1>6, <1>7

LEMMA OtherTabMeetingStep ==
  ASSUME NEW m \in Meetings, MeetingFields, Numbered, ScreenInv, MeetingFields', Numbered',
         DeletionIsShown', ~tally'.elsewhere, OtherTabMeeting(m)
  PROVE  ScreenInv'
<1> USE MeetingFacts, NothingWaits DEF MeetingFields, ScreenInv
<1>0. SameStatus /\ tally'.unseen = tally.unseen /\ tally'.asked = tally.asked
  BY ElsewhereShape DEF SameHistory
<1>1. UNCHANGED <<mount, phase, meeting, pending, viewRun, settled, upload, poll, notesPoll, cancel, post,
                  reply>>
  BY DEF OtherTabMeeting, MeetingTrouble, Spent, screenVars, effectVars, callVars
<1>2. UploadWaits' /\ RepliesWait' /\ NotesWait'
  BY <1>1 DEF UploadWaits, RepliesWait, NotesWait, NotesShown, Status
<1>3. PollWaits'
  BY <1>0, <1>1, SameStatusKept
<1>4. CancelsWait'
  BY <1>0, <1>1, SameStatusKept
<1>5. NotDeleted'
  BY <1>0, <1>1, NotDeletedKept DEF SameStatus, Status, NoneGoes
<1>6. AskedOnce'
  BY <1>0, <1>1 DEF AskedOnce, SameStatus
<1>7. AllShown'
  BY <1>0, <1>1, SameStatusKept
<1> QED  BY <1>1, <1>2, <1>3, <1>4, <1>5, <1>6, <1>7

-----------------------------------------------------------------------------
(* The parts, together: every step of TranscriptionNext.                     *)
LEMMA TranscriptionInvInit == TranscriptionInit => TranscriptionInv
<1> SUFFICES ASSUME TranscriptionInit  PROVE TranscriptionInv
  OBVIOUS
<1> USE MeetingFacts, NothingLemma, NothingWaits
<1>1. PICK listed \in {"none", "awaiting_upload", "transcribing", "failed", "open"} :
        server = [m \in Meetings |-> [status |-> IF m = 1 THEN listed ELSE "none", notes |-> "none"]]
  BY DEF TranscriptionInit
<1>2. server \in [Meetings -> [status : Statuses, notes : NotesStatuses]]
  BY <1>1 DEF Statuses, NotesStatuses
<1>3. tally \in TallyRec /\ tally.asked = [m \in Meetings |-> 0] /\ tally.unseen = {1}
  <2>1. 1 \in Meetings
    BY MeetingTranscriptionAssumption DEF Meetings
  <2> QED  BY <2>1 DEF TranscriptionInit, TallyRec
<1>4. MeetingFields /\ Numbered
  BY <1>2, <1>3 DEF TranscriptionInit, MeetingFields, Numbered, Phases
<1>5. \A m \in Meetings : Status(m) = "transcribing" => m \in tally.unseen
  BY <1>1, <1>3 DEF Status
<1>6. ScreenInv
  BY <1>3, <1>5 DEF TranscriptionInit, ScreenInv, PollWaits, CancelsWait, UploadWaits, RepliesWait, NotesWait,
                    NotDeleted, AskedOnce, AllShown, Replies
<1> QED  BY <1>4, <1>6 DEF TranscriptionInv

(* Types and numbers outlive every step, and so does a deletion elsewhere.   *)
LEMMA FieldsKept ==
  ASSUME MeetingFields, Numbered, TranscriptionNext
  PROVE  MeetingFields' /\ Numbered' /\ (tally.elsewhere => tally'.elsewhere)
<1>1. CASE UploadRecording \/ CancelUpload \/ UploadStep
  BY <1>1, UploadRecordingFields, CancelUploadFields, CreateMeetingFields, SendRecordingFields,
     UploadIsDoneFields, UploadIsCancelledFields DEF UploadStep
<1>2. CASE Render \/ PollStep
  BY <1>2, RenderFields, PollTranscriptionFields, PollAnswersFields DEF PollStep
<1>3. ASSUME NEW c \in Cancels, CancelTranscription(c) \/ CancelStep(c)
     PROVE  MeetingFields' /\ Numbered' /\ (tally.elsewhere => tally'.elsewhere)
  BY <1>3, CancelTranscriptionFields, ServerCancelsFields, CancelAsksAgainFields, CancelAnswersFields DEF
     CancelStep
<1>4. ASSUME NEW g \in Posts, PostStep(g)
     PROVE  MeetingFields' /\ Numbered' /\ (tally.elsewhere => tally'.elsewhere)
  BY <1>4, ServerTakesPostFields, PostAnswersFields, PostAgainFields DEF PostStep
<1>5. CASE \/ PollNotes \/ NotesPollAnswers \/ CancelNotes \/ ServerCancelsNotes \/ CancelNotesAnswers
          \/ RegenerateMeeting
  BY <1>5, PollNotesFields, NotesPollAnswersFields, CancelNotesFields, ServerCancelsNotesFields,
     CancelNotesAnswersFields, RegenerateMeetingFields
<1>6. CASE CloseMeeting \/ ServerOpens \/ Opens \/ DeleteCurrentMeeting \/ Deletes \/ LeaveMeeting
  BY <1>6, CloseMeetingFields, ServerOpensFields, OpensFields, DeleteCurrentMeetingFields, DeletesFields,
     LeaveMeetingFields
<1>7. ASSUME NEW m \in Meetings, Resume(m) \/ ServerStep(m) \/ OtherTabMeeting(m)
     PROVE  MeetingFields' /\ Numbered' /\ (tally.elsewhere => tally'.elsewhere)
  BY <1>7, ResumeFields, TranscriptionEndsFields, NotesEndFields, OtherTabMeetingFields DEF ServerStep
<1> QED  BY <1>1, <1>2, <1>3, <1>4, <1>5, <1>6, <1>7 DEF TranscriptionNext

(* The screen keeps up with every step, unless another tab deletes a meeting. *)
LEMMA ScreenKept ==
  ASSUME MeetingFields, Numbered, ScreenInv, MeetingFields', Numbered',
         DeletionIsShown', ~tally'.elsewhere, TranscriptionNext
  PROVE  ScreenInv'
<1>1. CASE UploadRecording \/ CancelUpload \/ UploadStep
  BY <1>1, UploadRecordingStep, CancelUploadStep, CreateMeetingStep, SendRecordingStep, UploadIsDoneStep,
     UploadIsCancelledStep DEF UploadStep
<1>2. CASE Render \/ PollStep
  BY <1>2, RenderPhaseStep, PollTranscriptionStep, PollAnswersStep DEF PollStep
<1>3. ASSUME NEW c \in Cancels, CancelTranscription(c) \/ CancelStep(c)
     PROVE  ScreenInv'
  BY <1>3, CancelTranscriptionStep, ServerCancelsStep, CancelAsksAgainStep, CancelAnswersStep DEF CancelStep
<1>4. ASSUME NEW g \in Posts, PostStep(g)
     PROVE  ScreenInv'
  BY <1>4, ServerTakesPostStep, PostAnswersStep, PostAgainStep DEF PostStep
<1>5. CASE \/ PollNotes \/ NotesPollAnswers \/ CancelNotes \/ ServerCancelsNotes \/ CancelNotesAnswers
          \/ RegenerateMeeting
  BY <1>5, PollNotesStep, NotesPollAnswersStep, CancelNotesStep, ServerCancelsNotesStep,
     CancelNotesAnswersStep, RegenerateMeetingStep
<1>6. CASE CloseMeeting \/ ServerOpens \/ Opens \/ DeleteCurrentMeeting \/ Deletes \/ LeaveMeeting
  BY <1>6, CloseMeetingStep, ServerOpensStep, OpensStep, DeleteCurrentMeetingStep, DeletesStep,
     LeaveMeetingStep
<1>7. ASSUME NEW m \in Meetings, Resume(m) \/ ServerStep(m) \/ OtherTabMeeting(m)
     PROVE  ScreenInv'
  BY <1>7, ResumeStep, TranscriptionEndsStep, NotesEndStep, OtherTabMeetingStep DEF ServerStep
<1> QED  BY <1>1, <1>2, <1>3, <1>4, <1>5, <1>6, <1>7 DEF TranscriptionNext

(* The invariant is inductive while a deletion on its way is shown.          *)
LEMMA TranscriptionInvNext ==
  TranscriptionInv /\ DeletionIsShown' /\ [TranscriptionNext]_transcriptionVars => TranscriptionInv'
<1> SUFFICES ASSUME TranscriptionInv, DeletionIsShown', [TranscriptionNext]_transcriptionVars
             PROVE  TranscriptionInv'
  OBVIOUS
<1>1. CASE TranscriptionNext
  <2>1. MeetingFields' /\ Numbered' /\ (tally.elsewhere => tally'.elsewhere)
    BY <1>1, FieldsKept DEF TranscriptionInv
  <2>2. ASSUME ~tally'.elsewhere  PROVE ScreenInv'
    <3>1. MeetingFields /\ Numbered /\ ScreenInv
      BY <2>1, <2>2 DEF TranscriptionInv
    <3> QED  BY <1>1, <2>1, <2>2, <3>1, ScreenKept
  <2> QED  BY <2>1, <2>2 DEF TranscriptionInv
<1>2. CASE UNCHANGED transcriptionVars
  <2>1. MeetingFields' = MeetingFields /\ Numbered' = Numbered
    BY <1>2 DEF transcriptionVars, MeetingFields, Numbered
  <2>2. PollWaits' = PollWaits /\ CancelsWait' = CancelsWait /\ UploadWaits' = UploadWaits
    BY <1>2 DEF transcriptionVars, PollWaits, CancelsWait, UploadWaits, Status
  <2>3. RepliesWait' = RepliesWait /\ NotesWait' = NotesWait
    BY <1>2 DEF transcriptionVars, RepliesWait, NotesWait, NotesShown
  <2>4. NotDeleted' = NotDeleted /\ AskedOnce' = AskedOnce /\ AllShown' = AllShown
    BY <1>2 DEF transcriptionVars, NotDeleted, AskedOnce, AllShown, Status
  <2>5. tally' = tally
    BY <1>2 DEF transcriptionVars
  <2> QED  BY <2>1, <2>2, <2>3, <2>4, <2>5 DEF TranscriptionInv, ScreenInv
<1> QED  BY <1>1, <1>2

LEMMA TranscriptionInvHolds == TranscriptionSpec /\ []DeletionIsShown => []TranscriptionInv
<1>1. TranscriptionInv /\ DeletionIsShown /\ DeletionIsShown' /\ [TranscriptionNext]_transcriptionVars => TranscriptionInv'
  BY TranscriptionInvNext
<1> QED  BY TranscriptionInvInit, <1>1, PTL DEF TranscriptionSpec

(* The invariant of the types needs no premise.                              *)
LEMMA MeetingFieldsHold == TranscriptionSpec => [](MeetingFields /\ Numbered)
<1>1. TranscriptionInit => MeetingFields /\ Numbered
  BY TranscriptionInvInit DEF TranscriptionInv
<1>2. MeetingFields /\ Numbered /\ [TranscriptionNext]_transcriptionVars => MeetingFields' /\ Numbered'
  <2> SUFFICES ASSUME MeetingFields, Numbered, [TranscriptionNext]_transcriptionVars
               PROVE  MeetingFields' /\ Numbered'
    OBVIOUS
  <2>1. CASE TranscriptionNext
    BY <2>1, FieldsKept
  <2>2. CASE UNCHANGED transcriptionVars
    BY <2>2 DEF transcriptionVars, MeetingFields, Numbered
  <2> QED  BY <2>1, <2>2
<1> QED  BY <1>1, <1>2, PTL DEF TranscriptionSpec

(* Every variable keeps its type, for any number of meetings, uploads,       *)
(* requests and losses: what the answers carry included.                     *)
THEOREM TranscriptionTypeTheorem == TranscriptionSpec => []TranscriptionTypeOK
<1>1. MeetingFields => TranscriptionTypeOK
  BY DEF MeetingFields, TranscriptionTypeOK, Numbers, UploadRec, PollRec, CancelRec, PostRec, ReplyRec,
         NotesStatuses
<1> QED  BY <1>1, MeetingFieldsHold, PTL

(* Until another tab deletes a meeting, notes are requested once for a       *)
(* transcription, whoever reports its end, for any number of meetings,       *)
(* views, cancellations, requests and losses, while a deletion on its way is *)
(* the one the screen shows.                                                 *)
THEOREM NotesRequestedOnceTheorem ==
  TranscriptionSpec /\ []DeletionIsShown => [](tally.elsewhere \/ NotesRequestedOnce)
<1>1. TranscriptionInv => tally.elsewhere \/ NotesRequestedOnce
  BY DEF TranscriptionInv, ScreenInv, AskedOnce, NotesRequestedOnce
<1> QED  BY <1>1, TranscriptionInvHolds, PTL

(* Under the same conditions a transcription that runs is on the screen,     *)
(* unless the user closed it or its upload was given up.                     *)
THEOREM TranscriptionIsShownTheorem ==
  TranscriptionSpec /\ []DeletionIsShown => [](tally.elsewhere \/ TranscriptionIsShown)
<1>1. TranscriptionInv => tally.elsewhere \/ TranscriptionIsShown
  BY DEF TranscriptionInv, ScreenInv, AllShown, TranscriptionIsShown, Status
<1> QED  BY <1>1, TranscriptionInvHolds, PTL

(* Nothing that is on its way about a closed screen is listened to.          *)
LEMMA ClosedStep ==
  ASSUME MeetingFields, Numbered, ScreenInv, phase = "idle", TranscriptionNext
  PROVE  \/ phase' \in {"idle", "opening", "uploading"}
         \/ phase' = "stopped" /\ tally'.uploads # tally.uploads
<1> DEFINE P == \/ phase' \in {"idle", "opening", "uploading"}
                \/ phase' = "stopped" /\ tally'.uploads # tally.uploads
<1> SUFFICES P
  OBVIOUS
<1> USE DEF screenVars, Sets, Shows
<1>1. CASE UploadRecording
  <2>1. tally'.uploads = tally.uploads + 1 /\ tally.uploads \in Nat
    BY <1>1 DEF UploadRecording, MeetingFields, TallyRec
  <2>2. phase' \in {"stopped", "uploading"}
    BY <1>1 DEF UploadRecording
  <2> QED  BY <2>1, <2>2
<1>2. CASE CancelUpload \/ UploadStep
  <2>1. upload.stage = "none"
    BY DEF ScreenInv, UploadWaits
  <2> QED  BY <1>2, <2>1 DEF CancelUpload, UploadStep, CreateMeeting, SendRecording, UploadIsDone,
                             UploadIsCancelled
<1>3. CASE Render \/ PollStep
  <2>1. poll.stage = "off"
    BY DEF ScreenInv, PollWaits, Ended
  <2> QED  BY <1>3, <2>1 DEF Render, PollStep, PollTranscription, PollAnswers
<1>4. ASSUME NEW c \in Cancels, CancelTranscription(c) \/ CancelStep(c)
      PROVE  P
  <2>1. cancel[c].stage # "none" => cancel[c].run # settled
    BY DEF ScreenInv, CancelsWait
  <2> QED  BY <1>4, <2>1 DEF CancelStep, CancelTranscription, ServerCancels, CancelAsksAgain, CancelAnswers,
                             SettleTranscription
<1>5. ASSUME NEW g \in Posts, PostStep(g)
      PROVE  P
  <2>1. post[g].stage # "none" => Abandoned(g)
    BY DEF ScreenInv, NotesWait, NotesShown, Ended, Abandoned
  <2> QED  BY <1>5, <2>1 DEF PostStep, ServerTakesPost, PostAnswers, PostAgain
<1>6. CASE \/ PollNotes \/ NotesPollAnswers \/ CancelNotes \/ ServerCancelsNotes \/ CancelNotesAnswers
           \/ RegenerateMeeting
  <2>1. /\ notesPoll = {"off"}
        /\ reply["cancelNotes"].stage # "none" => reply["cancelNotes"].view # viewRun
    BY DEF ScreenInv, NotesWait, NotesShown, Ended
  <2> QED  BY <1>6, <2>1 DEF PollNotes, NotesPollAnswers, CancelNotes, ServerCancelsNotes, CancelNotesAnswers,
                             RegenerateMeeting
<1>7. CASE CloseMeeting \/ ServerOpens \/ Opens \/ DeleteCurrentMeeting \/ Deletes \/ LeaveMeeting
  <2>1. /\ reply["open"].stage # "none" => reply["open"].view # viewRun
        /\ reply["delete"].stage = "none"
    BY DEF ScreenInv, RepliesWait
  <2> QED  BY <1>7, <2>1 DEF CloseMeeting, ServerOpens, Opens, DeleteCurrentMeeting, Deletes, LeaveMeeting
<1>8. ASSUME NEW m \in Meetings, Resume(m) \/ ServerStep(m) \/ OtherTabMeeting(m)
      PROVE  P
  BY <1>8 DEF ServerStep, Resume, TranscriptionEnds, NotesEnd, OtherTabMeeting
<1> QED  BY <1>1, <1>2, <1>3, <1>4, <1>5, <1>6, <1>7, <1>8 DEF TranscriptionNext

(* A closed screen stays closed until the user opens it (or another tab      *)
(* deleted the meeting), whatever was asked before and answers late, while a *)
(* deletion on its way is the one the screen shows.                          *)
THEOREM ClosedStaysClosedTheorem == TranscriptionSpec /\ []DeletionIsShown => ClosedStaysClosed
<1>1. TranscriptionInv /\ [TranscriptionNext]_transcriptionVars =>
        [phase = "idle" => \/ phase' \in {"idle", "opening", "uploading"}
                           \/ phase' = "stopped" /\ tally'.uploads # tally.uploads
                           \/ tally.elsewhere]_transcriptionVars
  BY ClosedStep DEF TranscriptionInv, transcriptionVars
<1> QED  BY <1>1, TranscriptionInvHolds, PTL DEF TranscriptionSpec, ClosedStaysClosed

=============================================================================
