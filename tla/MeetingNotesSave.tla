--------------------------- MODULE MeetingNotesSave ---------------------------
(***************************************************************************)
(* Saving the notes of a meeting (saveAsNewDocument, previewAppend and     *)
(* confirmAppend of useMeetingSession.ts, and meetingNotesSave.ts): as a   *)
(* new document under a name that is free, by hand or, when the setting    *)
(* says so, automatically, or at the end of the document of the meeting.   *)
(* The server may fail between creating the document and marking the notes *)
(* as applied, and answers get lost; a save that is repeated with its key  *)
(* is continued.                                                           *)
(***************************************************************************)
EXTENDS Integers, FiniteSets

CONSTANTS
  MaxNameAttempts,  (* MAX_NAME_ATTEMPTS.                                      *)
  MaxVersions,      (* Bounds the versions of the notes.                       *)
  MaxSaves,         (* Bounds the saves and previews the user asks for.        *)
  MaxLosses         (* Bounds the answers that are lost and the saves cut off. *)

ASSUME MeetingNotesSaveAssumption ==
  /\ MaxNameAttempts \in Nat \ {0}
  /\ MaxVersions \in Nat \ {0}
  /\ MaxSaves \in Nat
  /\ MaxLosses \in Nat

VARIABLES
  view,       (* phase, the version in notes, the revision in preview, and   *)
              (* whether a change waits to be rendered.                      *)
  auto,       (* The setting; wasGeneratingRef and autoSaveTriedRef.         *)
  attemptRef, (* saveAttemptRef: a version (0: null), its name and its key.  *)
  saver,      (* The save, preview or append in progress.                    *)
  keys,       (* Keys drawn so far.                                          *)
  store,      (* Server: newest version, applied notes, documents this       *)
              (* screen made of them, names that others use, revision of the *)
              (* target.                                                     *)
  used        (* What is bounded or counted.                                 *)

notesVars == <<view, auto, attemptRef, saver, keys, store, used>>

Versions == 1..MaxVersions
NoSave == [stage |-> "none", version |-> 0, name |-> 0, key |-> 0, sent |-> 0, base |-> 0]
NoAttempt == [version |-> 0, name |-> 0, key |-> 0]

NotesTypeOK ==
  /\ view.phase \in {"generating", "ready", "saving", "previewing", "applied", "stopped"}
  /\ view.notes \in 0..MaxVersions /\ view.pending \in BOOLEAN
  /\ auto.tried \subseteq Versions /\ auto.enabled \in BOOLEAN /\ auto.wasGenerating \in BOOLEAN
  /\ attemptRef.version \in 0..MaxVersions /\ attemptRef.key \in 0..keys
  /\ saver.stage \in {"none", "create", "created", "duplicate", "preview", "append", "failed"}
  /\ saver.sent \in 0..MaxNameAttempts
  /\ store.newest \in Versions /\ store.applied \in [Versions -> -1..keys]
  /\ \A d \in store.documents : d.version \in Versions /\ d.key \in 1..keys

(* The screen waits for notes that are being made, of a meeting whose names  *)
(* others may have taken.                                                    *)
NotesInit ==
  /\ view = [phase |-> "generating", notes |-> 0, preview |-> 0, pending |-> TRUE]
  /\ \E enabled \in BOOLEAN : auto = [enabled |-> enabled, wasGenerating |-> FALSE, tried |-> {}]
  /\ attemptRef = NoAttempt
  /\ saver = NoSave
  /\ keys = 0
  /\ \E taken \in {{}, {0}, 0..MaxNameAttempts} :
       store = [newest |-> 1, asked |-> FALSE, applied |-> [v \in Versions |-> 0], documents |-> {},
                taken |-> taken, revision |-> 0]
  /\ used = [saves |-> 0, losses |-> 0, auto |-> [v \in Versions |-> 0]]

ShowsNotes(p) == view' = [view EXCEPT !.phase = p, !.pending = TRUE]

CanLose == used.losses < MaxLosses
Lost == [used EXCEPT !.losses = @ + 1]

-----------------------------------------------------------------------------
(* Saving as a new document.                                                 *)

Attempt_New(v) == [version |-> v, name |-> 0, key |-> keys + 1]  \* Mutant: every save is a new attempt.

(* An attempt whose outcome is not known is made again as it was.            *)
Attempt(v) == IF attemptRef.version = v THEN attemptRef ELSE [version |-> v, name |-> 0, key |-> keys + 1]

SaveAsNewDocument ==
  LET attempt == Attempt(view.notes) IN
  /\ ShowsNotes("saving")
  /\ attemptRef' = attempt
  /\ keys' = IF attempt.key > keys THEN attempt.key ELSE keys
  /\ saver' = [NoSave EXCEPT !.stage = "create", !.version = attempt.version, !.name = attempt.name,
               !.key = attempt.key, !.sent = 1]

(* A render, and the effect that saves notes this screen saw being made.     *)
RenderNotes ==
  LET shouldSave == /\ auto.enabled /\ auto.wasGenerating
                    /\ view.phase = "ready" /\ view.notes # 0 /\ view.notes \notin auto.tried
  IN
  /\ view.pending
  /\ IF shouldSave
     THEN /\ auto' = [auto EXCEPT !.wasGenerating = FALSE, !.tried = @ \union {view.notes}]
          /\ used' = [used EXCEPT !.auto[view.notes] = @ + 1]
          /\ SaveAsNewDocument
     ELSE /\ auto' = [auto EXCEPT !.wasGenerating = view.phase = "generating"]
          /\ view' = [view EXCEPT !.pending = FALSE]
          /\ UNCHANGED <<attemptRef, saver, keys, used>>
  /\ UNCHANGED store

NotesUserActs(p) == view.phase = p /\ ~view.pending /\ view.notes # 0 /\ used.saves < MaxSaves
Clicked == used' = [used EXCEPT !.saves = @ + 1]

Save ==
  /\ NotesUserActs("ready")
  /\ Clicked
  /\ SaveAsNewDocument
  /\ UNCHANGED <<auto, store>>

Taken(name) == name \in store.taken \/ \E d \in store.documents : d.name = name

Refused(v, key) == store.applied[v] \notin {0, key} \/ v < store.newest

(* applyMeetingNotes(version, { mode: "create" }, key)                       *)
ServerCreates ==
  LET v == saver.version
      made == store.documents \union {[version |-> v, key |-> saver.key, name |-> saver.name]}
      known == store.applied[v] = saver.key \/ \E d \in store.documents : d.key = saver.key
  IN
  /\ saver.stage = "create"
  /\ \/ /\ Refused(v, saver.key)
        /\ saver' = [saver EXCEPT !.stage = "failed"]
        /\ UNCHANGED <<store, used>>
     \/ /\ ~Refused(v, saver.key) /\ ~known /\ Taken(saver.name)
        /\ saver' = [saver EXCEPT !.stage = "duplicate"]
        /\ UNCHANGED <<store, used>>
     \/ /\ ~Refused(v, saver.key) /\ (known \/ ~Taken(saver.name))
        /\ \/ /\ store' = [store EXCEPT !.documents = IF known THEN @ ELSE made, !.applied[v] = saver.key]
              /\ \/ saver' = [saver EXCEPT !.stage = "created"] /\ UNCHANGED used
                 \/ CanLose /\ used' = Lost /\ saver' = [saver EXCEPT !.stage = "failed"]
           \/ /\ CanLose
              /\ used' = Lost
              /\ store' \in {store, [store EXCEPT !.documents = IF known THEN @ ELSE made]}
              /\ saver' = [saver EXCEPT !.stage = "failed"]
  /\ UNCHANGED <<view, auto, attemptRef, keys>>

(* finishSave                                                                *)
FinishSave ==
  /\ view' = [view EXCEPT !.phase = "applied", !.preview = 0, !.pending = TRUE]
  /\ saver' = NoSave

Created ==
  /\ saver.stage = "created"
  /\ FinishSave
  /\ UNCHANGED <<auto, attemptRef, keys, store, used>>

SaveGivesUp(sent) == sent >= MaxNameAttempts

(* DUPLICATE_NAME: the next name, which is another request.                  *)
TriesNextName ==
  LET next == [version |-> saver.version, name |-> saver.name + 1, key |-> keys + 1] IN
  /\ saver.stage = "duplicate"
  /\ keys' = keys + 1
  /\ attemptRef' = next
  /\ saver' = IF SaveGivesUp(saver.sent) THEN [saver EXCEPT !.stage = "failed"]
              ELSE [saver EXCEPT !.stage = "create", !.name = next.name, !.key = next.key, !.sent = @ + 1]
  /\ UNCHANGED <<view, auto, store, used>>

IsSaved_Unknown == TRUE  \* Mutant: what is not known counts as saved.

(* findAppliedNotes, when the server answers.                                *)
IsSaved == store.applied[store.newest] # 0

(* handleSaveFailure                                                         *)
HandleSaveFailure ==
  /\ saver.stage = "failed"
  /\ \/ IsSaved /\ FinishSave /\ UNCHANGED used
     \/ /\ IF IsSaved THEN CanLose /\ used' = Lost ELSE UNCHANGED used
        /\ view' = [view EXCEPT !.phase = "ready", !.preview = 0, !.pending = TRUE]
        /\ saver' = NoSave
  /\ UNCHANGED <<auto, attemptRef, keys, store>>

-----------------------------------------------------------------------------
(* Adding the notes to the end of a document.                                *)

PreviewAppend ==
  /\ NotesUserActs("ready")
  /\ Clicked
  /\ ShowsNotes("saving")
  /\ saver' = [NoSave EXCEPT !.stage = "preview", !.version = view.notes]
  /\ UNCHANGED <<auto, attemptRef, keys, store>>

Previewed ==
  /\ saver.stage = "preview"
  /\ \/ /\ ~Refused(saver.version, 0)
        /\ view' = [view EXCEPT !.phase = "previewing", !.preview = store.revision, !.pending = TRUE]
        /\ saver' = NoSave
        /\ UNCHANGED used
     \/ /\ IF Refused(saver.version, 0) THEN UNCHANGED used ELSE CanLose /\ used' = Lost
        /\ saver' = [saver EXCEPT !.stage = "failed"]
        /\ UNCHANGED view
  /\ UNCHANGED <<auto, attemptRef, keys, store>>

ConfirmAppend ==
  /\ view.phase = "previewing" /\ ~view.pending
  /\ ShowsNotes("saving")
  /\ saver' = [NoSave EXCEPT !.stage = "append", !.version = view.notes, !.base = view.preview]
  /\ UNCHANGED <<auto, attemptRef, keys, store, used>>

ServerAppends ==
  LET refused == Refused(saver.version, 0) \/ saver.base # store.revision IN
  /\ saver.stage = "append"
  /\ \/ /\ ~refused
        /\ store' = [store EXCEPT !.applied[saver.version] = -1, !.revision = @ + 1]
        /\ \/ FinishSave /\ UNCHANGED used
           \/ CanLose /\ used' = Lost /\ saver' = [saver EXCEPT !.stage = "failed"] /\ UNCHANGED view
     \/ /\ IF refused THEN UNCHANGED used ELSE CanLose /\ used' = Lost
        /\ saver' = [saver EXCEPT !.stage = "failed"]
        /\ UNCHANGED <<view, store>>
  /\ UNCHANGED <<auto, attemptRef, keys>>

CancelPreview ==
  /\ view.phase = "previewing" /\ ~view.pending
  /\ view' = [view EXCEPT !.phase = "ready", !.preview = 0, !.pending = TRUE]
  /\ UNCHANGED <<auto, attemptRef, saver, keys, store, used>>

-----------------------------------------------------------------------------
(* Another version, the setting, and other tabs.                             *)

NewVersion ==
  /\ view.phase \in {"ready", "stopped"} /\ ~view.pending
  /\ ~store.asked
  /\ store.newest < MaxVersions
  /\ store' = [store EXCEPT !.asked = TRUE]
  /\ ShowsNotes("generating")
  /\ UNCHANGED <<auto, attemptRef, saver, keys, used>>

ServerGenerates ==
  /\ store.asked
  /\ store' = [store EXCEPT !.asked = FALSE, !.newest = @ + 1]
  /\ UNCHANGED <<view, auto, attemptRef, saver, keys, used>>

(* What the poll brings; the version before, when it overtook the request.   *)
NotesArrive ==
  /\ view.phase = "generating" /\ ~view.pending
  /\ \/ view' = [view EXCEPT !.phase = "stopped", !.pending = TRUE]
     \/ view' = [view EXCEPT !.phase = IF store.applied[store.newest] # 0 THEN "applied" ELSE "ready",
                 !.notes = store.newest, !.pending = TRUE]
  /\ UNCHANGED <<auto, attemptRef, saver, keys, store, used>>

(* The preferences arrive, or the user changes them.                         *)
Enable ==
  /\ ~auto.enabled
  /\ auto' = [auto EXCEPT !.enabled = TRUE]
  /\ view' = [view EXCEPT !.pending = TRUE]
  /\ UNCHANGED <<attemptRef, saver, keys, store, used>>

(* Others edit the target, or a tab with a key of its own saves the notes:   *)
(* at the end of the target, or as a new document, of which the notes are    *)
(* marked unless that save is cut off.                                       *)
SavedElsewhere(name) ==
  /\ store.applied[store.newest] = 0 /\ ~Taken(name)
  /\ store' \in {[store EXCEPT !.taken = @ \union {name}],
                 [store EXCEPT !.taken = @ \union {name}, !.applied[store.newest] = -1]}

NotesElsewhere ==
  /\ CanLose
  /\ used' = Lost
  /\ \/ store' = [store EXCEPT !.revision = @ + 1]
     \/ /\ store.applied[store.newest] = 0
        /\ store' = [store EXCEPT !.applied[store.newest] = -1, !.revision = @ + 1]
     \/ \E name \in 0..MaxNameAttempts : SavedElsewhere(name)
  /\ UNCHANGED <<view, auto, attemptRef, saver, keys>>

-----------------------------------------------------------------------------

SaveStep == ServerCreates \/ Created \/ TriesNextName \/ HandleSaveFailure \/ Previewed \/ ServerAppends

NotesNext ==
  \/ RenderNotes \/ Save \/ SaveStep
  \/ PreviewAppend \/ ConfirmAppend \/ CancelPreview
  \/ NewVersion \/ ServerGenerates \/ NotesArrive \/ Enable \/ NotesElsewhere

NotesSpec == NotesInit /\ [][NotesNext]_notesVars

(* The browser renders, and every request is answered or given up.           *)
NotesFairness == WF_notesVars(RenderNotes) /\ WF_notesVars(SaveStep)

-----------------------------------------------------------------------------

(* Whatever was lost, and however often the user tried again, this screen    *)
(* makes one document of a version of the notes at most (saveAttemptRef,     *)
(* :531), and the setting tries it once, also when a poll brings it again    *)
(* (autoSaveTriedRef).  Another tab has a key of its own and may make        *)
(* another document.                                                         *)
OneDocument ==
  \A v \in Versions : /\ Cardinality({d \in store.documents : d.version = v}) <= 1
                      /\ used.auto[v] <= 1

(* Notes the screen shows as saved are saved, also when a failure turned out *)
(* to be a success (findAppliedNotes).                                       *)
AppliedIsTrue == view.phase = "applied" => \E v \in Versions : store.applied[v] # 0 /\ v >= view.notes

(* Both: a failure whose outcome is unknown neither makes a second document  *)
(* nor is taken for a success.                                               *)
NotesAreSavedOnce == OneDocument /\ AppliedIsTrue

(* A save comes to an end, saved or back at the buttons.                     *)
SavingEnds == view.phase = "saving" ~> view.phase # "saving"

=============================================================================
