------------------------------ MODULE MCClient ------------------------------
(***************************************************************************)
(* Small instances of parts of the client for TLC: the four parts of a      *)
(* meeting (live session, capture of its sound, transcription, saving of    *)
(* the notes), the session of the browser, an upload in parts, the import   *)
(* of a Notion export and the turns of the agent.  They share no state that *)
(* is modelled, so a behaviour is one of the part that is chosen at the     *)
(* start; the others stay as they were.                                    *)
(***************************************************************************)
EXTENDS LiveSession, MeetingCapture, MeetingTranscription, MeetingNotesSave,
        AuthSession, MultipartUpload, NotionImport, AgentTurn, TLC

VARIABLE subject  (* The part that is looked at.                                *)

meetingVars == <<vars, captureVars, transcriptionVars, notesVars>>
requestVars == <<authVars, uploadVars, importVars, turnVars>>
clientVars == <<meetingVars, requestVars, subject>>

(* What is not looked at has one initial state.                              *)
ClientInit ==
  /\ subject \in {"live", "capture", "transcription", "notes", "auth", "upload", "import", "turn"}
  /\ Init /\ CaptureInit /\ TranscriptionInit /\ NotesInit
  /\ AuthInit /\ UploadInit /\ ImportInit /\ TurnInit
  /\ subject # "transcription" => \A m \in Meetings : server[m].status = "none"
  /\ subject # "notes" => ~auto.enabled /\ store.taken = {}
  /\ subject # "turn" => ~setting

ClientMeetingStep ==
  \/ /\ subject = "live" /\ Next
     /\ UNCHANGED <<captureVars, transcriptionVars, notesVars>>
  \/ /\ subject = "capture" /\ CaptureNext
     /\ UNCHANGED <<vars, transcriptionVars, notesVars>>
  \/ /\ subject = "transcription" /\ TranscriptionNext
     /\ UNCHANGED <<vars, captureVars, notesVars>>
  \/ /\ subject = "notes" /\ NotesNext
     /\ UNCHANGED <<vars, captureVars, transcriptionVars>>

ClientRequestStep ==
  \/ /\ subject = "auth" /\ AuthNext
     /\ UNCHANGED <<uploadVars, importVars, turnVars>>
  \/ /\ subject = "upload" /\ UploadNext
     /\ UNCHANGED <<authVars, importVars, turnVars>>
  \/ /\ subject = "import" /\ ImportNext
     /\ UNCHANGED <<authVars, uploadVars, turnVars>>
  \/ /\ subject = "turn" /\ TurnNext
     /\ UNCHANGED <<authVars, uploadVars, importVars>>

ClientNext ==
  \/ ClientMeetingStep /\ UNCHANGED <<requestVars, subject>>
  \/ ClientRequestStep /\ UNCHANGED <<meetingVars, subject>>

ClientSpec == ClientInit /\ [][ClientNext]_clientVars

(* An export of two folders, one in the other, a PDF and two pages, one of   *)
(* them with images for two requests and a link to the other.                *)
CONSTANTS outer, inner, page1, table, pdf

PlanFolders == <<outer, inner>>
PlanDocuments == <<page1, table, pdf>>
PlanParent == (outer :> Root) @@ (inner :> outer) @@ (page1 :> inner) @@ (table :> Root) @@ (pdf :> outer)
PlanLinks == [i \in {outer, inner, page1, table, pdf} |-> IF i = page1 THEN {table} ELSE {}]
PlanContents == (outer :> 0) @@ (inner :> 0) @@ (page1 :> 2) @@ (table :> 1) @@ (pdf :> 0)

-----------------------------------------------------------------------------
(* The part that moves has its types and stays within its limits: the live   *)
(* session gives up after its attempts and commits no segment too early, an  *)
(* import runs no more writes at once than its limit.                        *)
ClientTypeOK ==
  /\ subject = "live" => TypeOK /\ GivesUp /\ SegmentsFit
  /\ subject = "capture" => CaptureTypeOK
  /\ subject = "transcription" => TranscriptionTypeOK
  /\ subject = "notes" => NotesTypeOK
  /\ subject = "auth" => AuthTypeOK
  /\ subject = "upload" => UploadTypeOK
  /\ subject = "import" => ImportTypeOK
  /\ subject = "turn" => TurnTypeOK

(* Whatever is begun comes to an end: a recording that is stopped, the       *)
(* waiting phases of the meeting screen, saving, the requests of the tabs,   *)
(* an upload, a run of an import, following a turn.  Each part is fair as it *)
(* is by itself: timers fire, requests are answered, the server ends what it *)
(* began.                                                                    *)
ClientEnds ==
  /\ subject = "live" /\ Fairness => StopEnds
  /\ subject = "transcription" /\ TranscriptionFairness => WaitingEnds
  /\ subject = "notes" /\ NotesFairness => SavingEnds
  /\ subject = "auth" /\ AuthFairness => RequestsEnd
  /\ subject = "upload" /\ UploadFairness => UploadEnds
  /\ subject = "import" /\ ImportFairness => RunEnds
  /\ subject = "turn" /\ TurnFairness => TurnEnds
=============================================================================
