------------------------- MODULE MeetingTranscription -------------------------
(***************************************************************************)
(* The meeting screen from a recording file to its notes                   *)
(* (features/meeting-dictation/model/useMeetingSession.ts): the file is    *)
(* uploaded, the screen polls the meeting until its transcription ends,    *)
(* asks for notes and polls them.  The user may cancel, close the screen,  *)
(* delete the meeting or open it again at any time, and answers arrive     *)
(* late.  Effects follow the phase at the next render; what the user does  *)
(* is rendered at once, what an answer changes a moment later (Render).    *)
(* Saving the notes is in MeetingNotesSave.                                *)
(***************************************************************************)
EXTENDS Integers, FiniteSets

CONSTANTS
  Cancels,         (* Calls of cancelTranscription (a button clicked twice).   *)
  Posts,           (* Calls of generateNotes.                                  *)
  MaxMeetings,     (* Bounds the meetings that are created.                    *)
  MaxUploads,      (* Bounds the files that are picked.                        *)
  MaxViews,        (* Bounds viewRunRef: the screens that are opened or closed. *)
  MaxPosts,        (* Bounds the requests for notes, and their cancellations.  *)
  LiveRetries,     (* LIVE_RELEASE_RETRIES.                                    *)
  MaxTrouble,      (* Bounds the requests that fail or whose answer is lost.   *)
  PromptAnswers    (* Requests about notes are answered before the next poll   *)
                   (* and the next click, other than to close the screen.      *)

ASSUME MeetingTranscriptionAssumption ==
  /\ {MaxMeetings, MaxUploads, MaxViews, MaxPosts, MaxTrouble, LiveRetries} \subseteq Nat
  /\ MaxMeetings > 0
  /\ PromptAnswers \in BOOLEAN

VARIABLES
  mount,     (* isMountedRef.                                                *)
  phase,     (* phase, as last set.                                          *)
  meeting,   (* meeting: its number (0: null) and the status it was seen in. *)
  pending,   (* What an answer changed is not rendered yet.                  *)
  viewRun,   (* viewRunRef.                                                  *)
  settled,   (* transcriptionRunRef.                                         *)
  upload,    (* uploadRecording.                                             *)
  poll,      (* The poll of the transcription, if the effect runs.           *)
  notesPoll, (* The answers to polls of the notes on their way; or "off".    *)
  cancel,    (* cancelTranscription.                                         *)
  post,      (* generateNotes.                                               *)
  reply,     (* resume, deleteCurrentMeeting and cancelNotes.                *)
  server,    (* Status and notes of each meeting.                            *)
  tally      (* What is counted, and what the properties remember.           *)

transcriptionVars == <<mount, phase, meeting, pending, viewRun, settled, upload, poll, notesPoll,
                       cancel, post, reply, server, tally>>
screenVars == <<phase, meeting, pending, viewRun, settled>>
effectVars == <<poll, notesPoll>>
callVars == <<upload, cancel, post, reply>>

Meetings == 1..MaxMeetings
Statuses == {"none", "awaiting_upload", "transcribing", "open", "empty", "failed", "gone"}
NotesStatuses == {"none", "generating", "ready", "failed", "applied"}
Phases == {"idle", "uploading", "transcribing", "stopped", "generating", "ready", "applied",
           "deleting", "opening"}

NoMeeting == [id |-> 0, status |-> "none"]
NoUpload == [stage |-> "none", id |-> 0, reusable |-> FALSE, aborted |-> FALSE]
NoPoll == [stage |-> "off", id |-> 0, run |-> 0, seen |-> "none"]
NoCancel == [stage |-> "none", id |-> 0, run |-> 0, seen |-> "none"]
NoPost == [stage |-> "none", id |-> 0, view |-> 0, attempt |-> 0, seen |-> "none"]
NoReply == [stage |-> "none", id |-> 0, view |-> 0, seen |-> "none", notes |-> "none", before |-> "idle"]
Replies == {"open", "delete", "cancelNotes"}

TranscriptionTypeOK ==
  /\ mount \in BOOLEAN /\ pending \in BOOLEAN
  /\ phase \in Phases
  /\ meeting \in [id : 0..MaxMeetings, status : Statuses]
  /\ viewRun \in Nat /\ settled \in Nat
  /\ upload.stage \in {"none", "creating", "sending", "completed", "undone"}
  /\ poll.stage \in {"off", "waiting", "answered", "done"} /\ poll.seen \in Statuses \union {"error"}
  /\ notesPoll \subseteq NotesStatuses \union {"off"}
  /\ \A c \in Cancels : cancel[c].stage \in {"none", "sent", "answered", "asks", "told"}
  /\ \A g \in Posts : post[g].stage \in {"none", "sent", "answered", "waits"}
  /\ \A r \in Replies : reply[r].stage \in {"none", "sent", "half", "answered"}
  /\ server \in [Meetings -> [status : Statuses, notes : NotesStatuses]]

(* The list may hold a meeting from before.                                  *)
TranscriptionInit ==
  /\ mount = TRUE
  /\ phase = "idle"
  /\ meeting = NoMeeting
  /\ pending = FALSE
  /\ viewRun = 0
  /\ settled = 0
  /\ upload = NoUpload
  /\ poll = NoPoll
  /\ notesPoll = {"off"}
  /\ cancel = [c \in Cancels |-> NoCancel]
  /\ post = [g \in Posts |-> NoPost]
  /\ reply = [r \in Replies |-> NoReply]
  /\ \E listed \in {"none", "awaiting_upload", "transcribing", "failed", "open"} :
       server = [m \in Meetings |-> [status |-> IF m = 1 THEN listed ELSE "none", notes |-> "none"]]
  /\ tally = [uploads |-> 0, posts |-> 0, stops |-> 0, trouble |-> 0, asked |-> [m \in Meetings |-> 0],
              unseen |-> {1}, elsewhere |-> FALSE]

-----------------------------------------------------------------------------
(* The screen.                                                               *)

(* The effects of a phase: one polls the transcription, one the notes.       *)
Effects(p, m, run) ==
  /\ poll' = IF p = "transcribing" /\ m.id # 0 THEN [NoPoll EXCEPT !.stage = "waiting", !.id = m.id, !.run = run]
             ELSE NoPoll
  /\ notesPoll' = IF p = "generating" /\ m.id # 0 THEN {} ELSE {"off"}

(* The user changes the screen: rendered before anything else happens.       *)
Shows(p, m) ==
  /\ phase' = p
  /\ meeting' = m
  /\ pending' = FALSE
  /\ Effects(p, m, settled')

(* An answer changes the screen, at the next render.                         *)
Sets(p, m) ==
  /\ phase' = p
  /\ meeting' = m
  /\ pending' = TRUE

Render ==
  /\ pending
  /\ pending' = FALSE
  /\ Effects(phase, meeting, settled)
  /\ UNCHANGED <<mount, phase, meeting, viewRun, settled, server, tally>> /\ UNCHANGED callVars

UserActs == mount /\ ~pending

MeetingTrouble == tally.trouble < MaxTrouble
Spent == [tally EXCEPT !.trouble = @ + 1]

Counted(t) == [t EXCEPT !.posts = @ + 1]

(* generateNotes(target) up to its first await.                              *)
GenerateNotes(m, t) ==
  \E g \in Posts :
    /\ post[g].stage = "none"
    /\ t.posts < MaxPosts
    /\ post' = [post EXCEPT ![g] = [NoPost EXCEPT !.stage = "sent", !.id = m.id, !.view = viewRun]]
    /\ tally' = Counted(t)

(* applyRecordingMeeting(target)                                             *)
ApplyRecordingMeeting(id, status) ==
  LET m == [id |-> id, status |-> status]
      asked == [tally EXCEPT !.asked[id] = @ + 1]
  IN
  IF status = "open" THEN Sets("generating", m) /\ GenerateNotes(m, asked)
  ELSE /\ Sets(IF status = "transcribing" THEN "transcribing" ELSE "stopped", m)
       /\ UNCHANGED <<post, tally>>

SettleTranscription_Always(run, id, status) ==  \* Mutant: forgets that the end was shown.
  settled' = settled + 1 /\ ApplyRecordingMeeting(id, status) /\ UNCHANGED viewRun

SettleTranscription(run, id, status) ==
  IF settled # run THEN UNCHANGED screenVars /\ UNCHANGED <<post, tally>>
  ELSE settled' = settled + 1 /\ ApplyRecordingMeeting(id, status) /\ UNCHANGED viewRun

-----------------------------------------------------------------------------
(* Uploading a recording file.                                               *)

AcceptsRecording == meeting.id # 0 /\ meeting.status \in {"awaiting_upload", "failed"}

UploadRecording ==
  LET reusable == phase = "stopped" /\ AcceptsRecording
      startsFresh == phase = "idle" \/ (phase = "stopped" /\ meeting.id = 0)
      m == IF reusable THEN meeting ELSE NoMeeting
  IN
  /\ UserActs
  /\ reusable \/ startsFresh
  /\ tally.uploads < MaxUploads
  /\ tally' = [tally EXCEPT !.uploads = @ + 1]
  /\ \/ Shows("stopped", m) /\ UNCHANGED upload  \* checkRecordingFile refuses the file.
     \/ /\ Shows("uploading", m)
        /\ upload' = [stage |-> IF reusable THEN "sending" ELSE "creating", id |-> m.id,
                      reusable |-> reusable, aborted |-> FALSE]
  /\ UNCHANGED <<mount, viewRun, settled, cancel, post, reply, server>>

CancelUpload ==
  /\ UserActs
  /\ phase = "uploading"
  /\ upload' = [upload EXCEPT !.aborted = TRUE]
  /\ UNCHANGED <<mount, cancel, post, reply, server, tally>> /\ UNCHANGED screenVars /\ UNCHANGED effectVars

(* The catch of uploadRecording: shown at once, or, when the user cancelled, *)
(* once the meeting that was made for the file is deleted.                   *)
UploadFailed(id) ==
  IF upload.aborted
  THEN /\ upload' = [upload EXCEPT !.stage = "undone", !.id = id]
       /\ UNCHANGED screenVars
  ELSE /\ upload' = NoUpload
       /\ Sets("stopped", meeting)
       /\ UNCHANGED <<viewRun, settled>>

CreateMeeting ==
  /\ upload.stage = "creating"
  /\ \/ \E m \in Meetings :
          /\ server[m].status = "none"
          /\ \A k \in Meetings : server[k].status = "none" => m <= k
          /\ server' = [server EXCEPT ![m].status = "awaiting_upload"]
          /\ upload' = [upload EXCEPT !.stage = "sending", !.id = m]
          /\ Sets(phase, [id |-> m, status |-> "awaiting_upload"])
          /\ UNCHANGED <<viewRun, settled, tally>>
     \/ /\ \/ MeetingTrouble /\ tally' = Spent
           \/ (\A m \in Meetings : server[m].status # "none") /\ UNCHANGED tally
        /\ UploadFailed(0)
        /\ UNCHANGED server
  /\ UNCHANGED <<mount, cancel, post, reply>> /\ UNCHANGED effectVars

(* uploadDirectMultipart, until "complete" reached the server.  The last try *)
(* of "complete" may lose its answer.                                        *)
SendRecording ==
  /\ upload.stage = "sending"
  /\ \/ /\ server[upload.id].status \in {"awaiting_upload", "failed"}
        /\ server' = [server EXCEPT ![upload.id].status = "transcribing"]
        /\ \/ /\ upload' = [upload EXCEPT !.stage = "completed"]
              /\ tally' = [tally EXCEPT !.asked[upload.id] = 0, !.unseen = @ \ {upload.id}]
              /\ UNCHANGED screenVars
           \/ /\ MeetingTrouble
              /\ tally' = [Spent EXCEPT !.asked[upload.id] = 0, !.unseen = @ \union {upload.id}]
              /\ UploadFailed(upload.id)
     \/ /\ \/ /\ upload.aborted \/ server[upload.id].status \notin {"awaiting_upload", "failed"}
              /\ UNCHANGED tally
           \/ MeetingTrouble /\ tally' = Spent
        /\ UploadFailed(upload.id)
        /\ UNCHANGED server
  /\ UNCHANGED <<mount, cancel, post, reply>> /\ UNCHANGED effectVars

UndoFails_Hides ==  \* Mutant: the upload counts as cancelled, whatever became of the transcription.
  /\ upload' = [upload EXCEPT !.stage = "undone"]
  /\ UNCHANGED <<post, tally>> /\ UNCHANGED screenVars

(* The cancellation came after the transcription began, and failed too.      *)
UndoFails ==
  /\ upload' = NoUpload
  /\ ApplyRecordingMeeting(upload.id, "transcribing")
  /\ UNCHANGED <<viewRun, settled>>

UploadIsDone ==
  /\ upload.stage = "completed"
  /\ IF ~upload.aborted
     THEN /\ upload' = NoUpload
          /\ ApplyRecordingMeeting(upload.id, "transcribing")
          /\ UNCHANGED <<viewRun, settled, server>>
     ELSE \/ /\ server[upload.id].status = "transcribing"
             /\ server' = [server EXCEPT ![upload.id].status = "failed"]
             /\ upload' = [upload EXCEPT !.stage = "undone"]
             /\ UNCHANGED <<post, tally>> /\ UNCHANGED screenVars
          \/ UndoFails /\ UNCHANGED server
  /\ UNCHANGED <<mount, cancel, reply>> /\ UNCHANGED effectVars

(* deleteMeeting, whose failure is ignored, and the end of uploadRecording.  *)
UploadIsCancelled ==
  /\ upload.stage = "undone"
  /\ upload' = NoUpload
  /\ \/ UNCHANGED server
     \/ /\ ~upload.reusable
        /\ upload.id # 0
        /\ server[upload.id].status # "transcribing"
        /\ server' = [server EXCEPT ![upload.id].status = "gone"]
  /\ Sets("stopped", IF upload.reusable THEN meeting ELSE NoMeeting)
  /\ UNCHANGED <<mount, viewRun, settled, cancel, post, reply, tally>> /\ UNCHANGED effectVars

-----------------------------------------------------------------------------
(* Waiting for the transcription: startSerialPolling and cancelTranscription. *)

PollTranscription ==
  /\ poll.stage = "waiting"
  /\ \/ /\ poll' = [poll EXCEPT !.stage = "answered", !.seen = server[poll.id].status]
        /\ UNCHANGED tally
     \/ MeetingTrouble /\ tally' = Spent /\ poll' = [poll EXCEPT !.stage = "answered", !.seen = "error"]
  /\ UNCHANGED <<mount, notesPoll, server>> /\ UNCHANGED screenVars /\ UNCHANGED callVars

PollAnswers ==
  /\ poll.stage = "answered"
  /\ \/ /\ poll.seen \in {"transcribing", "error"}
        /\ poll' = [poll EXCEPT !.stage = "waiting", !.seen = "none"]
        /\ UNCHANGED screenVars /\ UNCHANGED <<post, tally>>
     \/ /\ poll.seen = "gone"
        /\ poll' = [poll EXCEPT !.stage = "done"]
        /\ Sets("stopped", NoMeeting)
        /\ UNCHANGED <<viewRun, settled, post, tally>>
     \/ /\ poll.seen \notin {"transcribing", "error", "gone"}
        /\ poll' = [poll EXCEPT !.stage = "done"]
        /\ SettleTranscription(poll.run, poll.id, poll.seen)
  /\ UNCHANGED <<mount, notesPoll, upload, cancel, reply, server>>

CancelTranscription(c) ==
  /\ UserActs
  /\ phase = "transcribing"
  /\ meeting.id # 0
  /\ cancel[c].stage = "none"
  /\ cancel' = [cancel EXCEPT ![c] = [NoCancel EXCEPT !.stage = "sent", !.id = meeting.id, !.run = settled]]
  /\ UNCHANGED <<mount, upload, post, reply, server, tally>> /\ UNCHANGED screenVars /\ UNCHANGED effectVars

ServerCancels(c) ==
  LET m == cancel[c].id IN
  /\ cancel[c].stage = "sent"
  /\ \/ /\ server[m].status = "transcribing"
        /\ server' = [server EXCEPT ![m].status = "failed"]
        /\ cancel' = [cancel EXCEPT ![c].stage = "answered", ![c].seen = "failed"]
        /\ UNCHANGED tally
     \/ /\ server[m].status # "transcribing"
        /\ cancel' = [cancel EXCEPT ![c] = IF server[m].status = "gone" THEN NoCancel ELSE [@ EXCEPT !.stage = "asks"]]
        /\ UNCHANGED <<server, tally>>
     \/ /\ MeetingTrouble
        /\ tally' = Spent
        /\ cancel' = [cancel EXCEPT ![c] = NoCancel]
        /\ server' \in {server, [server EXCEPT ![m].status = IF @ = "transcribing" THEN "failed" ELSE @]}
  /\ UNCHANGED <<mount, upload, post, reply>> /\ UNCHANGED screenVars /\ UNCHANGED effectVars

(* 409 MEETING_NOT_TRANSCRIBING: what became of the transcription?           *)
CancelAsksAgain(c) ==
  /\ cancel[c].stage = "asks"
  /\ LET seen == server[cancel[c].id].status IN
     cancel' = [cancel EXCEPT ![c] = IF seen = "gone" THEN NoCancel ELSE [@ EXCEPT !.stage = "told", !.seen = seen]]
  /\ UNCHANGED <<mount, upload, post, reply, server, tally>> /\ UNCHANGED screenVars /\ UNCHANGED effectVars

CancelAnswers(c) ==
  /\ cancel[c].stage \in {"answered", "told"}
  /\ cancel' = [cancel EXCEPT ![c] = NoCancel]
  /\ SettleTranscription(cancel[c].run, cancel[c].id, cancel[c].seen)
  /\ UNCHANGED <<mount, upload, reply, server>> /\ UNCHANGED effectVars

-----------------------------------------------------------------------------
(* Waiting for the notes: generateNotes, the poll of the notes, cancelNotes. *)

Abandoned(g) == post[g].view # viewRun

AwaitsNotes ==
  \/ \E g \in Posts : post[g].stage \in {"sent", "answered"} /\ ~Abandoned(g)
  \/ reply["cancelNotes"].stage # "none" /\ reply["cancelNotes"].view = viewRun

(* MEETING_LIVE_IN_USE is trouble that is tried again.                       *)
ServerTakesPost(g) ==
  LET m == post[g].id IN
  /\ post[g].stage = "sent"
  /\ \/ /\ server[m].status = "open" /\ server[m].notes # "generating"
        /\ \E seen \in {"generating", "ready", "failed"} :
             /\ server' = [server EXCEPT ![m].notes = seen]
             /\ post' = [post EXCEPT ![g].stage = "answered", ![g].seen = seen]
        /\ UNCHANGED tally
     \/ /\ server[m].status # "open" \/ server[m].notes = "generating"
        /\ post' = [post EXCEPT ![g].stage = "answered", ![g].seen = "refused"]
        /\ UNCHANGED <<server, tally>>
     \/ /\ MeetingTrouble
        /\ tally' = Spent
        /\ \/ /\ server[m].notes = "none"
              /\ post' = [post EXCEPT ![g].stage = "answered", ![g].seen = "in_use"]
              /\ UNCHANGED server
           \/ /\ post' = [post EXCEPT ![g].stage = "answered", ![g].seen = "refused"]
              /\ server' \in {server, [server EXCEPT ![m].notes = IF server[m].status = "open" THEN "generating" ELSE @]}
  /\ UNCHANGED <<mount, upload, cancel, reply>> /\ UNCHANGED screenVars /\ UNCHANGED effectVars

PostAnswers(g) ==
  LET seen == post[g].seen
      again == seen = "in_use" /\ post[g].attempt < LiveRetries
  IN
  /\ post[g].stage = "answered"
  /\ post' = [post EXCEPT ![g] = IF again /\ ~Abandoned(g) THEN [@ EXCEPT !.stage = "waits"] ELSE NoPost]
  /\ IF Abandoned(g) \/ again \/ seen = "generating" THEN UNCHANGED screenVars
     ELSE Sets(IF seen = "ready" THEN "ready" ELSE "stopped", meeting) /\ UNCHANGED <<viewRun, settled>>
  /\ UNCHANGED <<mount, upload, cancel, reply, server, tally>> /\ UNCHANGED effectVars

PostAgain(g) ==
  /\ post[g].stage = "waits"
  /\ post' = [post EXCEPT ![g] = IF Abandoned(g) THEN NoPost ELSE [@ EXCEPT !.stage = "sent", !.attempt = post[g].attempt + 1]]
  /\ UNCHANGED <<mount, upload, cancel, reply, server, tally>> /\ UNCHANGED screenVars /\ UNCHANGED effectVars

(* One of the polls that overlap asks the server.  "generating" and errors   *)
(* change nothing when they arrive, and are left out.                        *)
PollNotes ==
  /\ notesPoll # {"off"}
  /\ ~pending
  /\ PromptAnswers => ~AwaitsNotes
  /\ server[meeting.id].notes \in {"ready", "failed", "applied"}
  /\ notesPoll' = notesPoll \union {server[meeting.id].notes}
  /\ UNCHANGED <<mount, poll, server, tally>> /\ UNCHANGED screenVars /\ UNCHANGED callVars

NotesPollAnswers ==
  /\ \E seen \in notesPoll \ {"off"} :
       /\ notesPoll' = notesPoll \ {seen}
       /\ Sets(IF seen = "failed" THEN "stopped" ELSE seen, meeting)
  /\ UNCHANGED <<mount, viewRun, settled, poll, server, tally>> /\ UNCHANGED callVars

CancelNotes ==
  /\ UserActs
  /\ phase = "generating" /\ meeting.id # 0
  /\ reply["cancelNotes"].stage = "none"
  /\ tally.stops < MaxPosts
  /\ tally' = [tally EXCEPT !.stops = @ + 1]
  /\ reply' = [reply EXCEPT !["cancelNotes"] = [NoReply EXCEPT !.stage = "sent", !.id = meeting.id, !.view = viewRun]]
  /\ UNCHANGED <<mount, upload, cancel, post, server>> /\ UNCHANGED screenVars /\ UNCHANGED effectVars

ServerCancelsNotes ==
  LET r == reply["cancelNotes"] IN
  /\ r.stage = "sent"
  /\ IF server[r.id].notes = "generating"
     THEN /\ server' = [server EXCEPT ![r.id].notes = "failed"]
          /\ reply' = [reply EXCEPT !["cancelNotes"].stage = "answered"]
     ELSE reply' = [reply EXCEPT !["cancelNotes"] = NoReply] /\ UNCHANGED server
  /\ UNCHANGED <<mount, upload, cancel, post, tally>> /\ UNCHANGED screenVars /\ UNCHANGED effectVars

CancelNotesAnswers ==
  /\ reply["cancelNotes"].stage = "answered"
  /\ reply' = [reply EXCEPT !["cancelNotes"] = NoReply]
  /\ IF reply["cancelNotes"].view = viewRun
     THEN Sets("stopped", meeting) /\ UNCHANGED <<viewRun, settled>>
     ELSE UNCHANGED screenVars
  /\ UNCHANGED <<mount, upload, cancel, post, server, tally>> /\ UNCHANGED effectVars

(* The screen offers it for a meeting with a transcript.                     *)
RegenerateMeeting ==
  /\ UserActs
  /\ PromptAnswers => ~AwaitsNotes
  /\ phase \in {"ready", "stopped"} /\ meeting.status = "open"
  /\ Shows("generating", meeting)
  /\ GenerateNotes(meeting, tally)
  /\ UNCHANGED <<mount, viewRun, settled, upload, cancel, reply, server>>

-----------------------------------------------------------------------------
(* Closing, opening and deleting.                                            *)

NextView_Same == UNCHANGED viewRun  \* Mutant: closing does not abandon what is on its way.

NextView == viewRun' = viewRun + 1

BusyPhases == {"uploading", "deleting"}

CloseMeeting ==
  /\ UserActs
  /\ phase \notin BusyPhases \union {"idle"}
  /\ viewRun < MaxViews
  /\ NextView
  /\ settled' = settled + 1
  /\ Shows("idle", NoMeeting)
  /\ tally' = [tally EXCEPT !.unseen = @ \union ({meeting.id} \ {0})]
  /\ UNCHANGED <<mount, server>> /\ UNCHANGED callVars

Resume(m) ==
  /\ UserActs
  /\ phase = "idle"
  /\ server[m].status # "none"
  /\ viewRun < MaxViews
  /\ reply["open"].stage = "none"
  /\ viewRun' = viewRun + 1
  /\ UNCHANGED settled
  /\ Shows("opening", NoMeeting)
  /\ reply' = [reply EXCEPT !["open"] = [NoReply EXCEPT !.stage = "sent", !.id = m, !.view = viewRun + 1]]
  /\ UNCHANGED <<mount, upload, cancel, post, server, tally>>

(* fetchMeeting, then fetchMeetingNotes of a meeting that may have notes.    *)
ServerOpens ==
  LET r == reply["open"] IN
  /\ r.stage \in {"sent", "half"}
  /\ \/ /\ r.stage = "sent"
        /\ LET seen == server[r.id].status IN
           reply' = [reply EXCEPT !["open"].stage = IF seen = "open" THEN "half" ELSE "answered", !["open"].seen = seen]
        /\ UNCHANGED tally
     \/ /\ r.stage = "half"
        /\ reply' = [reply EXCEPT !["open"].stage = "answered", !["open"].notes = server[r.id].notes]
        /\ UNCHANGED tally
     \/ /\ MeetingTrouble
        /\ tally' = Spent
        /\ reply' = [reply EXCEPT !["open"].stage = "answered", !["open"].seen = "gone"]
  /\ UNCHANGED <<mount, upload, cancel, post, server>> /\ UNCHANGED screenVars /\ UNCHANGED effectVars

(* resumedMeetingView                                                        *)
ResumedPhase(status, notes) ==
  CASE status = "transcribing" -> "transcribing"
    [] status = "open" /\ notes \in {"generating", "ready", "applied"} -> notes
    [] OTHER -> "stopped"

Opens ==
  LET r == reply["open"] IN
  /\ r.stage = "answered"
  /\ reply' = [reply EXCEPT !["open"] = NoReply]
  /\ IF r.view # viewRun THEN UNCHANGED <<phase, meeting, pending>>
     ELSE IF r.seen = "gone" THEN Sets("idle", meeting)
     ELSE Sets(ResumedPhase(r.seen, r.notes), [id |-> r.id, status |-> r.seen])
  /\ UNCHANGED <<mount, viewRun, settled, upload, cancel, post, server, tally>> /\ UNCHANGED effectVars

DeleteCurrentMeeting ==
  /\ UserActs
  /\ PromptAnswers => ~AwaitsNotes
  /\ phase \in {"stopped", "ready", "applied"} /\ meeting.id # 0
  /\ reply["delete"].stage = "none"
  /\ viewRun < MaxViews
  /\ UNCHANGED settled
  /\ Shows("deleting", meeting)
  /\ reply' = [reply EXCEPT !["delete"] = [NoReply EXCEPT !.stage = "sent", !.id = meeting.id, !.before = phase]]
  /\ UNCHANGED <<mount, viewRun, upload, cancel, post, server, tally>>

(* A meeting that is gone already counts as deleted.  The server refuses one *)
(* that is being transcribed.                                                *)
Deletes ==
  LET r == reply["delete"] IN
  /\ r.stage = "sent"
  /\ reply' = [reply EXCEPT !["delete"] = NoReply]
  /\ \/ /\ server[r.id].status # "transcribing"
        /\ server' = [server EXCEPT ![r.id] = [status |-> "gone", notes |-> "none"]]
        /\ NextView
        /\ settled' = settled + 1
        /\ Sets("idle", NoMeeting)
        /\ UNCHANGED tally
     \/ /\ \/ server[r.id].status = "transcribing" /\ UNCHANGED tally
           \/ MeetingTrouble /\ tally' = Spent
        /\ Sets(r.before, meeting)
        /\ UNCHANGED <<viewRun, settled, server>>
  /\ UNCHANGED <<mount, upload, cancel, post>> /\ UNCHANGED effectVars

(* The screen is left: the upload is broken off, and what arrives later is   *)
(* dropped.                                                                  *)
LeaveMeeting ==
  /\ UserActs
  /\ mount' = FALSE
  /\ upload' = NoUpload
  /\ poll' = NoPoll
  /\ notesPoll' = {"off"}
  /\ cancel' = [c \in Cancels |-> NoCancel]
  /\ post' = [g \in Posts |-> NoPost]
  /\ reply' = [r \in Replies |-> NoReply]
  /\ UNCHANGED <<server, tally>> /\ UNCHANGED screenVars

-----------------------------------------------------------------------------
(* The server, and other tabs.                                               *)

TranscriptionEnds(m) ==
  /\ server[m].status = "transcribing"
  /\ \E s \in {"open", "empty", "failed"} : server' = [server EXCEPT ![m].status = s]
  /\ UNCHANGED <<mount, tally>> /\ UNCHANGED screenVars /\ UNCHANGED effectVars /\ UNCHANGED callVars

NotesEnd(m) ==
  /\ server[m].notes = "generating"
  /\ \E s \in {"ready", "failed"} : server' = [server EXCEPT ![m].notes = s]
  /\ UNCHANGED <<mount, tally>> /\ UNCHANGED screenVars /\ UNCHANGED effectVars /\ UNCHANGED callVars

OtherTabMeeting(m) ==
  /\ MeetingTrouble
  /\ \/ /\ server[m].status \notin {"none", "transcribing", "gone"}
        /\ server' = [server EXCEPT ![m] = [status |-> "gone", notes |-> "none"]]
        /\ tally' = [Spent EXCEPT !.elsewhere = TRUE]
     \/ /\ server[m].notes = "ready"
        /\ server' = [server EXCEPT ![m].notes = "applied"]
        /\ tally' = Spent
  /\ UNCHANGED mount /\ UNCHANGED screenVars /\ UNCHANGED effectVars /\ UNCHANGED callVars

-----------------------------------------------------------------------------

UploadStep == CreateMeeting \/ SendRecording \/ UploadIsDone \/ UploadIsCancelled
PollStep == PollTranscription \/ PollAnswers
CancelStep(c) == ServerCancels(c) \/ CancelAsksAgain(c) \/ CancelAnswers(c)
PostStep(g) == ServerTakesPost(g) \/ PostAnswers(g) \/ PostAgain(g)
ServerStep(m) == TranscriptionEnds(m) \/ NotesEnd(m)

TranscriptionNext ==
  \/ Render
  \/ UploadRecording \/ CancelUpload \/ UploadStep
  \/ PollStep
  \/ \E c \in Cancels : CancelTranscription(c) \/ CancelStep(c)
  \/ \E g \in Posts : PostStep(g)
  \/ PollNotes \/ NotesPollAnswers \/ CancelNotes \/ ServerCancelsNotes \/ CancelNotesAnswers
  \/ RegenerateMeeting
  \/ CloseMeeting \/ ServerOpens \/ Opens \/ DeleteCurrentMeeting \/ Deletes \/ LeaveMeeting
  \/ \E m \in Meetings : Resume(m) \/ ServerStep(m) \/ OtherTabMeeting(m)

TranscriptionSpec == TranscriptionInit /\ [][TranscriptionNext]_transcriptionVars

(* Timers fire, the network answers, the browser renders, and the server     *)
(* ends what it began (notes that take too long become "failed").            *)
TranscriptionFairness ==
  /\ WF_transcriptionVars(Render)
  /\ WF_transcriptionVars(UploadStep)
  /\ WF_transcriptionVars(PollStep)
  /\ WF_transcriptionVars(PollNotes) /\ WF_transcriptionVars(NotesPollAnswers)
  /\ \A g \in Posts : WF_transcriptionVars(PostStep(g))
  /\ WF_transcriptionVars(ServerCancelsNotes \/ CancelNotesAnswers)
  /\ WF_transcriptionVars(ServerOpens \/ Opens) /\ WF_transcriptionVars(Deletes)
  /\ \A m \in Meetings : WF_transcriptionVars(ServerStep(m))

-----------------------------------------------------------------------------

(* The end of a transcription leads to one request for notes, although the   *)
(* poll and the answer to a cancellation may both report it (:314): a second *)
(* request would be refused with MEETING_NOTES_BUSY and hide the first.      *)
NotesRequestedOnce == \A m \in Meetings : tally.asked[m] <= 1

(* A screen that was closed stays closed until the user opens it: no answer  *)
(* to what was asked before shows another phase (viewRunRef, :107).  When    *)
(* another tab deleted the meeting one can: the poll that notices does not   *)
(* count as the end that was shown.                                          *)
ClosedStaysClosed ==
  [][phase = "idle" => \/ phase' \in {"idle", "opening", "uploading"}
                       \/ phase' = "stopped" /\ tally'.uploads # tally.uploads
                       \/ tally.elsewhere]_transcriptionVars

(* A transcription, which costs money, never runs behind the screen's back:  *)
(* it is shown, or the user closed or left the screen, or the answer to the  *)
(* last "complete" was lost (uploadRecording, uploadMeetingRecording).       *)
TranscriptionIsShown ==
  \A m \in Meetings : server[m].status = "transcribing" /\ mount =>
    \/ meeting.id = m /\ phase \in {"uploading", "transcribing"}
    \/ m \in tally.unseen

(* The screen does not stay in phases in which the user can only wait,       *)
(* although answers are lost and the phase may change hands.  (The notes of  *)
(* a meeting that another tab deleted are polled for good: only the other    *)
(* poll knows 404.)                                                          *)
IsWaiting == mount /\ phase \in {"uploading", "transcribing", "generating", "opening", "deleting"}
WaitingEnds == IsWaiting ~> (~IsWaiting \/ (phase = "generating" /\ tally.elsewhere))

=============================================================================
