# Fruition web client in TLA+

Fruition is a workspace for documents, an AI-maintained wiki and meetings. This repository holds its
web client: a Next.js application (`src/web/app`, `src/web/src`), an in-memory mock backend used by
the tests (`src/web/mock`), the tests (`src/web/tests`) and the contracts it consumes (`src/docs/api`).
The Access service (login, workspaces), the Document service (documents, wiki, AI runs) and the Agent
service are elsewhere; what this project says of them is what the client's code relies on, and is
marked external.

The hard part of the client is not rendering. It is the state that lives in refs and module variables
between an `await` and its continuation: text that is being saved while more is typed, a lock that is
extended by a timer, a socket that is replaced while audio keeps coming, a turn of the agent that is
stopped before it has an ID. Each of these is a small protocol between callbacks of one JavaScript
thread and a server that answers late, twice or never. The modules here model those protocols
callback by callback.

Paths below are relative to `src/web/src/` unless they start with `src/` or `app/`.

## 1. Inventory

| Part | State it keeps | Operations | What is hard | What makes it correct | Here |
|---|---|---|---|---|---|
| **Note autosave** (`features/note-editing/model/useNoteAutosave.ts`, `pendingNoteSaveMerge.ts`) | refs for the revision, the unsaved, scheduled, queued and sent bodies, the version, the save block, the AI retry | typing, Cmd/Ctrl+S, AI edits, answers, timers, lock loss, unmount | answers read refs that changed during the await; three queues hold bodies | nothing accepted is lost or overwritten; the badge is true; AI edits stay attributed | modelled |
| **Note editor, data side** (`features/note-editing/ui/NoteEditor.tsx`) | the ProseMirror document, `bodyRef`, the delayed notification | notify, merge the server's body, apply an AI edit | what is typed while an answer is on its way | typed text stays | partly |
| **Note content API** (`entities/document/api`) | - | save a draft, fetch it | answers lost after the commit | - | modelled |
| **Document save barrier** (`shared/lib/documentSaveBarrier.ts`) | per document: running saves, success of the newest | track, settle, drain, flush | wiki ingestion must not read an older body | a flush that succeeds has saved everything | modelled |
| **Edit lock** (`features/note-editing/model/useEditLock.ts`, `editLockHandoff.ts`, `editLockSchedule.ts`) | phase, timer, the lock of an editor that is gone | acquire, heartbeat, re-acquire, hand over, release on leaving, return | DELETE and POST of one user on one lock, timers after sleep, the back/forward cache | an editor that shows "granted" keeps extending the lock and nobody in this tab deletes it | partly |
| **Live transcription** (`features/meeting-dictation/model/liveSession.ts`) | socket, audio that waits, attempts, rollover, finish | connect, send, roll over, finish, close, dispose | the socket is replaced while audio is recorded | audio is sent once and in order, one connection, stopping ends | partly |
| **Meeting screen** (`features/meeting-dictation/model/useMeetingSession.ts`, `lib/meetingNotes*.ts`) | phase, attempt number, microphone, polls, save key | start, stop, discard, upload, wait for the transcript, request and save notes | attempts that are abandoned during an await; poll and cancellation see the same end | one microphone, notes requested and saved once | modelled |
| **API client and session** (`shared/api/client.ts`, `shared/lib/authSessionStorage.ts`) | the access token in the memory of a tab, the refresh in flight, the latch of the expiry notice, the mark of signing out; cookie and refresh lock shared by tabs | fetch, refresh, retry, sign out, expiry notice | a late 401 or refresh after login or sign-out | one refresh at a time, a living session is not declared expired | partly |
| **Uploads** (`entities/document/api/multipartUpload.ts`, `partUpload.ts`) | parts, retries, concurrency | start, part, complete, abort | parts fail one by one; an abort among parts in transit | an upload completes only with every part | partly |
| **Notion import** (`features/notion-import/model/importRunner.ts`, `useNotionImport.ts`) | result per item, ids created, cursors | create, upload, save, resume, complete | partial failure and retry of what was already done | no document twice, none silently missing | partly |
| **Agent turns and chat** (`widgets/agent-panel/model/useAgentTurn.ts`, `useComposerStop.ts`, `features/agent-chat/**`) | request and response shown, turn being followed, the stop that waits for an ID, what was set aside | send, follow, stop, close, check again, decide | stream and lookups see the same end; stop before the ID | a turn ends once, nothing is applied that the user did not allow | partly |
| **Notice cards** (`features/document-notifications/model/noticeQueue.ts`, `useDocumentProcessingNotifications.ts`) | visible cards, waiting cards | publish, promote, dismiss, withdraw | the limit of the stack | a card waits only while the stack is full | partly |
| **Operation notifications** (`useOperationNotifications.ts`, `operationNoticeFilter.ts`) | what was found running, what was told | poll, compare, pause, filter | lists that are read one by one; the page tells some ends itself | each end is told once | modelled |
| **Wiki ingest** (`features/wiki-ingest/model/usePdfWikiIngest.ts`) | tasks in the storage of the tab | convert, follow, request, forget | reloads, other workspaces, a list that is older than the task | a PDF gets into the wiki once | partly |
| **Pending work prompts** (`usePendingWorkNotifications.ts`) | what was proposed, in the browser's storage | propose, remind, forget | two timers and two memories | a wait is proposed once | partly |
| Server notifications (`useServerNotifications.ts`) | last list | poll, tell, mark as read | - | every notice is shown once | - |
| Workspace tree (`widgets/workspace/model/useProjectTree.ts`, `shared/lib/serialQueue.ts`) | optimistic tree, queue of mutations | rename, move, delete, undo | optimistic update against a refetch | the tree converges to the server | - |
| Wiki pages (`features/wiki-page-editing/**`) | a form | save with its version | - | - | - |
| Document transport (`shared/api/documentTransport.ts`) | one answer shared by all requests of a page | ask, share, forget a failure | - | a failure is not kept | - |
| Skills, settings, account, sign-up, consent | forms | one request each | - | - | - |
| Server wake (`views/auth/model/useServerWake.ts`, `app/wake`) | wake step | wake, poll | - | waiting requests resume | - |
| Note editor view; graph, search, Markdown, landing, legal pages | component state | render | - | - | - |
| Middleware, access gate, reports, health (`src/web/middleware.ts`, `app/**/route.ts`) | attempts per client | one request, one answer | - | - | - |
| Mock backend (`src/web/mock`) | maps in memory | the services' endpoints | - | evidence for the external actions only | - |

How the parts meet:

- `NoteEditor` calls the autosave hook (`queueSave`, `saveNow`) and is called back by it
  (`mergeEditorMarkdown`). Every save is tracked by the barrier.
- `useEditLock` tells the editor that the lock was lost; the editor calls `reportSaveBlock("lock-lost")`.
- Wiki ingestion and the source panel wait on the barrier (`flushPendingDocumentSave`,
  `drainDocumentSaves`); the barrier calls the flush the mounted editor registered.
- `apiFetch` refreshes a session, or throws `SessionExpiredError`; the autosave hook and the heartbeat
  of the edit lock react to it.
- `useMeetingSession` creates a live session, feeds it with the microphone, and asks for notes when
  the live session reports how it ended; a recording file goes through the upload in parts.
- Operations, PDFs and pending work publish their cards to one stack.

The hazards of this code, each at its line, are listed in `PROJECT.json` under `hazards`, with the
properties that cover them or the reason why none does.

## 2. Modules

| Module | Models | Proofs |
|---|---|---|
| `PendingNoteSave` | save candidates and the pure functions that combine them | lemmas in `NoteAutosave_proofs` |
| `DocumentSaveBarrier` | the barrier's state per document | lemmas in `NoteAutosave_proofs` |
| `NoteAutosave` | the hook, the editor's data, the flush, the document at the server; extends the two above | `NoteAutosave_proofs`, `NoteEdits_proofs` |
| `EditLock` | the editors of one document one after another, the handoff, the server's lock | `EditLock_proofs` |
| `LiveSession` | one recording over its connections | `LiveSession_proofs` |
| `MeetingCapture` | starting and stopping a recording: microphone, meeting, session | `MeetingScreen_proofs` |
| `MeetingTranscription` | the meeting screen from a file to its notes | `MeetingScreen_proofs` |
| `MeetingNotesSave` | saving the notes as a document or at the end of one | `MeetingScreen_proofs` |
| `AuthSession` | tabs, their tokens, the shared refresh | `Requests_proofs` |
| `MultipartUpload` | an upload in parts | `Requests_proofs` |
| `ImportPromise` | what an import promises (abstract) | - |
| `NotionImport` | the runner that keeps the promise | `Requests_proofs` |
| `AgentTurn` | the turn of the work tab and its proposals | `AgentTurn_proofs` |
| `NoticeStack` | the stack of cards | `Notices_proofs` |
| `OperationNotices` | the ends of operations | `Notices_proofs` |
| `PdfIngest` | a PDF on its way into the wiki | `Notices_proofs` |
| `IngestPrompts` | proposals for documents that wait | `Notices_proofs` |
| `MCNoteAutosave`, `MCEditLock`, `MCLiveSession`, `MCMeetingCapture`, `MCAuthSession` | small instances of one part | |
| `MCClient`, `MCWorkspace` | small instances of several parts, one in each behaviour | |

Four conventions hold everywhere. JavaScript runs a callback to its end, so a callback is one action
and what it calls synchronously is an operator from the old value of a record to the new one. What
the code separates by an `await` is separated into actions: a request, what the server does with it,
and the continuation. A definition named `X_Y` beside `X` is a mutant: a plausible bug in the
code `X` models, used to show that a property would notice it; nothing else refers to it. And a
variable marked "History" is read by the properties only.

### NoteAutosave

`page` is one record with the refs of the hook and of the editor: `editor` is the ProseMirror
document, `bodyRef` what was last notified, `scheduled`/`timer` the debounce, `unsaved`
(`latestUnsavedRef`), `inflight` (`saveInFlightRef` and what was sent), `pending` (the body behind the
request), `retryTimer`/`retryCandidate`/`attempts` the AI retry, `block` (`saveBlockRef`), `saves` the
barrier. `bodies[v]` is the body the server keeps as version `v`, `reply` the answer to the request in
flight. A body is the set of edits it contains: a save that misses text misses elements, and a merge
is a union. That is what the properties tell apart; Markdown, blocks and images are not.

| Action | Code |
|---|---|
| `Type`, `MarkdownUpdated`, `ApplyMarkdown` | input, `markdownUpdated` (delayed by Milkdown), an AI edit |
| `SaveShortcut`, `DebounceFires`, `AgentRetryFires`, `ToggleAutoSave` | Cmd/Ctrl+S, the timers, the preference |
| `ServerCommits`, `ServerConflicts`, `RequestLost`, `ServerForbids`, `SessionRefuses` | the Document service and the network |
| `SaveSucceeds`, `SaveConflicts`, `SaveFails`, `SaveForbidden`, `SaveUnauthorized` | the continuation of `flushSave` |
| `LoseLock`, `Unmount`, `Reopen` | `reportSaveBlock`, the cleanup, the panel that loads the document again |
| `StartFlush`, `ContinueFlush` | `flushPendingDocumentSave` and the rounds of `flushPendingSave` |
| `RemoteSaves`, `SessionExpires`, `SessionReturns` | other writers, the login |

A continuation that only waits for settled promises is a microtask, which runs before any other
callback; `Task` in the guards says so. A request may be committed and its answer lost.

### EditLock

`editors[e]` holds the variables of the effect of the e-th editor, `handoff` the module variable that
keeps a lock for the next editor, `requests` what is on its way in the order it was sent, `holder`
the server's lock, which belongs to the user and not to an editor: any DELETE of this page removes
it. Time is one bit per editor: `late` says that what the last answer granted, counted from the
moment its request left, is over. `Lapse` sets it (the tab slept, heartbeats failed), and `Expire`
lets the server forget a lock only when nobody can count on it any more, or when the newest grant is
still on its way. The formulas of `editLockSchedule.ts` only decide when a timer ends.

### LiveSession

`session` has the variables of `createLiveSession` (`socket` is the number of the connection, 0 for
null), `segments` what `transmit` and the server count of the segment that is open, `timers` the two
timeouts with the connection that armed them, `net[c]` the c-th WebSocket with what the server was
told and said, `tape` the history of the recording. Audio is a sequence of numbered chunks, one frame
each; the limits of segments and of the audio that waits are counted in chunks, as the code compares
sums of equal frames. Message and receipt are one step: a message that is overtaken by a close was
never sent as far as the code can tell.

### The meeting screen: MeetingCapture, MeetingTranscription, MeetingNotesSave

`useMeetingSession.ts` is one hook with three protocols that follow one another.

*MeetingCapture* is the time until a live session runs. `attempt` is `startAttemptRef`, `starting[a]`
what the a-th start waits for, `captured` and `openMics` the microphone that `microphoneRef` holds
and all that are on, `liveAttempt` the attempt whose session is in `sessionRef`. `Start` is a click;
`MicrophoneOpens`, `MicrophoneIsRefused`, `MeetingIsCreated` and `MeetingFails` are the two
continuations of `startCapture`; `SessionReports` and `SessionStops` the callbacks of the session;
`StopCapture`, `LeaveCapture` and `CloseCapture` what the user does meanwhile. `MicrophonesInOrder`
names the assumption that `getUserMedia` answers in the order it was asked.

*MeetingTranscription* goes from a file to its notes. `phase` and `meeting` are the state of the hook,
`pending` says that an answer changed it and React has not rendered it yet (what a user does is
rendered at once); `viewRun` and `settled` are the numbers with which the code recognises an answer
to an older screen (`viewRunRef`, `transcriptionRunRef`); `upload`, `poll`, `notesPoll`, `cancel`,
`post` and `reply` are the asynchronous functions, each with the numbers it remembered before its
`await`; `server` is the meeting at the service. Its actions are the calls of the hook
(`UploadRecording`, `CancelTranscription`, `GenerateNotes`, `CancelNotes`, `RegenerateMeeting`,
`CloseMeeting`, `Resume`, `DeleteCurrentMeeting`, `LeaveMeeting`), their continuations, and the two
polls. With `PromptAnswers` a request about notes is answered before the next poll or click, other
than closing the screen; without it a late answer overwrites the phase (section 4).

*MeetingNotesSave* saves the notes under a name and a key that a retry repeats: `attemptRef` is
`saveAttemptRef`, `auto` the automatic save with its two refs, `saver` the save or preview in
progress, `store` the service, which creates the document and marks the notes as applied in two steps
and may fail between them. `TriesNextName` is the 409 of a name that is taken, `HandleSaveFailure`
what the code does with every other failure, `PreviewAppend`/`ConfirmAppend`/`CancelPreview` the other
way to save. Another tab may meanwhile edit the target, append the notes, or save them as a document under a key
of its own (`NotesElsewhere`, `SavedElsewhere`); `store.documents` are the documents of this screen.

### AuthSession

Per tab: `token` (`accessToken`), `notified`, `signedOut`, `leaving` (a tab in `logout()`), `refresh`
(`refreshPromise`). `lockQueue` is the Web Lock of the refresh, `cookie` the refresh token of all tabs;
`newest`, `ended` and `lost` are the server's: it accepts the newest refresh token of a login once. `WebLocks`
says whether the browser has `navigator.locks`; where it has not, a refresh waits for no other tab
(`authSessionStorage.ts:109`). A
request is sent, refused with 401, waits for the refresh and is sent once more (`Send`, `Succeeds`,
`AskRefresh`, `RefusedAgain`); a refresh waits for the lock, is sent, and ends (`SendRefresh`,
`ServerRefreshes`, `RefreshEnds`). The user signs out and logs in meanwhile (`AskLogout`, `SignOut`,
`Login`, `LogInAgain`).

### MultipartUpload

`stage` is where `uploadDirectMultipart` stands, `first` the first part of the batch, `part` each part
with its attempts left, `complete` the attempts of the last request, `bucket` and `documents` the
object store and the service. A batch ends when each of its parts was stored or gave up
(`BatchSettled`); a part fails, stalls until its timer ends it, or asks for a new address
(`RenewPart`). The caller may cancel at any time (`CancelParts`) and upload again with the same key.

### NotionImport and ImportPromise

`ImportPromise` says what an import promises of the workspace: every item is made at most once, in
the folder of the plan, which exists by then; a document gets each of its contents once; when the
import is closed nothing is written. `NotionImport` is the runner: `queue`, `active` and `answer` are
the concurrent workers, `known`, `version`, `saved`, `contentDone` and `failures` the `state` that
survives a retry, `sent`, `made`, `content`, `writes` and `completed` the service with its
idempotency keys. `Promise == INSTANCE ImportPromise WITH ...` maps what the service has to the
abstract variables; `PromiseKept` is the abstract specification as a property of the detailed one,
model-checked and proved.

### AgentTurn

`panel` has the state and the refs of the hooks: the question shown (`request`), the answer shown
(`response`), the turn being followed, the turn whose end could not be seen (`unconfirmed`), the stop
that waits for the turn's ID, the documents being made, what was set aside, and the approval setting
as the panel knows it. `closing` are the turns the user closed, `turns` those at the service. The user
asks (`SubmitTurn`, `Regenerate`), stops with Esc (`Escape`) or closes (`CloseTurn`), checks a lost turn
again (`Recheck`), decides (`Decide`, `MakeDocumentOf`), reopens what was set aside, visits the chat tab
or leaves the conversation; the answers are `TurnIsAccepted`, `TurnNotAccepted`, `TurnEnded`,
`TurnLost`, `ResultShown`, `CloseAnswers`, `StopAnswers`, `DocumentMade`, and `ApprovalKnown`. Three abstractions are
named in the module: the lock of the input by messages the list still shows as pending, the 404 of a
cancellation, and a visit of the chat tab as one step.

### NoticeStack, OperationNotices, PdfIngest, IngestPrompts

*NoticeStack*: `cards` is the list of notices in their order; a card is shown, waits for room
(`parked`) or leaves. Time is one bit of a card: `young` until `NOTICE_MIN_VISIBLE_MS` have passed.
`Publish` is `enqueueNotice` with the choice of what gives way, `Promote` brings waiting cards back.
`Without` is the filter of the effect that follows the settings, written by rank so that the proofs can count its places.

*OperationNotices*: `loop` is the effect with its timer and what its last poll found; a poll is a set
of lookups which the server answers one by one (`Polls`), so that an operation may be in neither list
or in both. `RequestLint`, `LintAnswered` and `LintUnanswered` are the page that tells the end of its own
lint, `Tell` the filter with its `shownIds`, of which the code keeps the newest 200 (`operationNoticeFilter.ts:20`)
and the model all.

*PdfIngest*: `task` is what the hook keeps for one note, `stored` its copy in `sessionStorage`, `noteListed`
the note in the list of documents, which is fetched (`fetch`) or changed by the page itself. The user
reloads or selects another workspace while requests are on their way.

*IngestPrompts*: `page` has the refs of the hook (what is known, proposed, queued for the timer, seen),
`remembered` what the browser keeps; `promptCards` are its cards. The page is closed and opened again. A document may
wait again at any time; the history variable `returned` has those for which that happened after
`checkStalledUploads` forgot them (`:283`) and before the timer proposed them.

## 3. Runs

| Run | Instance | Asks |
|---|---|---|
| `autosave_merge` | 2 local edits, 1 by another writer, 1 lost request or answer, 2 openings, 1 ingestion | is anything of either writer lost, orphaned, or missing from an ingestion that starts? |
| `autosave_live` | 2 edits, 1 of another writer, server of before the merge (409), 1 loss, 1 expiry, 1 ingestion; fair | is every edit saved or reported, does every flush end, is the newest body sent last? |
| `autosave_agent` | 2 edits, AI or typed, 2 retries, 2 losses, 403, lock loss, auto-save switched; fair | are AI edits attributed and retried; is a lost lock final? |
| `client` | one part in each behaviour, see below | do the parts that wait for answers keep what they promise, and end? |
| `workspace` | one part in each behaviour, see below | does the open workspace keep its lock, and tell the user what happens once? |
| `autosave_stale_retry` | an AI edit, a typed one, 1 loss | finding 1 |
| `autosave_lock_unlocked` | 2 edits, lock loss and 1 expiry | finding 2 |
| `autosave_flush_typed` | 2 edits, 1 expiry, 1 ingestion | finding 3 |
| `lock_handover` | 2 editors, 1 failure, 1 event | finding 4 |
| `recording_rollover` | 1 rollover | finding 5 |
| `recording_restart` | 3 attempts | finding 6 |
| `signed_out` | 1 tab, 2 requests, 1 login | finding 7 |

`client` and `workspace` hold several parts. The parts share no state that is modelled, so
interleaving them would only multiply their states; a constant-like variable `subject` is chosen in
the initial state, and only that part moves. Invariants and action properties of a part hold trivially
in the behaviours of the others. `ClientEnds` and `WorkspaceEnds` ask of each part what must happen in
it, under that part's own fairness. The parts and their bounds:

| Run, `subject` | Bounds |
|---|---|
| `client`, `live` | up to 4 connections: 2 break or are refused, 1 rolls over, 1 ticket fails; 4 chunks, 2 may wait |
| `capture` | 6 starts and stops |
| `transcription` | 1 meeting, 1 file, 1 screen opened again, 2 requests for notes or cancellations, 1 failure |
| `notes` | 2 versions of the notes, 2 saves, 2 names tried, 2 answers lost or saves cut off |
| `auth` | 2 tabs, 2 requests, Web Locks, 1 login, 1 refresh that fails for a while |
| `upload` | 3 parts in batches of 2, 2 attempts each, uploaded twice, 4 failures |
| `import` | 2 folders, 2 pages (one with images for two requests and a link) and a PDF; 2 at a time, 2 runs, 2 failures |
| `turn` | 2 questions, 1 stop, 1 request that fails or end that stays unseen |
| `workspace`, `lock` | 2 editors, 1 visit to the cache, 1 lost request or answer, 2 events of the clock or another user |
| `cards` | 4 cards in a stack of 2 |
| `operations` | 1 lint, 1 restore, 1 failure, 1 switch of a kind |
| `pdf` | 2 reloads or other workspaces, 1 change of the list by the page |
| `prompts` | 2 documents that wait twice, the page closed twice |

Why these bounds are enough. The three queues of the autosave hold one body each, and what is lost
is lost between two bodies: a body on the wire and the one typed meanwhile. Two local edits and Cmd/Ctrl+S,
which makes further revisions of the same body, fill them all; a second writer needs one edit. One failure is
what a continuation may meet; the AI retry runs out after `MaxAttempts`, so its run has as many losses
as attempts. The edit lock is handed from one editor to the next, so two editors have every pair of an old
request and a new one. In `LiveSession` with `MaxReconnects = 1` two breaks reach the end of the
attempts with and without a successful connection between them, and four chunks fill a segment
(`CommitMax = 3`) on one connection and leave one for the next, or overflow what waits (`MaxPending = 2`) on the way to it.
An attempt to record is disturbed by the one before or after it, and six calls are three pairs of start
and stop. The transcription and the notes are each asked for at most twice at a time: by a poll or an
effect, and by a cancellation or a click. Two tabs with two requests share a refresh within a tab and
compete for it between tabs. Three parts in batches of two have a full batch and a short one; two attempts and four
failures let one part give up while its neighbour is in transit, and every request be repeated. The import has an item of each kind,
a document that waits for two others, and as many workers as may meet. Two turns are the one that is followed and the
one that is shown, set aside or lost. A card that makes room twice needs a stack of two and two more cards. A document that waits a second time,
on a page that was opened a second time, meets every memory of the first. The theorems of section 5 hold for every value of these constants.

`CHECK_DEADLOCK FALSE` everywhere: a user may stop, a recording is over, an editor is closed.

### What the properties say

`NoteAutosave`: `RemoteEditsSurvive` (the base version never runs ahead of the editor's body, or the
next save would delete what another writer saved), `UnsavedIsHeld` (an accepted body is always in one
of the queues, or the user sees an error), `NewestBodyIsSentLast`, `DetachedEditsAreSaved`,
`FlushSavesAccepted` and `FlushSavesTyped` (what ingestion may rely on; `FlushSaves` is
both), `TypedTextStays`,
`LockLossIsFinal`, `AgentEditsAreSavedAsAgent`, `SavedBadgeIsTrue`, and the liveness properties
`EditsAreSavedOrReported`, `FlushEnds`, `AgentEditsReachTheServer`.

`EditLock`: `GrantedBeats` (the chain of heartbeats has no missing link), `OnTimeMeansHeld` (the
deadline the editor counts is never later than the server's), `LostIsFinal`, `HandedOverLockIsKept`,
and in `WorkspaceEnds` `LossIsNoticed`, `LockIsReleased`.

`LiveSession`: `AudioInOrder`, `AudioIsKept`, `OneSession` (one connection, timers of that connection,
nothing called after the end), `OkMeansSaved`, in `ClientTypeOK` also `SegmentsFit` and `GivesUp` (the limits of
segments and attempts), in `ClientEnds` `StopEnds`.

The meeting: `OneRecording` (the session that runs is the one the screen can stop) and
`MicrophoneIsReleased`; `NotesRequestedOnce` (poll and cancellation both see the end),
`ClosedStaysClosed` (no late answer opens a screen the user closed), `TranscriptionIsShown` (a
transcription that costs money is on the screen or the user left it), `WaitingEnds`; `NotesAreSavedOnce` (one document
of this screen per version whatever answers were lost, and "applied" is shown only of what was applied), `SavingEnds`.

`AuthSession`: `NoFalseExpiry` (a session is called expired for a request whose session has ended, and only when the one
the browser has by then has ended too, unless a login overtook the request), `SignedOutStays`, `RequestsEnd`.
`MultipartUpload`: `UploadIsWhole` (the file becomes one whole document at most, and an abort or the end
is the last that is sent), `UploadEnds`. `NotionImport`: `PromiseKept` (the refinement),
`SuccessIsComplete` (an import without failures made and filled everything), `RunEnds`. `AgentTurn`:
`AutoApplyIsAllowed` (nothing is applied without asking against the setting, after Esc, or twice),
`ProposalIsKept` (a proposal that waits for the user is not lost), `TurnEnds`.

The notices: `CardsTakeTurns` (a card waits only while the stack is full, and no card closes what the user
must answer or has hardly seen), `ResultsLeave`; `EndIsToldOnce`, `EndIsTold`; `IngestIsRight` (a PDF is
taken into the wiki once, and called gone only when it is; `touched` and `left` are exempt, section 4), `TaskEnds`;
`ProposedOnce` (in one wait one proposal and one reminder; a document of `returned` may be proposed twice), `WaitIsNoticed`.

### Fairness

Weak fairness, and only where the platform gives it: timers that are armed end, promises that are
settled continue, a request is answered or fails (browsers time a connection out). Nothing is assumed
of the user, of other writers or of the session. In `EditLock` a page in the back/forward cache runs
no callback, and its properties say so. In `LiveSession` a ticket arrives or is refused, a WebSocket
that closes reports it, and the server says `ready` unless the connection breaks; its answer to
`finish` is not assumed, the code has a timeout for it, and `StopEnds` fails without that timeout.
The services end what they began (a transcription, notes, a turn, an operation, a conversion): the code has no
timeout of its own for these and polls until they do. A Web Lock that is free is granted in turn. A part of an upload
that stalls is ended by its timer. That a hidden tab is seen again is not assumed, so polls that pause for it may pause for ever.

## 4. What the runs found

1. **A late AI retry overwrites a newer body** (`NewestBodyIsSentLast`, `useNoteAutosave.ts:169`).
   A body typed while an AI save is in flight is already in the debounce when that save fails and
   arms the retry, so nothing discards the retry. The newer edit is then on no server although the barrier
   is drained and successful, or a flush succeeds (section 5).
2. **A lost lock can be unlocked** (`LockLossIsFinal`, `useNoteAutosave.ts:272`). A session that
   expires overwrites the block; its return releases it, and edits made without the lock are saved.
3. **Ingestion without the newest text** (`FlushSavesTyped`, `useNoteAutosave.ts:394`). Input that was
   notified while the session was expired is refused but becomes `bodyRef`; after the session returns
   the flush sees no difference.
4. **A lock that was handed over is deleted** (`HandedOverLockIsKept`, `useEditLock.ts:164`). An editor
   that is unmounted during a re-acquisition hands its lock over, and then gives it back when the
   answer comes.
5. **Audio of a rollover is discarded with ok** (`RemainingAudioIsSaved`, `liveSession.ts:155`).
   `finish()` during a rollover takes the `finished` of the rollover for its own answer.
6. **A recording without sound** (`RecordingHears`, `useMeetingSession.ts:224`). A start that was
   stopped while its meeting was created turns off whatever microphone is held when the answer comes:
   that of the next start, which records silence.
7. **A session after signing out** (`SignedOutStays`, `client.ts:114`). A refresh on its way stores its
   token after `signOut`, and lifts the mark that the user left.

Seen while modelling, with no run of their own:

- Autosave. `pendingNoteSaveMerge.ts:26` drops the operation id of an AI body that is promoted after a failure,
  which `noteAutosave.test.mjs:29` expects to be kept; the branch of an expired session
  (`useNoteAutosave.ts:270`) loses the agent source of the body (test at `:72`).
  After the lock is lost, an answer on its way sets the status back to "saved"
  (`:236`), and the merge of that answer replaces text typed since
  (`NoteEditor.tsx:235`). Leaving the editor does not read input Milkdown has not notified yet (`:120`),
  as a flush does. With auto-save off, typing cancels the retry of a failed AI save and nothing sends it (`:68`);
  `AgentEditsReachTheServer` leaves that case out.
- Edit lock. In a page that returned from the back/forward cache with a heartbeat in flight, a second chain of
  heartbeats can grant a lock that was given up (`useEditLock.ts:129`; `LostIsFinal` leaves it out).
  Leaving again during the re-acquisition releases nothing (`:201`, comment at `:197`). The DELETE of
  a lock nobody claimed within a second crosses the POST of a later editor (`editLockHandoff.ts:54`).
  Left out is the second lock handed over while one is kept (`editLockHandoff.ts:46-50`): it takes two editors of one
  document at a time, and the model mounts them one after the other.
- Live session. `finish()` while the session waits to reconnect ends with ok although the last segment of the
  broken connection may be missing (intended, `liveSession.ts:220`). After a rollover the new ticket
  may be refused while the server still holds the meeting (409), which ends the recording.
- Transcription and notes. The poll that meets 404 (`useMeetingSession.ts:422`) does not count as the end that was shown;
  the poll of the notes (`:278`) swallows 404, so the notes of a meeting deleted elsewhere are polled for
  ever. Answers about notes that come after the next poll or click overwrite the phase, and with a slow
  request an older version of the notes can return after a regeneration (`PromptAnswers` leaves these
  out). After a page reload the key of an unfinished save is forgotten.
  With two meetings, one of them deleted in another tab, `NotesRequestedOnce` and `TranscriptionIsShown` do
  not hold: the poll that meets 404 settles no run, so a cancellation that is still on its way changes the
  phase while the next file is uploaded (`useMeetingSession.ts:422`). The run has one meeting
  (`MaxMeetings = 1`), and the theorem says what holds for more: everything until another tab deletes a meeting, provided
  that the screen shows a deletion that is on its way (`DeletionIsShown`). It may not: an answer about notes that comes late
  changes the phase "deleting", the user closes the screen and opens another meeting, and a deletion that then
  fails restores the phase from before it, whatever is shown (`useMeetingSession.ts:486` does not look at `viewRunRef`).
- Session. A 401 of the old session that arrives after a new login ends the new one (`client.ts:181`). `NoFalseExpiry`
  compares with the session the browser has, so it sees this, and names the exception: a login while the request was
  under way (`overtaken`). It holds where the browser has Web Locks. Without them (`authSessionStorage.ts:109`) two
  tabs send the same cookie, the second is rejected, and a session that lives is called expired: with
  `WebLocks = FALSE` TLC finds that within a few steps. The run has one login so that it ends in time; with
  `MaxLogins = 2` the session alone has 1.4 million states, in which the property holds as well, and the theorem
  covers any number.
- Saved notes. Two tabs have two keys, so each may make a document of the same version of the notes;
  `NotesAreSavedOnce` speaks of the documents of one screen, and does not count what is appended.
- Upload. Cancelling while complete is in flight ends with success although
  `multipartUpload.ts:19` says that an abort fails; an upload whose answers to complete are all lost ends as
  failed although the document exists.
- Import. "Finish as it is" (`이대로 마치기`) followed by a retry while complete is in flight writes after the
  import was completed; a double click on start opens two sessions; a document that was saved before a
  document it links to failed keeps a stale link; a page with images whose saved answer was lost and
  whose linked page was made since is refused at every retry; a complete that fails leaves the session
  open, with no way back to it from the summary.
- Agent. A lost turn that is stopped with Esc goes through "close"; a 409 makes it be checked again and it may
  be applied without asking, against `useAgentTurn.ts:230`. Esc before the turn has an ID, followed
  by a change to the chat tab, is forgotten (`useComposerStop.ts:94`). Checking a lost turn while another proposal was
  reopened overwrites that proposal. With three questions the answer to a close (`AgentPanel.tsx:571`) that comes
  late follows a turn again beside the next question, or under none, and the turn that an Esc stops is then not the one
  that is followed. `AutoApplyIsAllowed` and `ProposalIsKept` leave out what was followed again beside another
  question or answer (`past.overlaid`); the run has two questions, the theorems any number.
- Operations. In a hidden tab an operation that is in neither list of one poll stops the polls until the tab is
  seen, against `useOperationNotifications.ts:77`; switching one kind begins the loop again and forgets what
  it had found; a lint that was asked for from its card and failed is told twice, because one of the
  notices names no operation (`usePendingWorkNotifications.ts:364`).
- PDF. A change the page makes in its own list counts as a list of the server (`useBackendData.ts:157`), so that a
  task may be dropped too early (`touched`); selecting another workspace while the conversion is
  asked for loses the task; after a return with an older list the request may be sent again, and the
  409 is told as a failure (`left`).
- Prompts. The memory of an earlier wait suppresses a later proposal after the page was closed; two tabs overwrite
  each other's memory (one page is modelled). A document that waits for the timer, is seen to stop waiting, and waits
  again before the timer fires is proposed by it although the memory has forgotten it
  (`usePendingWorkNotifications.ts:283-288`), and by the next page once more. The timer takes three seconds, but each
  upload begins them anew (`:239-240`), so the window is as long as uploads go on. `ProposedOnce` allows two proposals for
  such a document (`returned`) and one for any other; the run reaches both.

## 5. Proofs

TLAPS checks every theorem below for all values of the constants that satisfy the named assumptions
(the bounds are naturals, an absent operation id is not an operation id, local and remote edits differ, a
batch has room for a part, there is a meeting, the plan of an import is finite sequences in which no document is twice, a task is
given up after at least two lists that miss its note). TLC evaluates each of them in a run. Some theorems
hold under a premise, which is part of their statement; section 4 says what happens without it.

| Theorem | States | Along |
|---|---|---|
| `TypeOKTheorem`, `SavedBadgeTheorem` | `TypeOK`, `SavedBadgeIsTrue` of `NoteAutosave` | `IInv` of `NoteAutosave_proofs` |
| `NewestBodyTheorem`, `UnsavedIsHeldTheorem` | `Ops = {} => (Spec => []NewestBodyIsSentLast)`, and the same of `UnsavedIsHeld` | `OrderInv` |
| `RemoteEditsSurviveTheorem` | `~LegacyServer => (Spec => []RemoteEditsSurvive)` | `RemoteInv` |
| `LockLossTheorem` | `MaxExpiries = 0 => (Spec => LockLossIsFinal)` | `LockInv` |
| `TypedTextTheorem` | `MaxExpiries = 0 /\ ~CanLoseLock => (Spec => TypedTextStays)` | `TextInv` of `NoteEdits_proofs`, relative to `LockInv` |
| `AgentEditsTheorem` | `MaxExpiries = 0 /\ ~LegacyServer => (Spec => AgentEditsAreSavedAsAgent)` | `SourceInv`, relative to `RemoteInv` and `LockInv` |
| `DetachedEditsTheorem`, `FlushSavesAcceptedTheorem` | `Ops = {} => (Spec => []DetachedEditsAreSaved)`, and `Ops = {} => (Spec => FlushSavesAccepted)` | `AccountsInv`, relative to `OrderInv` |
| `FlushSavesTheorem` | `Ops = {} /\ MaxExpiries = 0 => (Spec => FlushSaves)` | `AccountsInv`, with `LockInv` |
| `LockTypeOKTheorem`, `GrantedBeatsTheorem`, `OnTimeMeansHeldTheorem` | `TypeOK`, `GrantedBeats`, `OnTimeMeansHeld` of `EditLock` | `IInv` of `EditLock_proofs` |
| `LostIsFinalTheorem` | `Spec => LostIsFinal` of `EditLock` | `OneChain`, relative to `IInv` |
| `OneConnectionTheorem`, `TimersTheorem`, `EndIsFinalTheorem`, `OneSessionTheorem` | the three parts of `OneSession` of `LiveSession`, and `OneSession` | `IInv` of `LiveSession_proofs` |
| `AudioInOrderTheorem`, `AudioIsKeptTheorem` | `AudioInOrder`, `AudioIsKept` of `LiveSession` | `AInv`, relative to `IInv` |
| `OkMeansSavedTheorem` | `Spec => OkMeansSaved` of `LiveSession` | `Told`, relative to both |
| `CaptureTypeOKTheorem`, `OneRecordingTheorem` | `CaptureTypeOK`, `OneRecording` of `MeetingCapture` | `Owner` of `MeetingScreen_proofs` |
| `MicrophoneIsReleasedTheorem` | `MicrophonesInOrder => (CaptureSpec => []MicrophoneIsReleased)` | `Held`, relative to `Owner` |
| `NotesAreSavedOnceTheorem` | `NotesTypeOK` and `NotesAreSavedOnce` of `MeetingNotesSave` | `NotesInv` |
| `TranscriptionTypeTheorem` | `TranscriptionSpec => []TranscriptionTypeOK` of `MeetingTranscription` | `MeetingFields`, `Numbered` |
| `NotesRequestedOnceTheorem`, `TranscriptionIsShownTheorem` | `NotesRequestedOnce`, `TranscriptionIsShown`, under `[]DeletionIsShown` and until another tab deletes a meeting | `ScreenInv`, relative to both |
| `ClosedStaysClosedTheorem` | `ClosedStaysClosed`, under `[]DeletionIsShown` | `ScreenInv` |
| `NoFalseExpiryTheorem` | `AuthSpec => NoFalseExpiry` of `AuthSession`, assuming `WebLocks` | `AuthInv` of `Requests_proofs` |
| `UploadIsWholeTheorem` | `UploadSpec => []UploadIsWhole` of `MultipartUpload` | `UInv` of `Requests_proofs` |
| `PromiseKeptTheorem` | `ImportSpec => PromiseKept`: `NotionImport` implements `ImportPromise` | `Inv` of `Requests_proofs` |
| `SuccessIsCompleteTheorem` | `ImportSpec => []SuccessIsComplete` | `SInv` |
| `AutoApplyTheorem`, `ProposalTheorem` | `TurnSpec => AutoApplyIsAllowed`, `TurnSpec => ProposalIsKept` of `AgentTurn` | `TurnInv` of `AgentTurn_proofs` |
| `EndIsToldOnceTheorem` | `OperationSpec => []EndIsToldOnce` of `OperationNotices` | `Remembers` of `Notices_proofs` |
| `ProposedOnceTheorem` | `PromptSpec => []ProposedOnce` of `IngestPrompts` | `PromptInv` |
| `IngestIsRightTheorem` | `PdfSpec => []IngestIsRight` of `PdfIngest` | `PdfInv` |
| `CardsTakeTurnsTheorem` | `StackSpec => CardsTakeTurns` of `NoticeStack` | `StackInv` |

**NoteAutosave.** That the badge is true is not inductive: a save that succeeds shows "saved" when
its revision is the newest and then clears `unsaved`, and it clears it only if `unsaved` carries that
revision. `UnsavedIsNewest` (a body that waits to be saved has the newest revision) supplies what is missing.
Since every callback is an operator on `page`, the proof has one lemma per operator
that says it preserves `Sound` (type and `UnsavedIsNewest`) and the badge, and one step per action.

**NoteAutosave, the newest body.** A body that is sent is the newest only if nobody can still send an older one: what waits in
the debounce has the newest revision, what waits behind a request is no older than what was sent (`InOrder`), and an answer
is to the request in flight (`AnswersARequest`). For `UnsavedIsHeld`, `Holds` says where the newest body is:
in the request, behind it, or in the debounce, unless the save failed or a flush drains. The premise `Ops = {}` (the AI does
not edit the note) is finding 1: an AI retry does send an older body.

**NoteAutosave, remote edits.** `UpToDate` says, of every body the page holds, which edits of others it contains: those
of the version it will be saved against, but for those a body already overwrote. With it a save that the server
accepts loses none of them. The answer on its way is the stored body of its version (`AnswerIsStored`), a request is based
on the page's version, an AI retry is armed only while what is sent is the agent's, and what waits in the
debounce is newer than any other body (`Sequenced`). The premise `~LegacyServer` leaves out a server that answers 409 without
merging, which the code handles in another branch.

**NoteAutosave, the lost lock.** Where no session expires (`MaxExpiries = 0`, finding 2), the block is never "session-expired",
and a page that lost its lock has the block "lock-lost" (`LockInv`), which no callback lifts.

**NoteAutosave, the typed text.** `TextInv` says that no body on its way and no saved version has local edits the editor lacks, that a body
under the newest revision has every local edit the editor notified, and that a request keeps its body until it is answered. So an
answer either belongs to the newest revision, and then the merged body contains what was typed, or it does not, and then the merge in the
editor keeps it. Neither other writers nor AI edits, refusals, lost answers, retries, flushes or a server that does not merge are excluded;
a 403 is harmless because a page it blocks has no request in flight. The two premises are needed: text that is notified while saving is blocked gets
no revision (`queueSave` returns first), so the answer to a request that left before the lock was lost, or to one that leaves after the
session came back, seems to be the newest and replaces that text. TLC finds either within seconds when a premise is dropped
from `autosave_merge`.

**NoteAutosave, the agent's edits.** The source belongs to a save, not to an edit, so the proof follows the AI edits that no saved
version has (`Unseen`). `SourceInv` says that, while saving is not blocked, the editor and every body that waits (in the debounce,
behind a request, in the AI retry, in what is unsaved) contain the same of them, K, and that the page owes K to the agent (`Owed`): a
request of the agent carries all of K, or the body behind the request is the agent's, or, with no request on its way, the next save
is made the agent's (`agentRequired`). A request that contains one of them is the agent's (`Signed`), so the version that
first has one came from the agent. A successful answer is about a body that has none of them any more, so clearing the retry and
`agentRequired` then forgets nothing that is still owed. A failed AI save passes the debt to the body that waited, or to
`agentRequired`, which is where the code decides between the two. Both premises are needed. An AI save that ends because the session expired clears the retry
without either (`useNoteAutosave.ts:270`): once the session is back, Cmd/Ctrl+S saves the edit as the user's (8 states). A 409 of a
legacy server is repeated with the body of the user that waited, if there is one (`useNoteAutosave.ts:254`), instead of the AI's (7
states, with another writer). TLC finds these within seconds when `autosave_agent` is given an expiry, or a legacy server and a remote edit.

**NoteAutosave, what a flush and an editor that is gone promise.** A flush succeeds when nothing is unsaved, and the barrier reports
the save started last; that the server then has every accepted edit needs to know what each body holds. `Follows` says that a
body under the newest revision has every accepted edit and an older one has no other; so, with nothing unsaved, the newest
revision was sent and the server has all of them (`Unowed`), which a later save, being of that revision too, cannot undo. `IsLastSave`
ties the request to the barrier: if the barrier has since tracked another save, that one was refused and the barrier has
failed. `LeftWell` is about the editor that is gone: what it did not save is in the request or behind it, is about to be
sent by a flush, or the barrier has failed and stays so. Lost locks, expired sessions, refusals, lost answers, 409s and other writers are all
included. For text that was typed, `Notified` adds that an editor that may save has accepted all it notified, which
is where the premise `MaxExpiries = 0` is needed (finding 3). The premise `Ops = {}` is needed for both: the older AI body of
finding 1 that is saved last takes a newer accepted edit from the server, after which TLC finds the barrier drained and
successful (12 steps) and a flush that succeeds (14 steps) without that edit.

**LiveSession, who may act.** `OneConnection` alone is not inductive, because two attempts to connect
that wait for tickets would become two connections. `Ownership` counts everyone who may still act:
while a connection is open or closing nothing connects and no reconnect timeout runs, and otherwise at
most one attempt or timeout exists; a closing connection that is not the session's own belongs to a
session that is over. `TimersOfThisConnection` and `EndIsFinal` follow and support it (the rollover
timeout relies on the first to know that there is a socket).

**LiveSession, the audio.** Order needs to know that nothing waits while the session can send
(otherwise a chunk would be sent before an older one that waits), and that the session is only ready on
a connection that has said `ready` and was not told to finish (otherwise a chunk would be sent and lost).
`Listens` says both; `Order` says that what was sent is increasing, what waits is increasing, and
the one comes before the other. Lemmas on `Append`, `Tail` and concatenation carry both properties.

**LiveSession, ok means saved.** A connection that finished was told to finish. If it is the session's own, the session rolls
over, or it stops with nothing that waits and no rollover behind it (`Told`); only the latter ends with ok.

**MeetingCapture.** One recording is not inductive, because an older attempt that waits for its meeting might
create a second session. `Owner` says that only the newest attempt can: the session that lives
is its, whoever waits is not newer than it, and while the newest attempt waits on the screen the
phase is "starting", in which nothing else starts. `Held` adds the microphones: those that are on are the one that is
held, it belongs to the newest attempt, and nobody waits for a microphone any more, which is where
the order of the microphones is needed. That the *right* microphone is on is false (finding 6); that none stays on is proved.

**MeetingNotesSave.** A version is saved once by this screen because an attempt keeps its key: the documents of the attempt's version are those
of the attempt (`Attempted`), keys are drawn one after the other (`KeysAreDrawn`), versions only grow and a save is of
the version that is shown (`VersionsInOrder`), and the automatic save counts what it tried (`TriedOnce`). `AppliedIsTrue` is inductive with these.

**MeetingTranscription.** Notes are asked for once because the end of a transcription is shown once, and the poll and the
cancellation both compare `transcriptionRunRef` with what they remembered. `ScreenInv` says whom the screen still listens to: the
poll is of the transcription on the screen, or the end was shown and the effect stops at the next render (`PollWaits`); a
cancellation that may still settle is of that transcription (`CancelsWait`); an upload is the uploading screen's
(`UploadWaits`), an answer to opening that of the opening screen (`RepliesWait`), and what is awaited about notes
belongs to a meeting with a transcript (`NotesWait`). What each of them was told agrees with the server: a
transcription that is over does not begin again (`Over`), and a meeting that is watched was not deleted (`NotDeleted`). From these follow
that notes were asked for only after the end (`AskedOnce`), that what runs is shown (`AllShown`), and that nothing that is on
its way about a closed screen is listened to (`ClosedStep`). There are two lemmas per action, one for types and one for `ScreenInv`.
A deletion in another tab ends the invariant, not the types: `TranscriptionInv` says `tally.elsewhere \/ ScreenInv`.

**EditLock.** That an editor within its deadline holds the lock is not inductive: an answer that is on
its way, or a lock kept for the next editor, becomes an editor's lock in a later step. `Lock` says that,
unless the server's lock is ours or a DELETE of this page took it, there is `NoClaim`: every editor that
holds is late, a handoff is late, every grant on its way is already over (`stale`) whoever takes it
(by re-acquiring, by waiting for the first POST, through the handoff), and a heartbeat that was extended
in time belongs to an editor that holds nothing. The lock goes in two ways. When it expires, everyone who
holds it is late and the grants on their way become stale; when a DELETE takes it and nobody
counted on it, there is no claim at all. `Sane` is what the steps need of the first POST: who acquires
waits for one that is not answered, a request belongs to an editor that was mounted, and a
handoff is never waiting for a POST that was granted. `GrantedBeats` is proved with them, one lemma
per action; lemmas on `Append`, `RemoveAt` and concatenation say which requests are on their way.

**EditLock, a loss is final.** A lost lock is granted again only by a second chain of heartbeats. As long as the page
was never left, each editor has one armed timer, or one heartbeat or re-acquisition whose answer it awaits, never two
of these, and none once it has lost its lock (`OneChain`).

**AuthSession.** A session is called expired falsely if a refresh sends a cookie that was replaced. `AuthInv` says that the tab at the
head of the Web Lock's line is the only one past the first stage (`OneAtATime`), that the cookie is the newest of its
login unless the answer of a refresh brings a newer one (`CookieIsNewest`), that a refresh therefore carries the
newest and is rejected only when the login is dead (`RefreshIsOfNewest`), and that a request is repeated with a fresh
token only (`RequestsAreSent`). The line exists only with Web Locks, which the theorem assumes. That the browser has no
newer session either is `OfSession`: a refresh that is sent, and the token it brought, are of the session of the cookie,
unless a login overtook the requests that wait for it (`RefreshIsOfSession`, `TokenIsOfSession`); for this a refresh never
runs without a request that waits for it (`Waited`).

**MultipartUpload.** That an abort is the last that is sent needs that a batch is over when one is decided:
`MovesInBatch` (only parts of the present batch move), `StoredParts` (what is before the batch is
stored, so complete finds everything), `OneKey` (all documents were made with the key of the upload,
of which the service keeps one) and `Shape` (the types).

**NotionImport implements ImportPromise.** A step maps to a step of the promise only if the request that is
served is one the promise allows, however old it is: `Inv` therefore speaks of every request on its way
(`Proper`: it carries the key and the folder of its item, whose folder exists; a save is of a document that was made,
and the version it replaces is one some content is still for), of what the service holds (`Served`: the
key of what was made is that of its item; a document's version is one more than its saved contents), of what
the run remembers (`Remembered`: what it knows was made, and a document that is not done has a
content left) and of what it waits for (`Running`: an "ok" for an item means that it was made). `View` computes
the abstract variables from `made`; `EffectLemma` sorts the steps into those that change nothing, make
one item, save one content, or close. No order of the plan is assumed: a parent that comes after its
child only makes the child fail.

**NotionImport, success is complete.** `Lines` follows an item from the queue (`QueueIsDrawn`) over the worker that has it to
what the run knows or reports (`Progress`); a run that stops has a failure (`StoppedByFailure`), and one that is over knows everything or
reports something (`EndedRun`). A save is of the version the run knows and its write id was seen once (`WritesInOrder`),
the run knows of no more saved batches than the service has (`SavedIsTrue`), and an answer is about one batch more,
because none of the document's requests on their way is new (`AnswersAreNew`).

**AgentTurn.** The panel has one question, one answer and one turn that is followed, and each is asked for by itself; the proof
is about whose they are. As long as no turn was followed again beside another question or answer, the
turn that is followed is that of the question, nothing else is shown until it ends (`Following`), question, answer and the
document that is made are of one turn that was not set aside (`OneTurn`), and an Esc stops the turn that is followed: a
question whose ID is not known is neither being stopped nor lost (`Unnamed`), and while a turn that may still be cancelled is
being stopped, the panel waits for nothing else (`Stopping`). So who pressed Esc is in `stopped` (`EscapeStops`),
and `AllowedIsAsked` says that the setting the panel knows is not newer than the one it asked for. Each action is an
operator on `panel` followed by the effect of a waiting Esc (`AwaitLemma`), so there is one lemma per operator that says
its result may be shown (`Fits`). Without that history variable only `Decided`, `KnownTurns` and the types remain.

**The notices.** An end is told once because the filter remembers all that was told, and what it remembers does not pass
(`Remembers`). A document is proposed once because the memory of the page and of the browser holds what was told of a
document that waits (`InMemory`, `ProposedBefore`, `RemindedBefore`); of one that returned it may hold nothing until the next
page proposes it a second time, and from then on it does (`ProposedOf`). A PDF is taken in once because one request at most is
on its way, whose task is marked as running, and what the page reads afterwards is no list from before (`SentOnce`); it is
called gone only when its note is, because the list that is on its way was read after the one that missed it (`Missed`);
a task exists only after its conversion is over (`TaskIsOver`).
The stack of cards holds for a stack of any size: `StackInv` says that it is never fuller than it may be and full while a
card waits. `PromoteLemma` shows that whatever leaves the stack, the cards that come back fill it or are all that waited
(`FirstOnes`: the places of rank below the room are as many as the room, or all); `EnqueueLemma` that a new card takes the
place of exactly one that was shown, never by closing a proposal or a result that is young.

Only model-checked:

- all liveness (the prover has no fairness and no `ENABLED`);
- `LiveSession`'s type of `segments`, and with it `TypeOK` and `SegmentsFit`: a fold over the audio that waited
  computes it, and induction over data is out of the prover's reach;
- the type invariants of the compositions (`ClientTypeOK`, `WorkspaceTypeOK`), whose parts are proved where the table says so.

## 6. Plan

Done, in the order of what the user loses when it is wrong: the autosave with its barrier, the edit lock and
the live session; the meeting screen in three modules; the session of the browser; the upload in parts; the
import with the promise it refines; the turns of the agent; the notices.

To come:

1. Composition of `EditLock` and `NoteAutosave` (no save of an editor whose lock another user holds),
   and of `LiveSession` with an abstract promise: each chunk is sent, dropped at the limit, or
   reported; the detailed session refines it.
2. What the partly modelled parts leave out: the plan of a turn that changes folders and skill runs
   (`AgentTurn`), the loops of an import after its writes (`importIngest.ts`), the notices of documents whose
   processing ends (`NoticeStack`), several editors of one document (`EditLock`).
3. `ServerNotifications`: coming back to the tab while a poll is in flight starts a second chain of polls.
4. Proofs: the type invariants that are left.

### Not modelled

- Workspace tree: mutations run one after the other on the newest tree (`serialQueue.ts`), so what could be
  said of them holds by that construction; the refetch that competes with them belongs to TanStack Query,
  which is not in this repository. Renaming by the title bar of the open document
  (`useProjectTree.ts:513`) does not wait in that queue.
- Wiki pages, skills, settings, account, server wake, document transport, server routes: one request and one answer, or a form.
- Rendering, graph layout, search, Markdown conversion: no state that several actors change.
- The PCM16 conversion and the frame parser: pure functions over bytes with unit tests.
- The services themselves, and the mock of them.
