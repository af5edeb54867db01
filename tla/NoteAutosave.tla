---------------------------- MODULE NoteAutosave ----------------------------
(***************************************************************************)
(* features/note-editing/model/useNoteAutosave.ts: one note open in one    *)
(* browser tab, the editor that feeds it (ui/NoteEditor.tsx), the save     *)
(* barrier wiki ingestion waits on, and the Document service it saves to.  *)
(*                                                                         *)
(* The refs of the hook and of the editor are the fields of one record,    *)
(* page. JavaScript runs a callback to its end, so a callback is one       *)
(* action, and what it calls is an operator from a page to a page. The     *)
(* awaits that the scheduler may separate are actions of their own: the    *)
(* request (ServerCommits ... then SaveSucceeds ...), the timers, and the  *)
(* flush of the barrier. A continuation that only waited for promises that *)
(* have settled is a microtask and runs before any other client action     *)
(* (FlushReady).                                                           *)
(***************************************************************************)
EXTENDS PendingNoteSave, DocumentSaveBarrier, Sequences

CONSTANTS MaxEdits,       \* local edits: typed or applied by the AI
          Remote,         \* edits other writers save
          MaxRevision,    \* bound on the revisions Cmd/Ctrl+S makes
          MaxAttempts,    \* AGENT_RETRY_MAX_ATTEMPTS
          LegacyServer,   \* the server answers 409 instead of merging
          MaxFailures,    \* requests or answers lost
          MaxRefusals,    \* 403 answers
          MaxExpiries,    \* times the session ends
          CanLoseLock,    \* the edit lock may be lost
          MaxOpens,       \* times the document is opened
          MaxFlushes,     \* wiki ingestions requested
          MaxToggles      \* changes of the auto-save preference

LocalEdits == 1..MaxEdits

ASSUME BoundsAssumption ==
  /\ MaxEdits \in Nat /\ MaxRevision \in Nat /\ MaxAttempts \in Nat
  /\ MaxFailures \in Nat /\ MaxRefusals \in Nat /\ MaxExpiries \in Nat
  /\ MaxOpens \in Nat \ {0} /\ MaxFlushes \in Nat /\ MaxToggles \in Nat
  /\ LegacyServer \in BOOLEAN /\ CanLoseLock \in BOOLEAN
ASSUME EditsAssumption == Edits = LocalEdits \cup Remote /\ LocalEdits \cap Remote = {}

VARIABLES page,         \* the refs of the editor, the hook and the barrier
          bodies,       \* the server: bodies[v] is the body of version v
          reply,        \* the answer to the request in flight, once there is one
          session,      \* the login: "live" or "expired"
          opOf,         \* local edits made so far, and the AI operation behind each
          overwritten,  \* remote edits the server reported as overwritten
          budget        \* what is left of the bounds above

vars == <<page, bodies, reply, session, opOf, overwritten, budget>>

Statuses == {"saved", "dirty", "saving", "error", "lock-lost", "session-expired"}
Blocks   == {"none", "lock-lost", "session-expired"}
Merges   == {"none", "merged", "overwritten"}

Reply   == [kind : {"waiting", "ok", "conflict", "forbidden", "session-expired", "failed"},
            version : Nat, merge : Merges, body : SUBSET Edits]
NoReply == [kind |-> "waiting", version |-> 0, merge |-> "none", body |-> {}]

Flush   == [pc : {"idle", "draining", "saving", "settling"}, own : Nat, saved : BOOLEAN,
            result : {"none", "ok", "failed"}]
NoFlush == [pc |-> "idle", own |-> 0, saved |-> TRUE, result |-> "none"]

Page ==
  [editor : SUBSET Edits,        \* the ProseMirror document
   bodyRef : SUBSET Edits,       \* the body the editor last notified
   mounted : BOOLEAN, autoSave : BOOLEAN, lock : {"granted", "lost"},
   status : Statuses,
   version : Nat, revision : Nat,
   scheduled : Candidate, timer : {"off", "typed", "toggled"},
   unsaved : Candidate,
   inflight : Candidate,         \* saveInFlightRef and what was sent
   base : Nat, seq : Nat,        \* its expected version, its barrier sequence
   pending : Candidate,
   block : Blocks, legacyRetry : BOOLEAN,
   agentRequired : BOOLEAN, agentOp : Ops \cup {NoOp},
   retryTimer : Candidate,       \* the candidate the armed timer closes over
   retryCandidate : Candidate, attempts : Nat,
   saves : DocumentSaveState, flush : Flush,
   accepted : SUBSET Edits,      \* history: edits that became a candidate
   sent : Nat]                   \* history: newest revision sent

\* A freshly mounted editor on the body and version it loaded.
Opened(body, version, saves) ==
  [editor |-> body, bodyRef |-> body, mounted |-> TRUE, autoSave |-> TRUE, lock |-> "granted",
   status |-> "saved", version |-> version, revision |-> 0,
   scheduled |-> NoSave, timer |-> "off", unsaved |-> NoSave,
   inflight |-> NoSave, base |-> 0, seq |-> 0, pending |-> NoSave,
   block |-> "none", legacyRetry |-> FALSE,
   agentRequired |-> FALSE, agentOp |-> NoOp,
   retryTimer |-> NoSave, retryCandidate |-> NoSave, attempts |-> 0,
   saves |-> saves, flush |-> NoFlush, accepted |-> body \cap LocalEdits, sent |-> 0]

Init ==
  /\ page = Opened({}, 1, Fresh)
  /\ bodies = <<{}>>
  /\ reply = NoReply
  /\ session = "live"
  /\ opOf = <<>>
  /\ overwritten = {}
  /\ budget = [failures |-> MaxFailures, refusals |-> MaxRefusals, expiries |-> MaxExpiries,
               opens |-> MaxOpens - 1, flushes |-> MaxFlushes, toggles |-> MaxToggles]

Current == bodies[Len(bodies)]
-----------------------------------------------------------------------------
(* The functions the callbacks of the hook call. *)

SetStatus(p, status) == IF p.mounted THEN [p EXCEPT !.status = status] ELSE p

\* isSaveBlocked: an expired session unblocks once it is back, a lost lock never does.
Unblocked(p) ==
  IF p.block = "session-expired" /\ session = "live" THEN [p EXCEPT !.block = "none"] ELSE p

CancelAgentRetry(p) == [p EXCEPT !.retryTimer = NoSave, !.retryCandidate = NoSave]

ClearScheduledSave(p) == CancelAgentRetry([p EXCEPT !.timer = "off", !.scheduled = NoSave])

\* Mutant: one attempt too few.
ScheduleAgentRetry_OneLess(p, candidate) ==
  IF ~p.mounted THEN p
  ELSE IF p.pending # NoSave \/ p.attempts + 1 >= MaxAttempts
  THEN [p EXCEPT !.retryCandidate = NoSave]
  ELSE [p EXCEPT !.attempts = @ + 1, !.retryTimer = candidate, !.retryCandidate = candidate]

\* scheduleAgentRetry with planAgentRetryAfterFailure
ScheduleAgentRetry(p, candidate) ==
  IF ~p.mounted THEN p
  ELSE IF p.pending # NoSave \/ p.attempts >= MaxAttempts
  THEN [p EXCEPT !.retryCandidate = NoSave]
  ELSE [p EXCEPT !.attempts = @ + 1, !.retryTimer = candidate, !.retryCandidate = candidate]

\* flushSave up to its await: the request leaves with the version known now.
StartRequest(p, candidate) ==
  LET started == [p EXCEPT !.inflight = candidate, !.base = p.version,
                           !.agentOp = IF candidate.source = "agent" THEN candidate.op ELSE @,
                           !.saves = Track(@), !.seq = p.saves.sequence + 1,
                           !.sent = IF candidate.revision > @ THEN candidate.revision ELSE @]
  IN  SetStatus(started, "saving")

\* Mutant: a body that arrives while a request is in flight is dropped.
TrackedFlushSave_DropsWaiting(p, candidate) ==
  LET save == ApplyRequiredAgentSource(candidate, p.agentRequired, p.agentOp)
      u    == Unblocked(p)
  IN  CASE u.block # "none"    -> [u EXCEPT !.saves = TrackSettled(@, FALSE)]
        [] u.inflight # NoSave -> u
        [] OTHER               -> StartRequest(u, save)

\* Mutant: a lost lock does not stop a save.
TrackedFlushSave_IgnoresBlock(p, candidate) ==
  LET save == ApplyRequiredAgentSource(candidate, p.agentRequired, p.agentOp)
  IN  IF p.inflight # NoSave
      THEN [p EXCEPT !.pending = MergePendingNoteSave(@, save)]
      ELSE StartRequest(p, save)

(***************************************************************************)
(* trackedFlushSave and flushSave: refused while blocked, queued behind a  *)
(* request in flight, else sent. The barrier tracks what was not queued,   *)
(* a refusal as a save that failed at once.                                *)
(***************************************************************************)
TrackedFlushSave(p, candidate) ==
  LET save == ApplyRequiredAgentSource(candidate, p.agentRequired, p.agentOp)
      u    == Unblocked(p)
  IN  IF u.block # "none"
      THEN IF u.inflight # NoSave THEN u ELSE [u EXCEPT !.saves = TrackSettled(@, FALSE)]
      ELSE IF u.inflight # NoSave
      THEN [u EXCEPT !.pending = MergePendingNoteSave(@, save)]
      ELSE StartRequest(u, save)

\* The candidate queueSave and saveNow build from the body of the editor.
NewCandidate(p, body, source, op) ==
  LET agent == source = "agent" \/ p.agentRequired
  IN  [revision |-> p.revision + 1, body |-> body,
       source |-> IF agent THEN "agent" ELSE "user",
       op |-> IF agent THEN OrElse(op, p.agentOp) ELSE NoOp]

\* The refs both of them set.
Accept(p, candidate) ==
  [CancelAgentRetry(p) EXCEPT !.revision = candidate.revision, !.unsaved = candidate,
                              !.timer = "off", !.scheduled = NoSave,
                              !.accepted = @ \cup candidate.body]

\* queueSave
QueueSave(p, body, source, op) ==
  LET u == Unblocked(p)
      c == NewCandidate(u, body, source, op)
      a == [Accept(u, c) EXCEPT !.status = "dirty"]
  IN  IF u.block # "none" THEN u
      ELSE IF source = "agent" THEN TrackedFlushSave(a, c)
      ELSE [a EXCEPT !.scheduled = c, !.timer = IF a.autoSave THEN "typed" ELSE "off"]

\* saveNow
SaveNow(p, body) ==
  LET u == Unblocked(p)
      c == NewCandidate(u, body, "user", NoOp)
  IN  IF u.block # "none" THEN u ELSE TrackedFlushSave(Accept(u, c), c)

\* Mutant: what was typed since the body was sent is replaced by the server's body.
MergeEditorMarkdown_Replaces(p, next) == [p EXCEPT !.editor = next, !.bodyRef = next]

(***************************************************************************)
(* NoteEditor's mergeEditorMarkdown: the merged body of the server goes    *)
(* into the editor, input not notified yet is kept on top and queued.      *)
(***************************************************************************)
MergeEditorMarkdown(p, next) ==
  LET typed  == p.editor \ p.bodyRef
      merged == [p EXCEPT !.editor = next \cup typed, !.bodyRef = next \cup typed]
  IN  IF typed = {} THEN merged ELSE QueueSave(merged, next \cup typed, "user", NoOp)

\* Mutant: the body that waited is forgotten when the request ends.
FinishRequest_DropsPending(p, saved) ==
  [p EXCEPT !.inflight = NoSave, !.pending = NoSave, !.saves = Settle(@, p.seq, saved)]

(***************************************************************************)
(* The finally block and, one microtask later, the barrier's bookkeeping:  *)
(* the body that waited is sent unless saving is blocked.                  *)
(***************************************************************************)
FinishRequest(p, saved) ==
  LET done == [p EXCEPT !.inflight = NoSave, !.pending = NoSave]
      next == IF p.pending # NoSave /\ p.block = "none"
              THEN TrackedFlushSave(done, p.pending) ELSE done
  IN  [next EXCEPT !.saves = Settle(@, p.seq, saved),
                   !.flush = IF @.pc = "saving" /\ @.own = p.seq
                             THEN [@ EXCEPT !.own = 0, !.saved = saved] ELSE @]

\* beforeFlush of NoteEditor: input not notified yet is queued.
BeforeFlush(p) ==
  IF p.mounted /\ p.editor # p.bodyRef
  THEN QueueSave([p EXCEPT !.bodyRef = p.editor], p.editor, "user", NoOp)
  ELSE p
-----------------------------------------------------------------------------
(* What an answer does to the page. *)

IsLatestEdit(p) == p.inflight.revision = p.revision /\ p.pending = NoSave

\* Mutant: the new version is the base even when the editor lacks what was merged.
AdoptVersion_Always(p, answer) == [p EXCEPT !.version = answer.version, !.legacyRetry = FALSE]

\* A merge the editor cannot take in keeps the old base, to be merged again.
AdoptVersion(p, answer) ==
  [p EXCEPT !.version = IF answer.merge = "none" \/ IsLatestEdit(p) THEN answer.version ELSE @,
            !.legacyRetry = FALSE]

\* reportServerMerge and onServerMerge; notices are left out.
ReportServerMerge(p, answer) ==
  IF p.mounted /\ answer.merge # "none" /\ IsLatestEdit(p) /\ answer.body # p.bodyRef
  THEN MergeEditorMarkdown(p, answer.body) ELSE p

ClearUnsaved(p, saved) ==
  [p EXCEPT !.unsaved = IF @.revision = saved.revision THEN NoSave ELSE @]

AgentSaved(p) ==
  CancelAgentRetry([p EXCEPT !.agentOp = NoOp, !.agentRequired = FALSE, !.attempts = 0])

\* Mutant: every success shows "saved".
OnSaved_AlwaysSaved(p, answer) ==
  LET saved  == p.inflight
      merged == ReportServerMerge(AdoptVersion(p, answer), answer)
      done   == ClearUnsaved(merged, saved)
  IN  FinishRequest(SetStatus(IF saved.source = "agent" THEN AgentSaved(done) ELSE done, "saved"),
                    TRUE)

\* flushSave after its await, the request having succeeded.
OnSaved(p, answer) ==
  LET saved  == p.inflight
      merged == ReportServerMerge(AdoptVersion(p, answer), answer)
      done   == ClearUnsaved(merged, saved)
      agent  == IF saved.source = "agent" THEN AgentSaved(done) ELSE done
  IN  FinishRequest(SetStatus(agent, IF saved.revision = agent.revision THEN "saved" ELSE "dirty"),
                    TRUE)

\* A 409 of a legacy server, once the draft was fetched: latest is 0 when unknown.
OnConflict(p, latest) ==
  LET rebased == [p EXCEPT !.version = IF latest # 0 THEN latest ELSE @]
  IN  IF ~p.legacyRetry /\ latest # 0
      THEN FinishRequest([rebased EXCEPT !.legacyRetry = TRUE,
                                         !.pending = IF @ = NoSave THEN p.inflight ELSE @], FALSE)
      ELSE FinishRequest(SetStatus([rebased EXCEPT !.legacyRetry = FALSE], "error"), FALSE)

\* Mutant: a failed AI save leaves no trace for the next save.
OnFailed_ForgetsAgent(p) == FinishRequest(SetStatus(p, "error"), FALSE)

\* Mutant: a failed save of the user is retried as if it were the AI's.
OnFailed_RetriesAll(p) ==
  LET recovered == [p EXCEPT !.pending = PromoteAfterAgentFailure(@),
                             !.agentRequired = (p.pending = NoSave)]
  IN  FinishRequest(SetStatus(ScheduleAgentRetry(recovered, p.inflight), "error"), FALSE)

\* Any other failure: an AI save is passed on to the waiting body or retried.
OnFailed(p) ==
  LET recovered == [p EXCEPT !.pending = PromoteAfterAgentFailure(@),
                             !.agentRequired = (p.pending = NoSave)]
      planned   == IF p.inflight.source = "agent"
                   THEN ScheduleAgentRetry(recovered, p.inflight) ELSE p
  IN  FinishRequest(SetStatus(planned, "error"), FALSE)

\* 403 and SessionExpiredError
OnBlocked(p, block) ==
  FinishRequest(SetStatus(CancelAgentRetry([p EXCEPT !.block = block]), block), FALSE)
-----------------------------------------------------------------------------
(* The Document service and the login (external). *)

\* Microtasks that are due: the flush has nothing left to wait for.
FlushReady == page.flush.pc # "idle" /\ Drained(page.saves)

\* A callback the browser runs once no microtask is due.
Task == ~FlushReady

\* The outcomes of a save on base: merged with what came since, or written over it.
Commit(body, base) ==
  IF base = Len(bodies) THEN {[merge |-> "none", body |-> body]}
  ELSE {[merge |-> "merged", body |-> body \cup (Current \ bodies[base])],
        [merge |-> "overwritten", body |-> body]}

Waiting == page.inflight # NoSave /\ reply = NoReply

Spend(name) == budget[name] > 0 /\ budget' = [budget EXCEPT ![name] = @ - 1]

\* The save is committed. Its answer arrives, or is lost on the way.
ServerCommits ==
  /\ Waiting /\ session = "live"
  /\ ~LegacyServer \/ page.base = Len(bodies)
  /\ \E saved \in Commit(page.inflight.body, page.base) :
       /\ bodies' = Append(bodies, saved.body)
       /\ overwritten' = IF saved.merge = "overwritten"
                         THEN overwritten \cup ((Current \ bodies[page.base]) \cap Remote)
                         ELSE overwritten
       /\ \/ /\ reply' = [kind |-> "ok", version |-> Len(bodies) + 1,
                          merge |-> saved.merge, body |-> saved.body]
             /\ UNCHANGED budget
          \/ /\ reply' = [NoReply EXCEPT !.kind = "failed"]
             /\ Spend("failures")
  /\ UNCHANGED <<page, session, opOf>>

\* 409 with the current revision: only servers from before the automatic merge.
ServerConflicts ==
  /\ Waiting /\ session = "live" /\ LegacyServer /\ page.base # Len(bodies)
  /\ reply' = [NoReply EXCEPT !.kind = "conflict", !.version = Len(bodies)]
  /\ UNCHANGED <<page, bodies, session, opOf, overwritten, budget>>

\* The request is lost before it is committed.
RequestLost ==
  /\ Waiting
  /\ Spend("failures")
  /\ reply' = [NoReply EXCEPT !.kind = "failed"]
  /\ UNCHANGED <<page, bodies, session, opOf, overwritten>>

\* 403: the right to edit was taken away.
ServerForbids ==
  /\ Waiting /\ session = "live"
  /\ Spend("refusals")
  /\ reply' = [NoReply EXCEPT !.kind = "forbidden"]
  /\ UNCHANGED <<page, bodies, session, opOf, overwritten>>

\* apiFetch throws SessionExpiredError.
SessionRefuses ==
  /\ Waiting /\ session = "expired"
  /\ reply' = [NoReply EXCEPT !.kind = "session-expired"]
  /\ UNCHANGED <<page, bodies, session, opOf, overwritten, budget>>

\* Another writer saves on the current version.
RemoteSaves(r) ==
  /\ r \notin UNION {bodies[v] : v \in DOMAIN bodies}
  /\ bodies' = Append(bodies, Current \cup {r})
  /\ UNCHANGED <<page, reply, session, opOf, overwritten, budget>>

SessionExpires ==
  /\ Task /\ session = "live"
  /\ Spend("expiries")
  /\ session' = "expired"
  /\ UNCHANGED <<page, bodies, reply, opOf, overwritten>>

\* A refresh or a login, here or in another tab.
SessionReturns ==
  /\ Task /\ session = "expired"
  /\ session' = "live"
  /\ UNCHANGED <<page, bodies, reply, opOf, overwritten, budget>>
-----------------------------------------------------------------------------
(* The client. *)

ServerUnchanged == UNCHANGED <<bodies, session, overwritten>>

NextEdit == Len(opOf) + 1

\* The user types; Milkdown notifies the change later.
Type ==
  /\ Task /\ page.mounted /\ NextEdit \in LocalEdits
  /\ opOf' = Append(opOf, NoOp)
  /\ page' = [page EXCEPT !.editor = @ \cup {NextEdit}]
  /\ UNCHANGED <<reply, budget>> /\ ServerUnchanged

\* markdownUpdated
MarkdownUpdated ==
  /\ Task /\ page.mounted /\ page.editor # page.bodyRef
  /\ page' = QueueSave([page EXCEPT !.bodyRef = page.editor], page.editor, "user", NoOp)
  /\ UNCHANGED <<reply, opOf, budget>> /\ ServerUnchanged

\* applyMarkdown: an AI edit on a writable editor that has notified everything.
ApplyMarkdown(op) ==
  LET body == page.editor \cup {NextEdit}
  IN  /\ Task /\ page.mounted /\ NextEdit \in LocalEdits
      /\ page.lock = "granted" /\ page.status \notin {"lock-lost", "session-expired"}
      /\ page.editor = page.bodyRef
      /\ op \notin {opOf[e] : e \in DOMAIN opOf}
      /\ opOf' = Append(opOf, op)
      /\ page' = QueueSave([page EXCEPT !.editor = body, !.bodyRef = body], body, "agent", op)
      /\ UNCHANGED <<reply, budget>> /\ ServerUnchanged

\* Cmd/Ctrl+S
SaveShortcut ==
  /\ Task /\ page.mounted /\ page.revision < MaxRevision
  /\ page' = SaveNow(page, page.bodyRef)
  /\ UNCHANGED <<reply, opOf, budget>> /\ ServerUnchanged

\* The debounce of queueSave ends.
DebounceFires ==
  /\ Task /\ page.timer # "off"
  /\ page' = LET idle == [page EXCEPT !.timer = "off", !.scheduled = NoSave]
             IN  IF page.scheduled = NoSave THEN idle
                 ELSE TrackedFlushSave(idle, page.scheduled)
  /\ UNCHANGED <<reply, opOf, budget>> /\ ServerUnchanged

(***************************************************************************)
(* The timer of the AI retry ends. Its delay is longer than the debounce   *)
(* and typing cancels it, so a debounce that typing armed ends before it.  *)
(***************************************************************************)
AgentRetryFires ==
  /\ Task /\ page.retryTimer # NoSave /\ page.timer # "typed"
  /\ page' = LET idle == CancelAgentRetry(page)
             IN  IF idle.block # "none" THEN idle ELSE TrackedFlushSave(idle, page.retryTimer)
  /\ UNCHANGED <<reply, opOf, budget>> /\ ServerUnchanged

\* The preference changes; switched on, it schedules the body that waits.
ToggleAutoSave ==
  /\ Task /\ page.mounted
  /\ Spend("toggles")
  /\ page' = [page EXCEPT !.autoSave = ~@,
                          !.timer = IF ~page.autoSave /\ page.scheduled # NoSave /\ @ = "off"
                                    THEN "toggled" ELSE @]
  /\ UNCHANGED <<reply, opOf>> /\ ServerUnchanged

SaveSucceeds ==
  /\ Task /\ reply.kind = "ok"
  /\ page' = OnSaved(page, reply)
  /\ reply' = NoReply
  /\ UNCHANGED <<opOf, budget>> /\ ServerUnchanged

\* The fetched draft is at least as new as the 409; the fetch may fail, too.
SaveConflicts ==
  /\ Task /\ reply.kind = "conflict"
  /\ \/ \E latest \in reply.version..Len(bodies) : page' = OnConflict(page, latest)
     \/ page' = OnConflict(page, 0)
  /\ reply' = NoReply
  /\ UNCHANGED <<opOf, budget>> /\ ServerUnchanged

SaveFails ==
  /\ Task /\ reply.kind = "failed"
  /\ page' = OnFailed(page)
  /\ reply' = NoReply
  /\ UNCHANGED <<opOf, budget>> /\ ServerUnchanged

\* Mutant: the block is named after the answer.
SaveForbidden_Named ==
  /\ Task /\ reply.kind = "forbidden"
  /\ page' = OnBlocked(page, reply.kind)
  /\ reply' = NoReply
  /\ UNCHANGED <<opOf, budget>> /\ ServerUnchanged

SaveForbidden ==
  /\ Task /\ reply.kind = "forbidden"
  /\ page' = OnBlocked(page, "lock-lost")
  /\ reply' = NoReply
  /\ UNCHANGED <<opOf, budget>> /\ ServerUnchanged

SaveUnauthorized ==
  /\ Task /\ reply.kind = "session-expired"
  /\ page' = OnBlocked(page, "session-expired")
  /\ reply' = NoReply
  /\ UNCHANGED <<opOf, budget>> /\ ServerUnchanged

\* onLockLost of the edit lock: reportSaveBlock("lock-lost").
LoseLock ==
  /\ Task /\ page.mounted /\ CanLoseLock /\ page.lock = "granted"
  /\ page' = LET lost == [page EXCEPT !.lock = "lost"]
             IN  IF page.block = "lock-lost" THEN lost
                 ELSE SetStatus(ClearScheduledSave([lost EXCEPT !.block = "lock-lost",
                                                                !.pending = NoSave]), "lock-lost")
  /\ UNCHANGED <<reply, opOf, budget>> /\ ServerUnchanged

\* Mutant: the cleanup only stops the timers.
Unmount_DropsScheduled ==
  /\ Task /\ page.mounted
  /\ page' = ClearScheduledSave([page EXCEPT !.mounted = FALSE])
  /\ UNCHANGED <<reply, opOf, budget>> /\ ServerUnchanged

\* The user opens another document: what still waits is sent at once.
Unmount ==
  LET waiting  == IF page.scheduled # NoSave THEN page.scheduled
                  ELSE IF page.inflight = NoSave THEN page.unsaved ELSE NoSave
      detached == SelectDetachedSaveCandidate(waiting, page.retryCandidate)
      gone     == Unblocked(ClearScheduledSave([page EXCEPT !.mounted = FALSE]))
  IN  /\ Task /\ page.mounted
      /\ page' = IF gone.block # "none"
                 THEN IF gone.unsaved # NoSave
                      THEN [gone EXCEPT !.saves = TrackSettled(@, FALSE)] ELSE gone
                 ELSE IF detached # NoSave THEN TrackedFlushSave(gone, detached) ELSE gone
      /\ UNCHANGED <<reply, opOf, budget>> /\ ServerUnchanged

(***************************************************************************)
(* SourcePreviewPanel loads the document again once its saves are drained. *)
(* A flush of the editor that is gone is let end first (a bound).          *)
(***************************************************************************)
Reopen ==
  /\ Task /\ ~page.mounted /\ Drained(page.saves) /\ page.flush.pc = "idle"
  /\ Spend("opens")
  /\ page' = Opened(Current, Len(bodies), page.saves)
  /\ UNCHANGED <<reply, opOf>> /\ ServerUnchanged
-----------------------------------------------------------------------------
(* Wiki ingestion: flushPendingDocumentSave and flushPendingSave. *)

EndFlush(p, ok) == [p EXCEPT !.flush = [NoFlush EXCEPT !.result = IF ok THEN "ok" ELSE "failed"]]

\* Without an editor only the saves still running are awaited.
StartFlush ==
  /\ Task /\ page.flush.pc = "idle"
  /\ Spend("flushes")
  /\ page' = IF page.mounted
             THEN [ClearScheduledSave(BeforeFlush(page)) EXCEPT
                     !.flush = [NoFlush EXCEPT !.pc = "draining"]]
             ELSE [page EXCEPT !.flush = [NoFlush EXCEPT !.pc = "settling"]]
  /\ UNCHANGED <<reply, opOf>> /\ ServerUnchanged

\* Mutant: the editor's last input is not read before the decision.
FlushRound_NoSync(p) ==
  IF p.unsaved = NoSave THEN EndFlush(p, p.saves.success)
  ELSE IF Unblocked(p).block # "none" THEN EndFlush(p, FALSE)
  ELSE LET sent == TrackedFlushSave(ClearScheduledSave(Unblocked(p)), p.unsaved)
       IN  [sent EXCEPT !.flush = [NoFlush EXCEPT !.pc = "saving", !.own = sent.seq]]

\* One turn of its loop: done when nothing is unsaved, else save and wait again.
FlushRound(p) ==
  LET synced == BeforeFlush(p)
      open   == Unblocked(synced)
      sent   == TrackedFlushSave(ClearScheduledSave(open), open.unsaved)
  IN  IF synced.unsaved = NoSave THEN EndFlush(synced, synced.saves.success)
      ELSE IF open.block # "none" THEN EndFlush(open, FALSE)
      ELSE [sent EXCEPT !.flush = [NoFlush EXCEPT !.pc = "saving", !.own = sent.seq]]

ContinueFlush ==
  /\ FlushReady
  /\ page' = CASE page.flush.pc = "settling" -> EndFlush(page, page.saves.success)
               [] page.flush.pc = "saving" /\ ~page.flush.saved /\ page.unsaved # NoSave
                    -> EndFlush(page, FALSE)
               [] OTHER -> FlushRound(page)
  /\ UNCHANGED <<reply, opOf, budget>> /\ ServerUnchanged
-----------------------------------------------------------------------------
Server == \/ ServerCommits \/ ServerConflicts \/ RequestLost \/ ServerForbids \/ SessionRefuses

Answered == \/ SaveSucceeds \/ SaveConflicts \/ SaveFails \/ SaveForbidden \/ SaveUnauthorized

User == \/ Type \/ SaveShortcut \/ ToggleAutoSave \/ Unmount \/ Reopen \/ StartFlush
        \/ \E op \in Ops : ApplyMarkdown(op)

World == \/ SessionExpires \/ SessionReturns \/ LoseLock
         \/ \E r \in Remote : RemoteSaves(r)

Next == \/ User \/ World \/ Server \/ Answered
        \/ MarkdownUpdated \/ DebounceFires \/ AgentRetryFires \/ ContinueFlush

Spec == Init /\ [][Next]_vars

(***************************************************************************)
(* Timers end, notifications are delivered, microtasks run, and a request  *)
(* is answered or lost. Nothing is assumed of the user or of the session.  *)
(***************************************************************************)
Fairness == /\ WF_vars(Server) /\ WF_vars(Answered) /\ WF_vars(MarkdownUpdated)
            /\ WF_vars(DebounceFires) /\ WF_vars(AgentRetryFires) /\ WF_vars(ContinueFlush)

FairSpec == Spec /\ Fairness
-----------------------------------------------------------------------------
(* Properties. *)

Budgets == [failures : 0..MaxFailures, refusals : 0..MaxRefusals, expiries : 0..MaxExpiries,
            opens : 0..(MaxOpens - 1), flushes : 0..MaxFlushes, toggles : 0..MaxToggles]

\* Every ref has its type, and the AI retry stays within its attempts.
TypeOK ==
  /\ page \in Page /\ page.attempts <= MaxAttempts
  /\ bodies \in Seq(SUBSET Edits) /\ bodies # <<>>
  /\ reply \in Reply
  /\ session \in {"live", "expired"}
  /\ opOf \in Seq(Ops \cup {NoOp})
  /\ overwritten \subseteq Remote
  /\ budget \in Budgets

\* The badge "saved" is never shown over an accepted edit that is not saved, nor over a request
\* that still runs (flushSave sets it only for the newest revision).
SavedBadgeIsTrue ==
  page.mounted /\ page.status = "saved" => page.unsaved = NoSave /\ page.inflight = NoSave

\* An accepted edit is never orphaned: while saving is not blocked, the newest body waits in the
\* debounce, behind a request, in it, in the AI retry or in a flush; otherwise "error" is shown.
UnsavedIsHeld ==
  page.mounted /\ page.block = "none" /\ page.unsaved # NoSave =>
    \/ page.status = "error"
    \/ page.flush.pc \in {"draining", "saving"}
    \/ \E c \in {page.scheduled, page.pending, page.inflight, page.retryCandidate} :
         c.revision = page.unsaved.revision

\* The save started last carries the newest body ever sent: no queue, timer or retry sends an
\* older body after a newer one (documentSaveBarrier.ts: the last save owns the latest body).
NewestBodyIsSentLast == page.inflight # NoSave => page.inflight.revision = page.sent

\* What another writer saved stays in the document unless the server reported it as overwritten:
\* the base version never runs ahead of what the editor contains.
RemoteEditsSurvive ==
  (UNION {bodies[v] : v \in DOMAIN bodies}) \cap Remote \subseteq Current \cup overwritten

FlushSucceeds == page'.flush.result = "ok" /\ page.flush.pc # "idle"

\* A flush that lets wiki ingestion start has put every accepted edit on the server, whoever
\* saved it and whether or not the editor is still open (flushPendingDocumentSave).
FlushSavesAccepted == [][ FlushSucceeds => page'.accepted \subseteq Current ]_vars

\* It has also saved what is in the open editor, notified or not, unless saving is blocked
\* (flushPendingSave reads the editor before it decides).
FlushSavesTyped ==
  [][ FlushSucceeds /\ page'.mounted /\ page'.block = "none"
      => page'.editor \cap LocalEdits \subseteq Current ]_vars

\* A flush that lets wiki ingestion start has saved what was accepted and what was typed.
FlushSaves == FlushSavesAccepted /\ FlushSavesTyped

\* Once the editor is gone and its saves are drained, a barrier that reports success means
\* that whoever loads the document finds every edit made before.
DetachedEditsAreSaved ==
  ~page.mounted /\ page.flush.pc = "idle" /\ Drained(page.saves) /\ page.saves.success
    => page.accepted \subseteq Current

RequestStarts == page'.inflight # NoSave /\ (page.inflight = NoSave \/ page'.seq # page.seq)

\* Once the edit lock is lost, this editor sends no save any more.
LockLossIsFinal == [][ page.lock = "lost" /\ page'.mounted = page.mounted => ~RequestStarts ]_vars

\* The save that first brings an AI edit to the server says it comes from the agent.
AgentEditsAreSavedAsAgent ==
  [][ \A e \in (bodies'[Len(bodies')] \ UNION {bodies[v] : v \in DOMAIN bodies}) \cap LocalEdits :
        opOf[e] # NoOp => page.inflight.source = "agent" ]_vars

\* Nothing the user typed disappears from the editor while it is open.
TypedTextStays ==
  [][ page.mounted /\ page'.mounted => page.editor \cap LocalEdits \subseteq page'.editor ]_vars

\* With auto-save on, an accepted edit is saved, or the user is told that it is not.
EditsAreSavedOrReported ==
  page.unsaved # NoSave /\ page.autoSave
    ~> page.unsaved = NoSave \/ ~page.autoSave \/ ~page.mounted
         \/ page.status \in {"error", "lock-lost", "session-expired"}

\* Wiki ingestion is started or refused, it never waits forever.
FlushEnds == page.flush.pc # "idle" ~> page.flush.pc = "idle"

\* An AI edit reaches the server by itself as long as fewer requests are lost than retried and
\* saving is allowed. With auto-save off a typed edit takes its place and waits for the user.
AgentEditsReachTheServer ==
  \A e \in LocalEdits :
    (e <= Len(opOf) /\ opOf[e] # NoOp)
      ~> (e \in Current \/ ~page.mounted \/ ~page.autoSave \/ page.block = "lock-lost")
=============================================================================
