------------------------- MODULE NoteAutosave_proofs -------------------------
(***************************************************************************)
(* Proofs about NoteAutosave for every value of its constants: the types   *)
(* and the badge, the newest body, the edits of other writers and the lost *)
(* lock. The lemmas about the operators on a page come first.              *)
(***************************************************************************)
EXTENDS NoteAutosave, TLAPS

(* Lemmas about the operators that build a page. *)

LEMMA NoSaveType == NoSave \in Candidate
BY DEF NoSave, Candidate, Sources

LEMMA MergeType ==
  ASSUME NEW c \in Candidate, NEW d \in Candidate
  PROVE  MergePendingNoteSave(c, d) \in Candidate /\ MergePendingNoteSave(c, d).revision = d.revision
BY DEF MergePendingNoteSave, Candidate, Sources, OrElse

LEMMA RequiredSourceType ==
  ASSUME NEW c \in Candidate, NEW b \in BOOLEAN, NEW op \in Ops \cup {NoOp}
  PROVE  /\ ApplyRequiredAgentSource(c, b, op) \in Candidate
         /\ ApplyRequiredAgentSource(c, b, op).revision = c.revision
BY DEF ApplyRequiredAgentSource, Candidate, Sources, OrElse

LEMMA TrackType ==
  ASSUME NEW s \in DocumentSaveState
  PROVE  Track(s) \in DocumentSaveState
<1>1. /\ s.sequence \in Nat /\ s.pending \in SUBSET Nat /\ s.success \in BOOLEAN
  BY DEF DocumentSaveState
<1>2. s.sequence + 1 \in Nat /\ s.pending \cup {s.sequence + 1} \in SUBSET Nat
  BY <1>1
<1> QED BY <1>1, <1>2 DEF Track, DocumentSaveState

LEMMA SettleType ==
  ASSUME NEW s \in DocumentSaveState, NEW n \in Nat, NEW ok \in BOOLEAN
  PROVE  Settle(s, n, ok) \in DocumentSaveState
BY DEF Settle, Fresh, DocumentSaveState

LEMMA SetStatusType ==
  ASSUME NEW p \in Page, NEW status \in Statuses
  PROVE  SetStatus(p, status) \in Page
BY DEF SetStatus, Page

LEMMA StartType ==
  ASSUME NEW p \in Page, NEW c \in Candidate
  PROVE  StartRequest(p, c) \in Page
<1> DEFINE started == [p EXCEPT !.inflight = c, !.base = p.version,
                           !.agentOp = IF c.source = "agent" THEN c.op ELSE @,
                           !.saves = Track(@), !.seq = p.saves.sequence + 1,
                           !.sent = IF c.revision > @ THEN c.revision ELSE @]
<1>1. Track(p.saves) \in DocumentSaveState /\ p.saves.sequence + 1 \in Nat
  BY TrackType DEF Page, DocumentSaveState
<1>2. c.source \in Sources /\ c.op \in Ops \cup {NoOp} /\ c.revision \in Nat
  BY DEF Candidate
<1>3. started \in Page
  BY <1>1, <1>2, ZenonT(40) DEF Page
<1>4. "saving" \in Statuses
  BY DEF Statuses
<1> QED BY <1>3, <1>4, SetStatusType DEF StartRequest

-----------------------------------------------------------------------------
(***************************************************************************)
(* The strengthening behind SavedBadgeIsTrue: the body that waits to be    *)
(* saved is the newest one. When the request that succeeds carries the     *)
(* current revision, ClearUnsaved therefore clears it.                     *)
(***************************************************************************)
UnsavedIsNewest(p) == p.unsaved # NoSave => p.unsaved.revision = p.revision

Sound(p) == p \in Page /\ p.attempts <= MaxAttempts /\ UnsavedIsNewest(p)

BadgeIsTrue(p) == p.mounted /\ p.status = "saved" => p.unsaved = NoSave /\ p.inflight = NoSave

LEMMA UnblockedSound ==
  ASSUME NEW p, Sound(p)
  PROVE  Sound(Unblocked(p)) /\ (BadgeIsTrue(p) => BadgeIsTrue(Unblocked(p)))
BY DEF Unblocked, Sound, UnsavedIsNewest, BadgeIsTrue, Page, Blocks

LEMMA CancelSound ==
  ASSUME NEW p, Sound(p)
  PROVE  Sound(CancelAgentRetry(p)) /\ (BadgeIsTrue(p) => BadgeIsTrue(CancelAgentRetry(p)))
BY NoSaveType DEF CancelAgentRetry, Sound, UnsavedIsNewest, BadgeIsTrue, Page

LEMMA ClearScheduledSound ==
  ASSUME NEW p, Sound(p)
  PROVE  Sound(ClearScheduledSave(p)) /\ (BadgeIsTrue(p) => BadgeIsTrue(ClearScheduledSave(p)))
<1> DEFINE q == [p EXCEPT !.timer = "off", !.scheduled = NoSave]
<1>1. Sound(q) /\ (BadgeIsTrue(p) => BadgeIsTrue(q))
  BY NoSaveType DEF Sound, UnsavedIsNewest, BadgeIsTrue, Page
<1> HIDE DEF q
<1>2. Sound(CancelAgentRetry(q)) /\ (BadgeIsTrue(q) => BadgeIsTrue(CancelAgentRetry(q)))
  BY <1>1, CancelSound
<1> QED BY <1>1, <1>2 DEF ClearScheduledSave, q

LEMMA SetStatusSound ==
  ASSUME NEW p, Sound(p), NEW status \in Statuses
  PROVE  /\ Sound(SetStatus(p, status))
         /\ status # "saved" => BadgeIsTrue(SetStatus(p, status))
         /\ SetStatus(p, status).unsaved = p.unsaved
BY SetStatusType DEF SetStatus, Sound, UnsavedIsNewest, BadgeIsTrue, Page

LEMMA ScheduleRetrySound ==
  ASSUME NEW p, Sound(p), NEW c \in Candidate
  PROVE  Sound(ScheduleAgentRetry(p, c)) /\ (BadgeIsTrue(p) => BadgeIsTrue(ScheduleAgentRetry(p, c)))
<1> DEFINE given == [p EXCEPT !.retryCandidate = NoSave]
           armed == [p EXCEPT !.attempts = @ + 1, !.retryTimer = c, !.retryCandidate = c]
<1>1. p.attempts \in Nat /\ MaxAttempts \in Nat
  BY BoundsAssumption DEF Sound, Page
<1>2. Sound(given) /\ (BadgeIsTrue(p) => BadgeIsTrue(given))
  BY NoSaveType DEF Sound, UnsavedIsNewest, BadgeIsTrue, Page
<1>3. ASSUME ~(p.attempts >= MaxAttempts)
      PROVE  Sound(armed) /\ (BadgeIsTrue(p) => BadgeIsTrue(armed))
  <2>1. p.attempts + 1 \in Nat /\ p.attempts + 1 <= MaxAttempts
    BY <1>1, <1>3
  <2> QED BY <2>1 DEF Sound, UnsavedIsNewest, BadgeIsTrue, Page
<1> HIDE DEF given, armed
<1>4. \/ ScheduleAgentRetry(p, c) = p
      \/ ScheduleAgentRetry(p, c) = given
      \/ ~(p.attempts >= MaxAttempts) /\ ScheduleAgentRetry(p, c) = armed
  BY DEF ScheduleAgentRetry, given, armed
<1> QED BY <1>2, <1>3, <1>4

(***************************************************************************)
(* A request that starts shows "saving", so the badge holds whatever it    *)
(* was before.                                                             *)
(***************************************************************************)
LEMMA StartSound ==
  ASSUME NEW p, Sound(p), NEW c \in Candidate
  PROVE  Sound(StartRequest(p, c)) /\ BadgeIsTrue(StartRequest(p, c))
<1>1. StartRequest(p, c) \in Page
  BY StartType DEF Sound
<1>2. /\ StartRequest(p, c).unsaved = p.unsaved /\ StartRequest(p, c).revision = p.revision
      /\ StartRequest(p, c).attempts = p.attempts /\ StartRequest(p, c).mounted = p.mounted
      /\ p.mounted => StartRequest(p, c).status = "saving"
  BY DEF Sound, Page, StartRequest, SetStatus
<1> QED BY <1>1, <1>2 DEF Sound, UnsavedIsNewest, BadgeIsTrue

LEMMA TrackSettledSound ==
  ASSUME NEW p, Sound(p), NEW ok \in BOOLEAN
  PROVE  /\ Sound([p EXCEPT !.saves = TrackSettled(@, ok)])
         /\ BadgeIsTrue(p) => BadgeIsTrue([p EXCEPT !.saves = TrackSettled(@, ok)])
<1>1. p.saves \in DocumentSaveState /\ p.saves.sequence + 1 \in Nat
  BY DEF Sound, Page, DocumentSaveState
<1>2. TrackSettled(p.saves, ok) \in DocumentSaveState
  BY <1>1, TrackType, SettleType DEF TrackSettled
<1> QED BY <1>2 DEF Sound, UnsavedIsNewest, BadgeIsTrue, Page

LEMMA TrackedFlushSound ==
  ASSUME NEW p, Sound(p), NEW c \in Candidate
  PROVE  /\ Sound(TrackedFlushSave(p, c))
         /\ BadgeIsTrue(p) => BadgeIsTrue(TrackedFlushSave(p, c))
         /\ p.block = "none" /\ p.inflight = NoSave => BadgeIsTrue(TrackedFlushSave(p, c))
<1> DEFINE save == ApplyRequiredAgentSource(c, p.agentRequired, p.agentOp)
           u    == Unblocked(p)
<1>1. save \in Candidate
  BY RequiredSourceType DEF Sound, Page
<1>2. Sound(u) /\ (BadgeIsTrue(p) => BadgeIsTrue(u)) /\ u.inflight = p.inflight
      /\ (p.block = "none" => u.block = "none")
  <2>1. u.inflight = p.inflight /\ (p.block = "none" => u.block = "none")
    BY DEF Unblocked, Sound, Page
  <2> QED BY <2>1, UnblockedSound
<1> HIDE DEF save, u
<1>3. CASE u.block # "none" /\ u.inflight # NoSave
  BY <1>2, <1>3 DEF TrackedFlushSave, u
<1>4. CASE u.block # "none" /\ u.inflight = NoSave
  <2>1. TrackedFlushSave(p, c) = [u EXCEPT !.saves = TrackSettled(@, FALSE)]
    BY <1>4 DEF TrackedFlushSave, u
  <2> QED BY <1>2, <1>4, <2>1, TrackSettledSound
<1>5. CASE u.block = "none" /\ u.inflight # NoSave
  <2> DEFINE q == [u EXCEPT !.pending = MergePendingNoteSave(@, save)]
  <2>1. u.pending \in Candidate
    BY <1>2 DEF Sound, Page
  <2>2. MergePendingNoteSave(u.pending, save) \in Candidate
    BY <1>1, <2>1, MergeType
  <2>3. Sound(q) /\ (BadgeIsTrue(u) => BadgeIsTrue(q))
    BY <1>2, <2>2 DEF Sound, UnsavedIsNewest, BadgeIsTrue, Page
  <2>4. TrackedFlushSave(p, c) = q
    BY <1>5 DEF TrackedFlushSave, u, save
  <2> QED BY <1>2, <1>5, <2>3, <2>4
<1>6. CASE u.block = "none" /\ u.inflight = NoSave
  <2>1. TrackedFlushSave(p, c) = StartRequest(u, save)
    BY <1>6 DEF TrackedFlushSave, u, save
  <2> QED BY <1>1, <1>2, <2>1, StartSound
<1> QED BY <1>3, <1>4, <1>5, <1>6

LEMMA NewCandidateType ==
  ASSUME NEW p \in Page, NEW body \in SUBSET Edits, NEW source \in Sources, NEW op \in Ops \cup {NoOp}
  PROVE  /\ NewCandidate(p, body, source, op) \in Candidate
         /\ NewCandidate(p, body, source, op).body = body
BY DEF NewCandidate, Candidate, Sources, OrElse, Page

(***************************************************************************)
(* Accepting a body makes it the unsaved one under a new revision. The     *)
(* caller then changes the status or starts a request.                     *)
(***************************************************************************)
LEMMA AcceptSound ==
  ASSUME NEW p, Sound(p), NEW c \in Candidate
  PROVE  /\ Sound(Accept(p, c))
         /\ Accept(p, c).status = p.status /\ Accept(p, c).mounted = p.mounted
         /\ Accept(p, c).inflight = p.inflight /\ Accept(p, c).block = p.block
<1> DEFINE q == CancelAgentRetry(p)
<1>1. Sound(q)
  BY CancelSound
<1>2. q.status = p.status /\ q.mounted = p.mounted /\ q.inflight = p.inflight /\ q.block = p.block
  BY DEF Sound, Page, CancelAgentRetry
<1> HIDE DEF q
<1>3. c.revision \in Nat /\ c.body \in SUBSET Edits
  BY DEF Candidate
<1>4. Accept(p, c) = [q EXCEPT !.revision = c.revision, !.unsaved = c, !.timer = "off",
                               !.scheduled = NoSave, !.accepted = @ \cup c.body]
  BY DEF Accept, q
<1>5. Accept(p, c) \in Page /\ Accept(p, c).attempts <= MaxAttempts
  <2>1. q.accepted \cup c.body \in SUBSET Edits
    BY <1>1, <1>3 DEF Sound, Page
  <2>2. Accept(p, c) = [q EXCEPT !.revision = c.revision, !.unsaved = c, !.timer = "off",
                                 !.scheduled = NoSave, !.accepted = q.accepted \cup c.body]
    BY <1>4
  <2>3. \A r \in Nat, a \in SUBSET Edits :
          LET e == [q EXCEPT !.revision = r, !.unsaved = c, !.timer = "off",
                             !.scheduled = NoSave, !.accepted = a]
          IN  e \in Page /\ e.attempts = q.attempts
    BY <1>1, NoSaveType, ZenonT(40) DEF Sound, Page
  <2> QED BY <1>1, <1>3, <2>1, <2>2, <2>3 DEF Sound
<1>6. Accept(p, c).unsaved = c /\ Accept(p, c).revision = c.revision
  BY <1>1, <1>4 DEF Sound, Page
<1>7. /\ Accept(p, c).status = q.status /\ Accept(p, c).mounted = q.mounted
      /\ Accept(p, c).inflight = q.inflight /\ Accept(p, c).block = q.block
  BY <1>1, <1>4 DEF Sound, Page
<1> QED BY <1>2, <1>5, <1>6, <1>7 DEF Sound, UnsavedIsNewest

LEMMA QueueSound ==
  ASSUME NEW p, Sound(p), NEW body \in SUBSET Edits, NEW source \in Sources,
         NEW op \in Ops \cup {NoOp}
  PROVE  Sound(QueueSave(p, body, source, op)) /\ (BadgeIsTrue(p) => BadgeIsTrue(QueueSave(p, body, source, op)))
<1> DEFINE u == Unblocked(p)
           c == NewCandidate(u, body, source, op)
           b == Accept(u, c)
           a == [b EXCEPT !.status = "dirty"]
           d == [a EXCEPT !.scheduled = c, !.timer = IF a.autoSave THEN "typed" ELSE "off"]
<1>1. Sound(u) /\ (BadgeIsTrue(p) => BadgeIsTrue(u))
  BY UnblockedSound
<1>2. c \in Candidate
  BY <1>1, NewCandidateType DEF Sound
<1> HIDE DEF u, c
<1>3. Sound(b)
  BY <1>1, <1>2, AcceptSound
<1> HIDE DEF b
<1>4. Sound(a) /\ BadgeIsTrue(a)
  BY <1>3 DEF Sound, UnsavedIsNewest, BadgeIsTrue, Page, Statuses
<1> HIDE DEF a
<1>5. Sound(d) /\ BadgeIsTrue(d)
  <2>1. \A timer \in {"off", "typed"} :
          LET e == [a EXCEPT !.scheduled = c, !.timer = timer] IN Sound(e) /\ BadgeIsTrue(e)
    BY <1>2, <1>4 DEF Sound, UnsavedIsNewest, BadgeIsTrue, Page
  <2> QED BY <2>1
<1>6. Sound(TrackedFlushSave(a, c)) /\ BadgeIsTrue(TrackedFlushSave(a, c))
  BY <1>2, <1>4, TrackedFlushSound
<1> HIDE DEF d
<1>7. QueueSave(p, body, source, op) \in {u, TrackedFlushSave(a, c), d}
  BY DEF QueueSave, u, c, b, a, d
<1> QED BY <1>1, <1>5, <1>6, <1>7

LEMMA SaveNowSound ==
  ASSUME NEW p, Sound(p), NEW body \in SUBSET Edits
  PROVE  Sound(SaveNow(p, body)) /\ (BadgeIsTrue(p) => BadgeIsTrue(SaveNow(p, body)))
<1> DEFINE u == Unblocked(p)
           c == NewCandidate(u, body, "user", NoOp)
           b == Accept(u, c)
<1>1. Sound(u) /\ (BadgeIsTrue(p) => BadgeIsTrue(u))
  BY UnblockedSound
<1>2. c \in Candidate
  BY <1>1, NewCandidateType DEF Sound, Sources
<1> HIDE DEF u, c
<1>3. /\ Sound(b) /\ b.status = u.status /\ b.mounted = u.mounted
      /\ b.inflight = u.inflight /\ b.block = u.block
  BY <1>1, <1>2, AcceptSound
<1> HIDE DEF b
<1>4. /\ Sound(TrackedFlushSave(b, c))
      /\ BadgeIsTrue(b) => BadgeIsTrue(TrackedFlushSave(b, c))
      /\ b.block = "none" /\ b.inflight = NoSave => BadgeIsTrue(TrackedFlushSave(b, c))
  BY <1>2, <1>3, TrackedFlushSound
<1>5. BadgeIsTrue(u) /\ b.inflight # NoSave => BadgeIsTrue(b)
  BY <1>3 DEF BadgeIsTrue
<1>6. CASE u.block # "none"
  BY <1>1, <1>6 DEF SaveNow, u
<1>7. CASE u.block = "none"
  <2>1. SaveNow(p, body) = TrackedFlushSave(b, c)
    BY <1>7 DEF SaveNow, u, c, b
  <2> QED BY <1>1, <1>3, <1>4, <1>5, <1>7, <2>1
<1> QED BY <1>6, <1>7

LEMMA MergeEditorSound ==
  ASSUME NEW p, Sound(p), NEW next \in SUBSET Edits
  PROVE  /\ Sound(MergeEditorMarkdown(p, next))
         /\ BadgeIsTrue(p) => BadgeIsTrue(MergeEditorMarkdown(p, next))
<1> DEFINE typed == p.editor \ p.bodyRef
           q     == [p EXCEPT !.editor = next \cup typed, !.bodyRef = next \cup typed]
<1>1. next \cup typed \in SUBSET Edits
  BY DEF Sound, Page
<1>2. Sound(q) /\ (BadgeIsTrue(p) => BadgeIsTrue(q))
  BY <1>1 DEF Sound, UnsavedIsNewest, BadgeIsTrue, Page
<1>3. MergeEditorMarkdown(p, next) \in {q, QueueSave(q, next \cup typed, "user", NoOp)}
  BY DEF MergeEditorMarkdown
<1> HIDE DEF typed, q
<1>4. /\ Sound(QueueSave(q, next \cup typed, "user", NoOp))
      /\ BadgeIsTrue(q) => BadgeIsTrue(QueueSave(q, next \cup typed, "user", NoOp))
  BY <1>1, <1>2, QueueSound DEF Sources
<1> QED BY <1>2, <1>3, <1>4

LEMMA BeforeFlushSound ==
  ASSUME NEW p, Sound(p)
  PROVE  Sound(BeforeFlush(p)) /\ (BadgeIsTrue(p) => BadgeIsTrue(BeforeFlush(p)))
<1> DEFINE q == [p EXCEPT !.bodyRef = p.editor]
<1>1. p.editor \in SUBSET Edits
  BY DEF Sound, Page
<1>2. Sound(q) /\ (BadgeIsTrue(p) => BadgeIsTrue(q))
  BY <1>1 DEF Sound, UnsavedIsNewest, BadgeIsTrue, Page
<1>3. BeforeFlush(p) \in {p, QueueSave(q, p.editor, "user", NoOp)}
  BY DEF BeforeFlush
<1> HIDE DEF q
<1>4. /\ Sound(QueueSave(q, p.editor, "user", NoOp))
      /\ BadgeIsTrue(q) => BadgeIsTrue(QueueSave(q, p.editor, "user", NoOp))
  BY <1>1, <1>2, QueueSound DEF Sources
<1> QED BY <1>2, <1>3, <1>4

(***************************************************************************)
(* When a request ends nothing is in flight, unless the body that waited   *)
(* is sent; the badge then only needs that nothing accepted is unsaved.    *)
(***************************************************************************)
LEMMA FinishSound ==
  ASSUME NEW p, Sound(p), NEW saved \in BOOLEAN,
         p.mounted /\ p.status = "saved" => p.unsaved = NoSave
  PROVE  Sound(FinishRequest(p, saved)) /\ BadgeIsTrue(FinishRequest(p, saved))
<1> DEFINE done == [p EXCEPT !.inflight = NoSave, !.pending = NoSave]
           next == IF p.pending # NoSave /\ p.block = "none"
                   THEN TrackedFlushSave(done, p.pending) ELSE done
           flush(f) == IF f.pc = "saving" /\ f.own = p.seq
                       THEN [f EXCEPT !.own = 0, !.saved = saved] ELSE f
<1>1. Sound(done) /\ BadgeIsTrue(done)
  BY NoSaveType DEF Sound, UnsavedIsNewest, BadgeIsTrue, Page
<1>2. p.pending \in Candidate /\ p.seq \in Nat
  BY DEF Sound, Page
<1> HIDE DEF done
<1>3. Sound(TrackedFlushSave(done, p.pending)) /\ BadgeIsTrue(TrackedFlushSave(done, p.pending))
  BY <1>1, <1>2, TrackedFlushSound
<1>4. Sound(next) /\ BadgeIsTrue(next)
  BY <1>1, <1>3
<1> HIDE DEF next
<1>5. next.saves \in DocumentSaveState /\ next.flush \in Flush
  BY <1>4 DEF Sound, Page
<1>6. Settle(next.saves, p.seq, saved) \in DocumentSaveState
  BY <1>2, <1>5, SettleType
<1>7. flush(next.flush) \in Flush
  BY <1>5 DEF Flush
<1>8. FinishRequest(p, saved)
        = [next EXCEPT !.saves = Settle(next.saves, p.seq, saved), !.flush = flush(next.flush)]
  BY DEF FinishRequest, next, done
<1>9. \A s \in DocumentSaveState, f \in Flush :
        LET q == [next EXCEPT !.saves = s, !.flush = f] IN Sound(q) /\ BadgeIsTrue(q)
  BY <1>4, ZenonT(40) DEF Sound, UnsavedIsNewest, BadgeIsTrue, Page
<1> HIDE DEF flush
<1> QED BY <1>6, <1>7, <1>8, <1>9

-----------------------------------------------------------------------------
(* What an answer does to the page. *)

LEMMA AdoptSound ==
  ASSUME NEW p, Sound(p), NEW answer \in Reply
  PROVE  Sound(AdoptVersion(p, answer))
<1>1. answer.version \in Nat
  BY DEF Reply
<1>2. \A v \in Nat : Sound([p EXCEPT !.version = v, !.legacyRetry = FALSE])
  BY DEF Sound, UnsavedIsNewest, Page
<1>3. p.version \in Nat
  BY DEF Sound, Page
<1> QED BY <1>1, <1>2, <1>3 DEF AdoptVersion

LEMMA ReportSound ==
  ASSUME NEW p, Sound(p), NEW answer \in Reply
  PROVE  Sound(ReportServerMerge(p, answer))
<1>1. answer.body \in SUBSET Edits
  BY DEF Reply
<1>2. Sound(MergeEditorMarkdown(p, answer.body))
  BY <1>1, MergeEditorSound
<1> QED BY <1>2 DEF ReportServerMerge

LEMMA ClearUnsavedSound ==
  ASSUME NEW p, Sound(p), NEW c
  PROVE  /\ Sound(ClearUnsaved(p, c)) /\ ClearUnsaved(p, c).revision = p.revision
         /\ c.revision = p.revision => ClearUnsaved(p, c).unsaved = NoSave
<1>1. ClearUnsaved(p, c) \in {p, [p EXCEPT !.unsaved = NoSave]}
  BY DEF ClearUnsaved, Sound, Page
<1>2. p.unsaved.revision = c.revision => ClearUnsaved(p, c) = [p EXCEPT !.unsaved = NoSave]
  BY DEF ClearUnsaved
<1>3. Sound([p EXCEPT !.unsaved = NoSave])
  BY NoSaveType DEF Sound, UnsavedIsNewest, Page
<1> QED BY <1>1, <1>2, <1>3 DEF Sound, UnsavedIsNewest, Page

LEMMA AgentSavedSound ==
  ASSUME NEW p, Sound(p)
  PROVE  /\ Sound(AgentSaved(p))
         /\ AgentSaved(p).unsaved = p.unsaved /\ AgentSaved(p).revision = p.revision
<1> DEFINE q == [p EXCEPT !.agentOp = NoOp, !.agentRequired = FALSE, !.attempts = 0]
<1>1. Sound(q) /\ q.unsaved = p.unsaved /\ q.revision = p.revision
  <2>1. 0 \in Nat /\ 0 <= MaxAttempts /\ NoOp \in Ops \cup {NoOp}
    BY BoundsAssumption
  <2>2. \A n \in Nat : LET r == [p EXCEPT !.agentOp = NoOp, !.agentRequired = FALSE, !.attempts = n]
                       IN  /\ r \in Page /\ r.attempts = n
                           /\ r.unsaved = p.unsaved /\ r.revision = p.revision
    BY DEF Sound, Page
  <2> QED BY <2>1, <2>2 DEF Sound, UnsavedIsNewest
<1> HIDE DEF q
<1>2. Sound(CancelAgentRetry(q))
  BY <1>1, CancelSound
<1>3. CancelAgentRetry(q).unsaved = q.unsaved /\ CancelAgentRetry(q).revision = q.revision
  BY <1>1 DEF CancelAgentRetry, Sound, Page
<1> QED BY <1>1, <1>2, <1>3 DEF AgentSaved, q

\* "saved" is shown only when the saved revision is the current one; then nothing is unsaved.
LEMMA OnSavedSound ==
  ASSUME NEW p, Sound(p), NEW answer \in Reply
  PROVE  Sound(OnSaved(p, answer)) /\ BadgeIsTrue(OnSaved(p, answer))
<1> DEFINE saved  == p.inflight
           merged == ReportServerMerge(AdoptVersion(p, answer), answer)
           done   == ClearUnsaved(merged, saved)
           agent  == IF saved.source = "agent" THEN AgentSaved(done) ELSE done
           status == IF saved.revision = agent.revision THEN "saved" ELSE "dirty"
           shown  == SetStatus(agent, status)
<1>1. Sound(merged)
  BY AdoptSound, ReportSound
<1> HIDE DEF merged, saved
<1>2. /\ Sound(done) /\ done.revision = merged.revision
      /\ saved.revision = merged.revision => done.unsaved = NoSave
  BY <1>1, ClearUnsavedSound
<1> HIDE DEF done
<1>3. Sound(agent) /\ agent.unsaved = done.unsaved /\ agent.revision = done.revision
  BY <1>2, AgentSavedSound
<1> HIDE DEF agent
<1>4. status \in Statuses
  BY DEF Statuses
<1>5. /\ Sound(shown) /\ shown.unsaved = agent.unsaved
      /\ status # "saved" => BadgeIsTrue(shown)
  BY <1>3, <1>4, SetStatusSound
<1>6. shown.mounted /\ shown.status = "saved" => shown.unsaved = NoSave
  <2>1. CASE status = "saved"
    BY <1>2, <1>3, <1>5, <2>1
  <2>2. CASE status # "saved"
    BY <1>5, <2>2 DEF BadgeIsTrue
  <2> QED BY <2>1, <2>2
<1>7. OnSaved(p, answer) = FinishRequest(shown, TRUE)
  BY DEF OnSaved, shown, agent, done, merged, saved
<1> HIDE DEF shown
<1> QED BY <1>5, <1>6, <1>7, FinishSound

LEMMA OnConflictSound ==
  ASSUME NEW p, Sound(p), BadgeIsTrue(p), NEW latest \in Nat
  PROVE  Sound(OnConflict(p, latest)) /\ BadgeIsTrue(OnConflict(p, latest))
<1> DEFINE q == [p EXCEPT !.version = IF latest # 0 THEN latest ELSE @]
           r == [q EXCEPT !.legacyRetry = TRUE, !.pending = IF @ = NoSave THEN p.inflight ELSE @]
           e == [q EXCEPT !.legacyRetry = FALSE]
<1>1. Sound(q) /\ BadgeIsTrue(q)
  BY DEF Sound, UnsavedIsNewest, BadgeIsTrue, Page
<1>2. p.inflight \in Candidate
  BY DEF Sound, Page
<1> HIDE DEF q
<1>3. Sound(r) /\ BadgeIsTrue(r) /\ Sound(e)
  <2>1. \A c \in Candidate :
          LET s == [q EXCEPT !.legacyRetry = TRUE, !.pending = c] IN Sound(s) /\ BadgeIsTrue(s)
    BY <1>1 DEF Sound, UnsavedIsNewest, BadgeIsTrue, Page
  <2>2. q.pending \in Candidate
    BY <1>1 DEF Sound, Page
  <2>3. Sound(e)
    BY <1>1, ZenonT(40) DEF Sound, UnsavedIsNewest, Page
  <2> QED BY <1>2, <2>1, <2>2, <2>3
<1> HIDE DEF r, e
<1>4. Sound(SetStatus(e, "error")) /\ BadgeIsTrue(SetStatus(e, "error"))
  BY <1>3, SetStatusSound DEF Statuses
<1>5. OnConflict(p, latest) \in {FinishRequest(r, FALSE), FinishRequest(SetStatus(e, "error"), FALSE)}
  BY DEF OnConflict, q, r, e
<1>6. Sound(FinishRequest(r, FALSE)) /\ BadgeIsTrue(FinishRequest(r, FALSE))
  BY <1>3, FinishSound DEF BadgeIsTrue
<1>7. /\ Sound(FinishRequest(SetStatus(e, "error"), FALSE))
      /\ BadgeIsTrue(FinishRequest(SetStatus(e, "error"), FALSE))
  BY <1>4, FinishSound DEF BadgeIsTrue
<1> QED BY <1>5, <1>6, <1>7

LEMMA OnFailedSound ==
  ASSUME NEW p, Sound(p)
  PROVE  Sound(OnFailed(p)) /\ BadgeIsTrue(OnFailed(p))
<1> DEFINE q == [p EXCEPT !.pending = PromoteAfterAgentFailure(@), !.agentRequired = (p.pending = NoSave)]
           planned == IF p.inflight.source = "agent" THEN ScheduleAgentRetry(q, p.inflight) ELSE p
<1>1. p.pending \in Candidate /\ p.inflight \in Candidate
  BY DEF Sound, Page
<1>2. PromoteAfterAgentFailure(p.pending) \in Candidate
  BY <1>1, NoSaveType DEF PromoteAfterAgentFailure, Candidate, Sources
<1>3. \A c \in Candidate, b \in BOOLEAN : Sound([p EXCEPT !.pending = c, !.agentRequired = b])
  BY ZenonT(40) DEF Sound, UnsavedIsNewest, Page
<1>4. Sound(q)
  BY <1>2, <1>3
<1> HIDE DEF q
<1>5. Sound(planned)
  BY <1>1, <1>4, ScheduleRetrySound
<1>6. OnFailed(p) = FinishRequest(SetStatus(planned, "error"), FALSE)
  BY DEF OnFailed, planned, q
<1> HIDE DEF planned
<1>7. Sound(SetStatus(planned, "error")) /\ BadgeIsTrue(SetStatus(planned, "error"))
  BY <1>5, SetStatusSound DEF Statuses
<1> QED BY <1>6, <1>7, FinishSound DEF BadgeIsTrue

LEMMA OnBlockedSound ==
  ASSUME NEW p, Sound(p), NEW block \in {"lock-lost", "session-expired"}
  PROVE  Sound(OnBlocked(p, block)) /\ BadgeIsTrue(OnBlocked(p, block))
<1> DEFINE q == CancelAgentRetry([p EXCEPT !.block = block])
<1>1. Sound([p EXCEPT !.block = block])
  BY DEF Sound, UnsavedIsNewest, Page, Blocks
<1>2. Sound(q)
  BY <1>1, CancelSound
<1> HIDE DEF q
<1>3. Sound(SetStatus(q, block)) /\ BadgeIsTrue(SetStatus(q, block))
  BY <1>2, SetStatusSound DEF Statuses
<1>4. OnBlocked(p, block) = FinishRequest(SetStatus(q, block), FALSE)
  BY DEF OnBlocked, q
<1> QED BY <1>3, <1>4, FinishSound DEF BadgeIsTrue

LEMMA EndFlushSound ==
  ASSUME NEW p, Sound(p), NEW ok \in BOOLEAN
  PROVE  Sound(EndFlush(p, ok)) /\ (BadgeIsTrue(p) => BadgeIsTrue(EndFlush(p, ok)))
<1>1. \A f \in Flush : LET q == [p EXCEPT !.flush = f]
                       IN  Sound(q) /\ (BadgeIsTrue(p) => BadgeIsTrue(q))
  BY DEF Sound, UnsavedIsNewest, BadgeIsTrue, Page
<1>2. [NoFlush EXCEPT !.result = IF ok THEN "ok" ELSE "failed"] \in Flush
  BY DEF NoFlush, Flush
<1> QED BY <1>1, <1>2 DEF EndFlush

LEMMA FlushRoundSound ==
  ASSUME NEW p, Sound(p), BadgeIsTrue(p)
  PROVE  Sound(FlushRound(p)) /\ BadgeIsTrue(FlushRound(p))
<1> DEFINE synced  == BeforeFlush(p)
           open    == Unblocked(synced)
           cleared == ClearScheduledSave(open)
           sent    == TrackedFlushSave(cleared, open.unsaved)
           waiting == [NoFlush EXCEPT !.pc = "saving", !.own = sent.seq]
<1>1. Sound(synced) /\ BadgeIsTrue(synced)
  BY BeforeFlushSound
<1> HIDE DEF synced
<1>2. Sound(open) /\ BadgeIsTrue(open) /\ open.unsaved \in Candidate
  <2>1. Sound(open) /\ BadgeIsTrue(open)
    BY <1>1, UnblockedSound
  <2> QED BY <2>1 DEF Sound, Page
<1> HIDE DEF open
<1>3. Sound(cleared) /\ BadgeIsTrue(cleared)
  BY <1>2, ClearScheduledSound
<1> HIDE DEF cleared
<1>4. Sound(sent) /\ BadgeIsTrue(sent) /\ sent.seq \in Nat
  <2>1. Sound(sent) /\ BadgeIsTrue(sent)
    BY <1>2, <1>3, TrackedFlushSound
  <2> QED BY <2>1 DEF Sound, Page
<1> HIDE DEF sent
<1>5. waiting \in Flush
  BY <1>4 DEF NoFlush, Flush
<1>6. \A f \in Flush : LET q == [sent EXCEPT !.flush = f] IN Sound(q) /\ BadgeIsTrue(q)
  BY <1>4 DEF Sound, UnsavedIsNewest, BadgeIsTrue, Page
<1>7. synced.saves.success \in BOOLEAN
  BY <1>1 DEF Sound, Page, DocumentSaveState
<1>8. /\ Sound(EndFlush(synced, synced.saves.success)) /\ BadgeIsTrue(EndFlush(synced, synced.saves.success))
      /\ Sound(EndFlush(open, FALSE)) /\ BadgeIsTrue(EndFlush(open, FALSE))
  BY <1>1, <1>2, <1>7, EndFlushSound
<1>9. FlushRound(p) \in {EndFlush(synced, synced.saves.success), EndFlush(open, FALSE),
                         [sent EXCEPT !.flush = waiting]}
  BY DEF FlushRound, synced, open, cleared, sent
<1> HIDE DEF waiting
<1> QED BY <1>5, <1>6, <1>8, <1>9

-----------------------------------------------------------------------------
(***************************************************************************)
(* The inductive invariant: the types, UnsavedIsNewest and the badge.      *)
(***************************************************************************)
PageIsSound == Sound(page) /\ BadgeIsTrue(page)

RestTypeOK ==
  /\ bodies \in Seq(SUBSET Edits) /\ bodies # <<>>
  /\ reply \in Reply
  /\ session \in {"live", "expired"}
  /\ opOf \in Seq(Ops \cup {NoOp})
  /\ overwritten \subseteq Remote
  /\ budget \in Budgets

IInv == PageIsSound /\ RestTypeOK

LEMMA IInvImplies == IInv => TypeOK /\ SavedBadgeIsTrue
BY DEF IInv, PageIsSound, RestTypeOK, Sound, BadgeIsTrue, TypeOK, SavedBadgeIsTrue

LEMMA OpenedSound ==
  ASSUME NEW body \in SUBSET Edits, NEW version \in Nat, NEW saves \in DocumentSaveState
  PROVE  Sound(Opened(body, version, saves)) /\ BadgeIsTrue(Opened(body, version, saves))
<1>1. body \cap LocalEdits \in SUBSET Edits
  BY EditsAssumption
<1>2. NoFlush \in Flush
  BY DEF NoFlush, Flush
<1> QED BY <1>1, <1>2, NoSaveType, BoundsAssumption
    DEF Opened, Sound, UnsavedIsNewest, BadgeIsTrue, Page, Statuses, Blocks

LEMMA InitIInv == Init => IInv
<1> SUFFICES ASSUME Init PROVE IInv
  OBVIOUS
<1>1. PageIsSound
  <2>1. Fresh \in DocumentSaveState
    BY DEF Fresh, DocumentSaveState
  <2> QED BY <2>1, OpenedSound DEF Init, PageIsSound
<1>2. bodies \in Seq(SUBSET Edits) /\ bodies # <<>>
  BY DEF Init
<1>3. reply \in Reply
  BY DEF Init, NoReply, Reply, Merges
<1>4. budget \in Budgets
  BY BoundsAssumption DEF Init, Budgets
<1> QED BY <1>1, <1>2, <1>3, <1>4 DEF Init, IInv, RestTypeOK

LEMMA SpendType ==
  ASSUME budget \in Budgets,
         NEW name \in {"failures", "refusals", "expiries", "opens", "flushes", "toggles"},
         Spend(name)
  PROVE  budget' \in Budgets
<1>1. /\ budget[name] \in Nat /\ budget[name] > 0
      /\ budget' = [budget EXCEPT ![name] = budget[name] - 1]
  BY BoundsAssumption DEF Spend, Budgets
<1>2. budget[name] - 1 \in 0..budget[name]
  BY <1>1
<1> QED BY <1>1, <1>2, BoundsAssumption DEF Budgets

LEMMA CurrentType ==
  ASSUME RestTypeOK
  PROVE  Current \in SUBSET Edits /\ Len(bodies) \in Nat \ {0}
BY DEF RestTypeOK, Current

(* The server and the world: they leave the page alone, except LoseLock. *)

LEMMA ServerStep == IInv /\ Server => IInv'
<1> SUFFICES ASSUME IInv, Server PROVE IInv'
  OBVIOUS
<1> USE DEF IInv
<1>0. page' = page /\ session' = session /\ opOf' = opOf
  BY DEF Server, ServerCommits, ServerConflicts, RequestLost, ServerForbids, SessionRefuses
<1>1. PageIsSound'
  BY <1>0 DEF PageIsSound, Sound, UnsavedIsNewest, BadgeIsTrue
<1>2. RestTypeOK'
  <2>1. CASE ServerCommits
    <3>1. PICK saved \in Commit(page.inflight.body, page.base) :
            /\ bodies' = Append(bodies, saved.body)
            /\ overwritten' = IF saved.merge = "overwritten"
                              THEN overwritten \cup ((Current \ bodies[page.base]) \cap Remote)
                              ELSE overwritten
            /\ \/ /\ reply' = [kind |-> "ok", version |-> Len(bodies) + 1,
                               merge |-> saved.merge, body |-> saved.body]
                  /\ UNCHANGED budget
               \/ /\ reply' = [NoReply EXCEPT !.kind = "failed"]
                  /\ Spend("failures")
      BY <2>1 DEF ServerCommits
    <3>2. page.inflight.body \in SUBSET Edits
      BY DEF PageIsSound, Sound, Page, Candidate
    <3>3. saved.body \in SUBSET Edits /\ saved.merge \in Merges
      BY <3>2, CurrentType DEF Commit, Merges
    <3>4. bodies' \in Seq(SUBSET Edits) /\ bodies' # <<>>
      BY <3>1, <3>3 DEF RestTypeOK
    <3>5. reply' \in Reply
      BY <3>1, <3>3, CurrentType DEF Reply, NoReply, Merges
    <3>6. overwritten' \subseteq Remote
      BY <3>1 DEF RestTypeOK
    <3>7. budget' \in Budgets
      BY <3>1, SpendType DEF RestTypeOK
    <3> QED BY <1>0, <3>4, <3>5, <3>6, <3>7 DEF RestTypeOK
  <2>2. CASE ServerConflicts
    BY <1>0, <2>2, CurrentType DEF ServerConflicts, RestTypeOK, Reply, NoReply, Merges
  <2>3. CASE RequestLost
    BY <1>0, <2>3, SpendType DEF RequestLost, RestTypeOK, Reply, NoReply, Merges
  <2>4. CASE ServerForbids
    BY <1>0, <2>4, SpendType DEF ServerForbids, RestTypeOK, Reply, NoReply, Merges
  <2>5. CASE SessionRefuses
    BY <1>0, <2>5 DEF SessionRefuses, RestTypeOK, Reply, NoReply, Merges
  <2> QED BY <2>1, <2>2, <2>3, <2>4, <2>5 DEF Server
<1> QED BY <1>1, <1>2

LEMMA WorldStep == IInv /\ World => IInv'
<1> SUFFICES ASSUME IInv, World PROVE IInv'
  OBVIOUS
<1> USE DEF IInv
<1>1. CASE SessionExpires
  BY <1>1, SpendType DEF SessionExpires, PageIsSound, Sound, UnsavedIsNewest, BadgeIsTrue, RestTypeOK
<1>2. CASE SessionReturns
  BY <1>2 DEF SessionReturns, PageIsSound, Sound, UnsavedIsNewest, BadgeIsTrue, RestTypeOK
<1>3. CASE LoseLock
  <2> DEFINE lost == [page EXCEPT !.lock = "lost"]
             b    == [lost EXCEPT !.block = "lock-lost", !.pending = NoSave]
             c    == ClearScheduledSave(b)
  <2>1. Sound(lost) /\ BadgeIsTrue(lost)
    BY DEF PageIsSound, Sound, UnsavedIsNewest, BadgeIsTrue, Page
  <2> HIDE DEF lost
  <2>2. Sound(b)
    BY <2>1, NoSaveType DEF Sound, UnsavedIsNewest, Page, Blocks
  <2> HIDE DEF b
  <2>3. Sound(c)
    BY <2>2, ClearScheduledSound
  <2> HIDE DEF c
  <2>4. Sound(SetStatus(c, "lock-lost")) /\ BadgeIsTrue(SetStatus(c, "lock-lost"))
    BY <2>3, SetStatusSound DEF Statuses
  <2>5. page' \in {lost, SetStatus(c, "lock-lost")}
    BY <1>3 DEF LoseLock, lost, b, c
  <2>6. PageIsSound'
    BY <2>1, <2>4, <2>5 DEF PageIsSound, Sound, UnsavedIsNewest, BadgeIsTrue
  <2> QED BY <1>3, <2>6 DEF LoseLock, ServerUnchanged, RestTypeOK
<1>4. CASE \E r \in Remote : RemoteSaves(r)
  <2>1. PICK r \in Remote : RemoteSaves(r)
    BY <1>4
  <2>2. Current \cup {r} \in SUBSET Edits
    BY CurrentType, EditsAssumption
  <2>3. bodies' \in Seq(SUBSET Edits) /\ bodies' # <<>>
    BY <2>1, <2>2 DEF RemoteSaves, RestTypeOK
  <2> QED BY <2>1, <2>3 DEF RemoteSaves, PageIsSound, Sound, UnsavedIsNewest, BadgeIsTrue, RestTypeOK
<1> QED BY <1>1, <1>2, <1>3, <1>4 DEF World

(* The client. *)

LEMMA AnsweredStep == IInv /\ Answered => IInv'
<1> SUFFICES ASSUME IInv, Answered PROVE IInv'
  OBVIOUS
<1> USE DEF IInv
<1>0. Sound(page) /\ BadgeIsTrue(page) /\ reply \in Reply
  BY DEF PageIsSound, RestTypeOK
<1>1. Sound(page') /\ BadgeIsTrue(page')
  <2>1. CASE SaveSucceeds
    BY <1>0, <2>1, OnSavedSound DEF SaveSucceeds
  <2>2. CASE SaveConflicts
    <3>1. PICK latest \in Nat : page' = OnConflict(page, latest)
      BY <1>0, <2>2 DEF SaveConflicts, Reply
    <3> QED BY <1>0, <3>1, OnConflictSound
  <2>3. CASE SaveFails
    BY <1>0, <2>3, OnFailedSound DEF SaveFails
  <2>4. CASE SaveForbidden
    BY <1>0, <2>4, OnBlockedSound DEF SaveForbidden
  <2>5. CASE SaveUnauthorized
    BY <1>0, <2>5, OnBlockedSound DEF SaveUnauthorized
  <2> QED BY <2>1, <2>2, <2>3, <2>4, <2>5 DEF Answered
<1>2. reply' \in Reply
  BY DEF Answered, SaveSucceeds, SaveConflicts, SaveFails, SaveForbidden, SaveUnauthorized,
         NoReply, Reply, Merges
<1>3. UNCHANGED <<bodies, session, opOf, overwritten, budget>>
  BY DEF Answered, SaveSucceeds, SaveConflicts, SaveFails, SaveForbidden, SaveUnauthorized,
         ServerUnchanged
<1> QED BY <1>1, <1>2, <1>3 DEF PageIsSound, Sound, UnsavedIsNewest, BadgeIsTrue, RestTypeOK

\* Timers and the notification of the editor: only the page changes.
LEMMA TimerStep ==
  IInv /\ (MarkdownUpdated \/ DebounceFires \/ AgentRetryFires \/ SaveShortcut) => IInv'
<1> SUFFICES ASSUME IInv, MarkdownUpdated \/ DebounceFires \/ AgentRetryFires \/ SaveShortcut
             PROVE  IInv'
  OBVIOUS
<1> USE DEF IInv
<1>0. Sound(page) /\ BadgeIsTrue(page)
  BY DEF PageIsSound
<1>1. /\ page.editor \in SUBSET Edits /\ page.bodyRef \in SUBSET Edits
      /\ page.scheduled \in Candidate /\ page.retryTimer \in Candidate
  BY <1>0 DEF Sound, Page
<1>2. Sound(page') /\ BadgeIsTrue(page')
  <2>1. CASE MarkdownUpdated
    <3> DEFINE q == [page EXCEPT !.bodyRef = page.editor]
    <3>1. Sound(q) /\ BadgeIsTrue(q)
      BY <1>0, <1>1 DEF Sound, UnsavedIsNewest, BadgeIsTrue, Page
    <3>2. page' = QueueSave(q, page.editor, "user", NoOp)
      BY <2>1 DEF MarkdownUpdated
    <3> HIDE DEF q
    <3> QED BY <1>1, <3>1, <3>2, QueueSound DEF Sources
  <2>2. CASE DebounceFires
    <3> DEFINE q == [page EXCEPT !.timer = "off", !.scheduled = NoSave]
    <3>1. Sound(q) /\ BadgeIsTrue(q)
      BY <1>0, NoSaveType DEF Sound, UnsavedIsNewest, BadgeIsTrue, Page
    <3>2. page' \in {q, TrackedFlushSave(q, page.scheduled)}
      BY <2>2 DEF DebounceFires
    <3> HIDE DEF q
    <3> QED BY <1>1, <3>1, <3>2, TrackedFlushSound
  <2>3. CASE AgentRetryFires
    <3> DEFINE q == CancelAgentRetry(page)
    <3>1. Sound(q) /\ BadgeIsTrue(q)
      BY <1>0, CancelSound
    <3>2. page' \in {q, TrackedFlushSave(q, page.retryTimer)}
      BY <2>3 DEF AgentRetryFires
    <3> HIDE DEF q
    <3> QED BY <1>1, <3>1, <3>2, TrackedFlushSound
  <2>4. CASE SaveShortcut
    BY <1>0, <1>1, <2>4, SaveNowSound DEF SaveShortcut
  <2> QED BY <2>1, <2>2, <2>3, <2>4
<1>3. UNCHANGED <<bodies, reply, session, opOf, overwritten, budget>>
  BY DEF MarkdownUpdated, DebounceFires, AgentRetryFires, SaveShortcut, ServerUnchanged
<1> QED BY <1>2, <1>3 DEF PageIsSound, Sound, UnsavedIsNewest, BadgeIsTrue, RestTypeOK

LEMMA EditStep == IInv /\ (Type \/ \E op \in Ops : ApplyMarkdown(op)) => IInv'
<1> SUFFICES ASSUME IInv, Type \/ \E op \in Ops : ApplyMarkdown(op) PROVE IInv'
  OBVIOUS
<1> USE DEF IInv
<1>0. Sound(page) /\ BadgeIsTrue(page) /\ page.editor \in SUBSET Edits
  BY DEF PageIsSound, Sound, Page
<1>1. NextEdit \in Edits
  BY EditsAssumption DEF Type, ApplyMarkdown
<1>2. page.editor \cup {NextEdit} \in SUBSET Edits
  BY <1>0, <1>1
<1>3. \A body \in SUBSET Edits :
        /\ Sound([page EXCEPT !.editor = body]) /\ BadgeIsTrue([page EXCEPT !.editor = body])
        /\ Sound([page EXCEPT !.editor = body, !.bodyRef = body])
        /\ BadgeIsTrue([page EXCEPT !.editor = body, !.bodyRef = body])
  BY <1>0, ZenonT(40) DEF Sound, UnsavedIsNewest, BadgeIsTrue, Page
<1>4. CASE Type
  <2>1. page' = [page EXCEPT !.editor = page.editor \cup {NextEdit}]
    BY <1>4 DEF Type
  <2>2. Sound(page') /\ BadgeIsTrue(page')
    BY <1>2, <1>3, <2>1
  <2>3. opOf' \in Seq(Ops \cup {NoOp})
    BY <1>4 DEF Type, RestTypeOK
  <2> QED BY <1>4, <2>2, <2>3
      DEF Type, ServerUnchanged, PageIsSound, Sound, UnsavedIsNewest, BadgeIsTrue, RestTypeOK
<1>5. CASE \E op \in Ops : ApplyMarkdown(op)
  <2>1. PICK op \in Ops : ApplyMarkdown(op)
    BY <1>5
  <2> DEFINE body == page.editor \cup {NextEdit}
             q    == [page EXCEPT !.editor = body, !.bodyRef = body]
  <2>2. Sound(q) /\ BadgeIsTrue(q)
    BY <1>2, <1>3
  <2>3. page' = QueueSave(q, body, "agent", op)
    BY <2>1 DEF ApplyMarkdown
  <2> HIDE DEF q
  <2>4. Sound(page') /\ BadgeIsTrue(page')
    BY <1>2, <2>2, <2>3, QueueSound DEF Sources
  <2>5. opOf' \in Seq(Ops \cup {NoOp})
    BY <2>1 DEF ApplyMarkdown, RestTypeOK
  <2> QED BY <2>1, <2>4, <2>5
      DEF ApplyMarkdown, ServerUnchanged, PageIsSound, Sound, UnsavedIsNewest, BadgeIsTrue, RestTypeOK
<1> QED BY <1>4, <1>5

LEMMA ToggleStep == IInv /\ ToggleAutoSave => IInv'
<1> SUFFICES ASSUME IInv, ToggleAutoSave PROVE IInv'
  OBVIOUS
<1> USE DEF IInv
<1>0. Sound(page) /\ BadgeIsTrue(page)
  BY DEF PageIsSound
<1>1. page.autoSave \in BOOLEAN /\ page.timer \in {"off", "typed", "toggled"}
  BY <1>0 DEF Sound, Page
<1>2. \E on \in BOOLEAN : \E timer \in {"off", "typed", "toggled"} :
        page' = [page EXCEPT !.autoSave = on, !.timer = timer]
  BY <1>1 DEF ToggleAutoSave
<1>3. Sound(page') /\ BadgeIsTrue(page')
  <2>0. PICK on \in BOOLEAN : \E timer \in {"off", "typed", "toggled"} :
          page' = [page EXCEPT !.autoSave = on, !.timer = timer]
    BY <1>2
  <2>1. page' \in Page
    <3>1. page \in Page
      BY <1>0 DEF Sound
    <3>2. PICK timer \in {"off", "typed", "toggled"} : page' = [page EXCEPT !.autoSave = on, !.timer = timer]
      BY <2>0
    <3>3. [page EXCEPT !.autoSave = on] \in Page
      BY <3>1 DEF Page
    <3>4. \A p \in Page : [p EXCEPT !.timer = timer] \in Page
      BY DEF Page
    <3>5. page' = [[page EXCEPT !.autoSave = on] EXCEPT !.timer = timer]
      BY <3>1, <3>2 DEF Page
    <3> QED BY <3>3, <3>4, <3>5
  <2>2. /\ page'.unsaved = page.unsaved /\ page'.revision = page.revision
        /\ page'.attempts = page.attempts /\ page'.mounted = page.mounted
        /\ page'.status = page.status /\ page'.inflight = page.inflight
    BY <1>0, <2>0 DEF Sound, Page
  <2> QED BY <1>0, <2>1, <2>2 DEF Sound, UnsavedIsNewest, BadgeIsTrue
<1>4. RestTypeOK'
  BY SpendType DEF ToggleAutoSave, ServerUnchanged, RestTypeOK
<1> QED BY <1>3, <1>4 DEF PageIsSound, Sound, UnsavedIsNewest, BadgeIsTrue

LEMMA UnmountStep == IInv /\ Unmount => IInv'
<1> SUFFICES ASSUME IInv, Unmount PROVE IInv'
  OBVIOUS
<1> USE DEF IInv
<1> DEFINE waiting  == IF page.scheduled # NoSave THEN page.scheduled
                       ELSE IF page.inflight = NoSave THEN page.unsaved ELSE NoSave
           detached == SelectDetachedSaveCandidate(waiting, page.retryCandidate)
           away     == [page EXCEPT !.mounted = FALSE]
           cleared  == ClearScheduledSave(away)
           gone     == Unblocked(cleared)
<1>1. /\ page.scheduled \in Candidate /\ page.unsaved \in Candidate
      /\ page.retryCandidate \in Candidate
  BY DEF PageIsSound, Sound, Page
<1>2. waiting \in Candidate
  BY <1>1, NoSaveType
<1> HIDE DEF waiting
<1>3. detached \in Candidate
  BY <1>1, <1>2, MergeType, NoSaveType DEF SelectDetachedSaveCandidate
<1> HIDE DEF detached
<1>4. Sound(away) /\ BadgeIsTrue(away)
  BY DEF PageIsSound, Sound, UnsavedIsNewest, BadgeIsTrue, Page
<1> HIDE DEF away
<1>5. Sound(cleared) /\ BadgeIsTrue(cleared)
  BY <1>4, ClearScheduledSound
<1> HIDE DEF cleared
<1>6. Sound(gone) /\ BadgeIsTrue(gone)
  BY <1>5, UnblockedSound
<1> HIDE DEF gone
<1>7. page' \in {gone, [gone EXCEPT !.saves = TrackSettled(@, FALSE)], TrackedFlushSave(gone, detached)}
  BY DEF Unmount, waiting, detached, away, cleared, gone
<1>8. Sound(page') /\ BadgeIsTrue(page')
  BY <1>3, <1>6, <1>7, TrackSettledSound, TrackedFlushSound
<1> QED BY <1>8 DEF Unmount, ServerUnchanged, PageIsSound, Sound, UnsavedIsNewest, BadgeIsTrue, RestTypeOK

LEMMA ReopenStep == IInv /\ Reopen => IInv'
<1> SUFFICES ASSUME IInv, Reopen PROVE IInv'
  OBVIOUS
<1> USE DEF IInv
<1>1. page.saves \in DocumentSaveState
  BY DEF PageIsSound, Sound, Page
<1>2. Sound(page') /\ BadgeIsTrue(page')
  BY <1>1, CurrentType, OpenedSound DEF Reopen
<1>3. RestTypeOK'
  BY SpendType DEF Reopen, ServerUnchanged, RestTypeOK
<1> QED BY <1>2, <1>3 DEF PageIsSound, Sound, UnsavedIsNewest, BadgeIsTrue

LEMMA FlushStep == IInv /\ (StartFlush \/ ContinueFlush) => IInv'
<1> SUFFICES ASSUME IInv, StartFlush \/ ContinueFlush PROVE IInv'
  OBVIOUS
<1> USE DEF IInv
<1>0. Sound(page) /\ BadgeIsTrue(page)
  BY DEF PageIsSound
<1>1. \A p : Sound(p) /\ BadgeIsTrue(p) =>
        \A f \in Flush : LET q == [p EXCEPT !.flush = f] IN Sound(q) /\ BadgeIsTrue(q)
  BY DEF Sound, UnsavedIsNewest, BadgeIsTrue, Page
<1>2. Sound(page') /\ BadgeIsTrue(page')
  <2>1. CASE StartFlush
    <3> DEFINE synced  == BeforeFlush(page)
               cleared == ClearScheduledSave(synced)
    <3>1. Sound(synced) /\ BadgeIsTrue(synced)
      BY <1>0, BeforeFlushSound
    <3> HIDE DEF synced
    <3>2. Sound(cleared) /\ BadgeIsTrue(cleared)
      BY <3>1, ClearScheduledSound
    <3> HIDE DEF cleared
    <3>3. /\ [NoFlush EXCEPT !.pc = "draining"] \in Flush
          /\ [NoFlush EXCEPT !.pc = "settling"] \in Flush
      BY DEF NoFlush, Flush
    <3>4. page' \in {[cleared EXCEPT !.flush = [NoFlush EXCEPT !.pc = "draining"]],
                    [page EXCEPT !.flush = [NoFlush EXCEPT !.pc = "settling"]]}
      BY <2>1 DEF StartFlush, cleared, synced
    <3> QED BY <1>0, <1>1, <3>2, <3>3, <3>4
  <2>2. CASE ContinueFlush
    <3>1. page.saves.success \in BOOLEAN
      BY <1>0 DEF Sound, Page, DocumentSaveState
    <3>2. page' \in {EndFlush(page, page.saves.success), EndFlush(page, FALSE), FlushRound(page)}
      BY <2>2 DEF ContinueFlush
    <3> QED BY <1>0, <3>1, <3>2, EndFlushSound, FlushRoundSound
  <2> QED BY <2>1, <2>2
<1>3. RestTypeOK'
  BY SpendType DEF StartFlush, ContinueFlush, ServerUnchanged, RestTypeOK
<1> QED BY <1>2, <1>3 DEF PageIsSound, Sound, UnsavedIsNewest, BadgeIsTrue

LEMMA NextIInv == IInv /\ [Next]_vars => IInv'
<1> SUFFICES ASSUME IInv, [Next]_vars PROVE IInv'
  OBVIOUS
<1>1. CASE UNCHANGED vars
  BY <1>1 DEF vars, IInv, PageIsSound, Sound, UnsavedIsNewest, BadgeIsTrue, RestTypeOK
<1>2. CASE Next
  BY <1>2, ServerStep, WorldStep, AnsweredStep, TimerStep, EditStep, ToggleStep, UnmountStep,
     ReopenStep, FlushStep DEF Next, User
<1> QED BY <1>1, <1>2

(***************************************************************************)
(* Every ref of the editor and the hook keeps its type, and the AI retry   *)
(* never exceeds AGENT_RETRY_MAX_ATTEMPTS.                                  *)
(***************************************************************************)
THEOREM TypeOKTheorem == Spec => []TypeOK
<1>1. Spec => []IInv
  BY InitIInv, NextIInv, PTL DEF Spec
<1> QED BY <1>1, IInvImplies, PTL

(***************************************************************************)
(* The badge "saved" is never shown over an accepted edit that is not      *)
(* saved or over a request that still runs, however the answers, timers,   *)
(* blocks and flushes interleave.                                          *)
(***************************************************************************)
THEOREM SavedBadgeTheorem == Spec => []SavedBadgeIsTrue
<1>1. Spec => []IInv
  BY InitIInv, NextIInv, PTL DEF Spec
<1> QED BY <1>1, IInvImplies, PTL

-----------------------------------------------------------------------------
(* What the operators do, field by field. *)

\* What trackedFlushSave leaves alone.
KeepsPage(p, q) ==
  /\ q.editor = p.editor /\ q.bodyRef = p.bodyRef /\ q.mounted = p.mounted /\ q.autoSave = p.autoSave
  /\ q.lock = p.lock /\ q.version = p.version /\ q.revision = p.revision
  /\ q.scheduled = p.scheduled /\ q.timer = p.timer /\ q.unsaved = p.unsaved
  /\ q.legacyRetry = p.legacyRetry /\ q.agentRequired = p.agentRequired
  /\ q.retryTimer = p.retryTimer /\ q.retryCandidate = p.retryCandidate /\ q.attempts = p.attempts
  /\ q.accepted = p.accepted

KeepsRest(p, q) == KeepsPage(p, q) /\ q.flush = p.flush

\* The request in flight, and what waits behind it.
KeepsRequest(p, q) ==
  /\ q.inflight = p.inflight /\ q.base = p.base /\ q.seq = p.seq /\ q.agentOp = p.agentOp
  /\ q.sent = p.sent /\ q.pending = p.pending /\ q.saves = p.saves

Blocking(p, q) ==
  \/ q.block = p.block
  \/ p.block = "session-expired" /\ session = "live" /\ q.block = "none"

LEMMA UnblockedShape ==
  ASSUME NEW p, Sound(p)
  PROVE  /\ KeepsRest(p, Unblocked(p)) /\ KeepsRequest(p, Unblocked(p)) /\ Blocking(p, Unblocked(p))
         /\ Unblocked(p).status = p.status
         /\ Unblocked(p).block # "none" => Unblocked(p) = p
<1> DEFINE q == [p EXCEPT !.block = "none"]
<1>1. KeepsRest(p, q) /\ KeepsRequest(p, q) /\ q.status = p.status /\ q.block = "none"
  BY DEF Sound, Page, KeepsRest, KeepsPage, KeepsRequest
<1> HIDE DEF q
<1>2. \/ Unblocked(p) = p
      \/ Unblocked(p) = q /\ p.block = "session-expired" /\ session = "live"
  BY DEF Unblocked, q
<1>3. KeepsRest(p, p) /\ KeepsRequest(p, p)
  BY DEF KeepsRest, KeepsPage, KeepsRequest
<1>4. Blocking(p, p) /\ (p.block = "session-expired" /\ session = "live" => Blocking(p, q))
  BY <1>1 DEF Blocking
<1>5. \A u : u = p \/ (u = q /\ p.block = "session-expired" /\ session = "live") =>
        /\ KeepsRest(p, u) /\ KeepsRequest(p, u) /\ Blocking(p, u)
        /\ u.status = p.status /\ (u.block # "none" => u = p)
  BY <1>1, <1>3, <1>4
<1> QED BY <1>2, <1>5

LEMMA CancelShape ==
  ASSUME NEW p, Sound(p)
  PROVE  LET q == CancelAgentRetry(p)
         IN  /\ q.editor = p.editor /\ q.bodyRef = p.bodyRef /\ q.mounted = p.mounted /\ q.autoSave = p.autoSave
             /\ q.lock = p.lock /\ q.version = p.version /\ q.revision = p.revision
             /\ q.scheduled = p.scheduled /\ q.timer = p.timer /\ q.unsaved = p.unsaved
             /\ q.legacyRetry = p.legacyRetry /\ q.agentRequired = p.agentRequired
             /\ q.retryTimer = NoSave /\ q.retryCandidate = NoSave /\ q.attempts = p.attempts
             /\ q.flush = p.flush /\ q.accepted = p.accepted /\ q.block = p.block /\ q.status = p.status
             /\ KeepsRequest(p, q)
BY DEF CancelAgentRetry, Sound, Page, KeepsRequest

LEMMA SetStatusShape ==
  ASSUME NEW p, Sound(p), NEW status
  PROVE  LET q == SetStatus(p, status)
         IN  /\ KeepsRest(p, q) /\ KeepsRequest(p, q) /\ q.block = p.block
             /\ q.mounted => q.status = status
BY DEF SetStatus, Sound, Page, KeepsRest, KeepsPage, KeepsRequest

\* A request starts.
Starts(p, q, save) ==
  /\ q.inflight = save /\ q.base = p.version /\ q.seq = p.saves.sequence + 1 /\ q.saves = Track(p.saves)
  /\ q.sent = (IF save.revision > p.sent THEN save.revision ELSE p.sent)
  /\ q.pending = p.pending /\ (q.mounted => q.status = "saving")

LEMMA StartShape ==
  ASSUME NEW p, Sound(p), NEW c \in Candidate
  PROVE  KeepsRest(p, StartRequest(p, c)) /\ StartRequest(p, c).block = p.block /\ Starts(p, StartRequest(p, c), c)
<1> DEFINE op == IF c.source = "agent" THEN c.op ELSE p.agentOp
           sent == IF c.revision > p.sent THEN c.revision ELSE p.sent
           s == [p EXCEPT !.inflight = c, !.base = p.version, !.agentOp = op,
                          !.saves = Track(p.saves), !.seq = p.saves.sequence + 1, !.sent = sent]
<1>1. StartRequest(p, c) = SetStatus(s, "saving")
  BY DEF StartRequest
<1> HIDE DEF op, sent
<1>2. KeepsRest(p, s) /\ s.block = p.block /\ s.inflight = c /\ s.base = p.version /\ s.seq = p.saves.sequence + 1
      /\ s.saves = Track(p.saves) /\ s.sent = sent /\ s.pending = p.pending /\ s.mounted \in BOOLEAN
  BY DEF Sound, Page, KeepsRest, KeepsPage
<1>3. s.status = p.status /\ DOMAIN s = DOMAIN p /\ "status" \in DOMAIN p
  BY DEF Sound, Page
<1>4. \A r : LET q == [s EXCEPT !.status = r] IN /\ KeepsRest(s, q) /\ KeepsRequest(s, q) /\ q.block = s.block
                                          /\ q.status = r
  BY DEF Sound, Page, KeepsRest, KeepsPage, KeepsRequest
<1> HIDE DEF s
<1>5. SetStatus(s, "saving") \in {s, [s EXCEPT !.status = "saving"]}
      /\ (s.mounted => SetStatus(s, "saving") = [s EXCEPT !.status = "saving"])
  BY DEF SetStatus
<1>6. LET q == SetStatus(s, "saving") IN /\ KeepsRest(s, q) /\ KeepsRequest(s, q) /\ q.block = s.block
                                          /\ (s.mounted => q.status = "saving")
  <2>1. CASE s.mounted
    BY <1>4, <1>5, <2>1
  <2>2. CASE ~s.mounted
    <3>1. KeepsRest(s, s) /\ KeepsRequest(s, s)
      BY DEF KeepsRest, KeepsPage, KeepsRequest
    <3>2. SetStatus(s, "saving") = s
      BY <2>2 DEF SetStatus
    <3> QED BY <2>2, <3>1, <3>2
  <2> QED BY <2>1, <2>2
<1> QED BY <1>1, <1>2, <1>6 DEF KeepsRest, KeepsPage, KeepsRequest, Starts, sent

\* What trackedFlushSave does with a candidate.
Refused(p, q) ==
  /\ q.block # "none" /\ q.status = p.status /\ q.inflight = p.inflight /\ q.base = p.base /\ q.seq = p.seq
  /\ q.sent = p.sent /\ q.pending = p.pending
  /\ \/ q.saves = p.saves
     \/ p.inflight = NoSave /\ q.saves = TrackSettled(p.saves, FALSE)
Queued(p, q, save) ==
  /\ q.block = "none" /\ p.inflight # NoSave /\ q.status = p.status
  /\ q.inflight = p.inflight /\ q.base = p.base /\ q.seq = p.seq /\ q.sent = p.sent /\ q.saves = p.saves
  /\ q.pending = MergePendingNoteSave(p.pending, save)
Sends(p, q, save) == q.block = "none" /\ p.inflight = NoSave /\ Starts(p, q, save)

LEMMA TrackedShape ==
  ASSUME NEW p, Sound(p), NEW c \in Candidate
  PROVE  \E save \in Candidate :
           /\ save.revision = c.revision /\ save.body = c.body
           /\ p.agentRequired => save.source = "agent"
           /\ ~p.agentRequired => save = c
           /\ KeepsRest(p, TrackedFlushSave(p, c)) /\ Blocking(p, TrackedFlushSave(p, c))
           /\ \/ Refused(p, TrackedFlushSave(p, c))
              \/ Queued(p, TrackedFlushSave(p, c), save)
              \/ Sends(p, TrackedFlushSave(p, c), save)
<1> DEFINE save == ApplyRequiredAgentSource(c, p.agentRequired, p.agentOp)
           u    == Unblocked(p)
           q    == TrackedFlushSave(p, c)
<1>1. save \in Candidate /\ save.revision = c.revision
  BY RequiredSourceType DEF Sound, Page
<1>2. /\ p.agentRequired => save.source = "agent"
      /\ ~p.agentRequired => save = c
      /\ save.body = c.body
  BY DEF ApplyRequiredAgentSource, Candidate
<1>3. Sound(u) /\ KeepsRest(p, u) /\ KeepsRequest(p, u) /\ Blocking(p, u) /\ u.status = p.status
  BY UnblockedSound, UnblockedShape
<1> HIDE DEF save, u
<1>4. CASE u.block # "none" /\ u.inflight # NoSave
  <2>1. q = u
    BY <1>4 DEF TrackedFlushSave, u
  <2> HIDE DEF q
  <2> QED BY <1>1, <1>2, <1>3, <1>4, <2>1 DEF KeepsRest, KeepsPage, KeepsRequest, Refused, Blocking, q
<1>5. CASE u.block # "none" /\ u.inflight = NoSave
  <2>1. q = [u EXCEPT !.saves = TrackSettled(u.saves, FALSE)]
    BY <1>5 DEF TrackedFlushSave, u
  <2>2. KeepsRest(u, q) /\ q.block = u.block /\ q.status = u.status /\ q.inflight = u.inflight /\ q.base = u.base
        /\ q.seq = u.seq /\ q.sent = u.sent /\ q.pending = u.pending /\ q.saves = TrackSettled(u.saves, FALSE)
    BY <1>3, <2>1 DEF Sound, Page, KeepsRest, KeepsPage
  <2> HIDE DEF q
  <2> QED BY <1>1, <1>2, <1>3, <1>5, <2>2 DEF KeepsRest, KeepsPage, KeepsRequest, Refused, Blocking, q
<1>6. CASE u.block = "none" /\ u.inflight # NoSave
  <2>1. q = [u EXCEPT !.pending = MergePendingNoteSave(u.pending, save)]
    BY <1>6 DEF TrackedFlushSave, u, save
  <2>2. KeepsRest(u, q) /\ q.block = u.block /\ q.status = u.status /\ q.inflight = u.inflight /\ q.base = u.base
        /\ q.seq = u.seq /\ q.sent = u.sent /\ q.saves = u.saves /\ q.pending = MergePendingNoteSave(u.pending, save)
    BY <1>3, <2>1 DEF Sound, Page, KeepsRest, KeepsPage
  <2> HIDE DEF q
  <2> QED BY <1>1, <1>2, <1>3, <1>6, <2>2 DEF KeepsRest, KeepsPage, KeepsRequest, Queued, Blocking, q
<1>7. CASE u.block = "none" /\ u.inflight = NoSave
  <2>1. q = StartRequest(u, save)
    BY <1>7 DEF TrackedFlushSave, u, save
  <2>2. KeepsRest(u, q) /\ q.block = u.block /\ Starts(u, q, save)
    BY <1>1, <1>3, <2>1, StartShape
  <2> HIDE DEF q
  <2> QED BY <1>1, <1>2, <1>3, <1>7, <2>2 DEF KeepsRest, KeepsPage, KeepsRequest, Sends, Starts, Blocking, q
<1> QED BY <1>4, <1>5, <1>6, <1>7

\* The page accepts a body under a new revision.
Accepted(p, a, c) ==
  /\ a.editor = p.editor /\ a.bodyRef = p.bodyRef /\ a.mounted = p.mounted /\ a.autoSave = p.autoSave
  /\ a.lock = p.lock /\ a.version = p.version /\ a.legacyRetry = p.legacyRetry
  /\ a.agentRequired = p.agentRequired /\ a.attempts = p.attempts /\ a.flush = p.flush
  /\ KeepsRequest(p, a) /\ Blocking(p, a) /\ a.block = "none"
  /\ c.revision = p.revision + 1 /\ c # NoSave
  /\ a.revision = c.revision /\ a.unsaved = c /\ a.accepted = p.accepted \cup c.body
  /\ a.retryTimer = NoSave /\ a.retryCandidate = NoSave

LEMMA NewCandidateShape ==
  ASSUME NEW p \in Page, NEW body \in SUBSET Edits, NEW source \in Sources, NEW op \in Ops \cup {NoOp}
  PROVE  LET c == NewCandidate(p, body, source, op)
         IN  /\ c \in Candidate /\ c.revision = p.revision + 1 /\ c.body = body /\ c # NoSave
             /\ c.source = (IF source = "agent" \/ p.agentRequired THEN "agent" ELSE "user")
<1> DEFINE c == NewCandidate(p, body, source, op)
<1>1. c \in Candidate /\ p.revision \in Nat
  BY NewCandidateType DEF Page
<1>2. c.revision = p.revision + 1 /\ c.body = body
      /\ c.source = (IF source = "agent" \/ p.agentRequired THEN "agent" ELSE "user")
  BY DEF NewCandidate
<1>3. NoSave.revision = 0
  BY DEF NoSave
<1> HIDE DEF c
<1>4. c # NoSave
  BY <1>1, <1>2, <1>3
<1> QED BY <1>1, <1>2, <1>4 DEF c

LEMMA AcceptShape ==
  ASSUME NEW p, Sound(p), p.block = "none", NEW c \in Candidate, c.revision = p.revision + 1, c # NoSave
  PROVE  LET a == Accept(p, c)
         IN  /\ Accepted(p, a, c) /\ a.scheduled = NoSave /\ a.timer = "off" /\ a.status = p.status
             /\ Sound(a)
<1> DEFINE q == CancelAgentRetry(p)
           a == Accept(p, c)
<1>1. /\ Sound(q)
      /\ q.editor = p.editor /\ q.bodyRef = p.bodyRef /\ q.mounted = p.mounted /\ q.autoSave = p.autoSave
      /\ q.lock = p.lock /\ q.version = p.version
      /\ q.legacyRetry = p.legacyRetry /\ q.agentRequired = p.agentRequired
      /\ q.retryTimer = NoSave /\ q.retryCandidate = NoSave /\ q.attempts = p.attempts
      /\ q.flush = p.flush /\ q.accepted = p.accepted /\ q.block = p.block /\ q.status = p.status
      /\ KeepsRequest(p, q)
  BY CancelShape, CancelSound
<1> DEFINE accepted == q.accepted \cup c.body
<1>2. a = [q EXCEPT !.revision = c.revision, !.unsaved = c, !.timer = "off", !.scheduled = NoSave,
                   !.accepted = accepted]
  BY DEF Accept
<1> HIDE DEF q, accepted
<1>3. /\ a.editor = q.editor /\ a.bodyRef = q.bodyRef /\ a.mounted = q.mounted /\ a.autoSave = q.autoSave
      /\ a.lock = q.lock /\ a.version = q.version
      /\ a.legacyRetry = q.legacyRetry /\ a.agentRequired = q.agentRequired
      /\ a.retryTimer = q.retryTimer /\ a.retryCandidate = q.retryCandidate /\ a.attempts = q.attempts
      /\ a.flush = q.flush /\ a.accepted = accepted /\ a.block = q.block /\ a.status = q.status
      /\ KeepsRequest(q, a)
      /\ a.revision = c.revision /\ a.unsaved = c /\ a.scheduled = NoSave /\ a.timer = "off"
  BY <1>1, <1>2 DEF Sound, Page, KeepsRequest
<1>4. Sound(a)
  BY AcceptSound
<1> HIDE DEF a
<1> QED BY <1>1, <1>3, <1>4 DEF Accepted, KeepsRequest, Blocking, accepted, a

\* An accepted body waits for the debounce.
Scheduled(p, q, c) == Accepted(p, q, c) /\ q.scheduled = c /\ q.status = "dirty"

LEMMA QueueShape ==
  ASSUME NEW p, Sound(p), NEW body \in SUBSET Edits, NEW source \in Sources, NEW op \in Ops \cup {NoOp}
  PROVE  LET q == QueueSave(p, body, source, op)
         IN  \/ q = p /\ p.block # "none"
             \/ \E c \in Candidate :
                  /\ c.body = body /\ c.source = (IF source = "agent" \/ p.agentRequired THEN "agent" ELSE "user")
                  /\ \/ source # "agent" /\ Scheduled(p, q, c)
                     \/ /\ source = "agent"
                        /\ \E a : /\ Sound(a) /\ Accepted(p, a, c) /\ a.scheduled = NoSave /\ a.status = "dirty"
                                  /\ q = TrackedFlushSave(a, c)
<1> DEFINE u == Unblocked(p)
           c == NewCandidate(u, body, source, op)
           b == Accept(u, c)
           a == [b EXCEPT !.status = "dirty"]
           timer == IF a.autoSave THEN "typed" ELSE "off"
           d == [a EXCEPT !.scheduled = c, !.timer = timer]
<1>1. /\ Sound(u) /\ KeepsRest(p, u) /\ KeepsRequest(p, u) /\ Blocking(p, u)
      /\ u.block # "none" => u = p
  BY UnblockedSound, UnblockedShape
<1> HIDE DEF u
<1>2. /\ c \in Candidate /\ c.revision = u.revision + 1 /\ c.body = body /\ c # NoSave
      /\ c.source = (IF source = "agent" \/ u.agentRequired THEN "agent" ELSE "user")
  BY <1>1, NewCandidateShape DEF Sound
<1> HIDE DEF c
<1>3. CASE u.block # "none"
  BY <1>1, <1>3 DEF QueueSave, u
<1>4. CASE u.block = "none"
  <2>1. Accepted(u, b, c) /\ b.scheduled = NoSave /\ b.timer = "off" /\ Sound(b)
    BY <1>1, <1>2, <1>4, AcceptShape
  <2> HIDE DEF b
  <2>2. Accepted(u, a, c) /\ a.scheduled = NoSave /\ a.status = "dirty" /\ Sound(a)
    <3>1. Sound(a)
      BY <2>1 DEF Sound, UnsavedIsNewest, Page, Statuses
    <3>2. /\ a.editor = b.editor /\ a.bodyRef = b.bodyRef /\ a.mounted = b.mounted /\ a.autoSave = b.autoSave
          /\ a.lock = b.lock /\ a.version = b.version /\ a.legacyRetry = b.legacyRetry
          /\ a.agentRequired = b.agentRequired /\ a.attempts = b.attempts /\ a.flush = b.flush
          /\ KeepsRequest(b, a) /\ a.block = b.block
          /\ a.revision = b.revision /\ a.unsaved = b.unsaved /\ a.accepted = b.accepted
          /\ a.retryTimer = b.retryTimer /\ a.retryCandidate = b.retryCandidate
          /\ a.scheduled = b.scheduled /\ a.status = "dirty"
      BY <2>1 DEF Sound, Page, KeepsRequest
    <3> HIDE DEF a
    <3> QED BY <2>1, <3>1, <3>2 DEF Accepted, KeepsRequest, Blocking
  <2> HIDE DEF a
  <2>3. Accepted(p, a, c)
    BY <1>1, <1>4, <2>2 DEF Accepted, KeepsRest, KeepsPage, KeepsRequest, Blocking
  <2>4. Scheduled(p, d, c)
    <3> HIDE DEF timer
    <3>1. /\ d.editor = a.editor /\ d.bodyRef = a.bodyRef /\ d.mounted = a.mounted /\ d.autoSave = a.autoSave
          /\ d.lock = a.lock /\ d.version = a.version /\ d.legacyRetry = a.legacyRetry
          /\ d.agentRequired = a.agentRequired /\ d.attempts = a.attempts /\ d.flush = a.flush
          /\ KeepsRequest(a, d) /\ d.block = a.block
          /\ d.revision = a.revision /\ d.unsaved = a.unsaved /\ d.accepted = a.accepted
          /\ d.retryTimer = a.retryTimer /\ d.retryCandidate = a.retryCandidate
          /\ d.scheduled = c /\ d.status = a.status
      BY <2>2 DEF Sound, Page, KeepsRequest
    <3> HIDE DEF d
    <3> QED BY <2>2, <2>3, <3>1 DEF Accepted, KeepsRequest, Blocking, Scheduled
  <2>5. QueueSave(p, body, source, op) = (IF source = "agent" THEN TrackedFlushSave(a, c) ELSE d)
    BY <1>4 DEF QueueSave, u, c, b, a, d
  <2>6. c.source = (IF source = "agent" \/ p.agentRequired THEN "agent" ELSE "user")
    BY <1>1, <1>2 DEF KeepsRest, KeepsPage
  <2> HIDE DEF d
  <2> QED BY <1>2, <2>2, <2>3, <2>4, <2>5, <2>6
<1> QED BY <1>3, <1>4

LEMMA SaveNowShape ==
  ASSUME NEW p, Sound(p), NEW body \in SUBSET Edits
  PROVE  LET q == SaveNow(p, body)
         IN  \/ q = p /\ p.block # "none"
             \/ \E c \in Candidate :
                  /\ c.body = body /\ c.source = (IF p.agentRequired THEN "agent" ELSE "user")
                  /\ \E a : /\ Sound(a) /\ Accepted(p, a, c) /\ a.scheduled = NoSave /\ a.status = p.status
                            /\ q = TrackedFlushSave(a, c)
<1> DEFINE u == Unblocked(p)
           c == NewCandidate(u, body, "user", NoOp)
           a == Accept(u, c)
<1>1. /\ Sound(u) /\ KeepsRest(p, u) /\ KeepsRequest(p, u) /\ Blocking(p, u) /\ u.status = p.status
      /\ u.block # "none" => u = p
  BY UnblockedSound, UnblockedShape
<1> HIDE DEF u
<1>2. /\ c \in Candidate /\ c.revision = u.revision + 1 /\ c.body = body /\ c # NoSave
      /\ c.source = (IF u.agentRequired THEN "agent" ELSE "user")
  BY <1>1, NewCandidateShape DEF Sound, Sources
<1> HIDE DEF c
<1>3. CASE u.block # "none"
  BY <1>1, <1>3 DEF SaveNow, u
<1>4. CASE u.block = "none"
  <2>1. Accepted(u, a, c) /\ a.scheduled = NoSave /\ a.status = u.status /\ Sound(a)
    BY <1>1, <1>2, <1>4, AcceptShape
  <2> HIDE DEF a
  <2>2. Accepted(p, a, c)
    BY <1>1, <1>4, <2>1 DEF Accepted, KeepsRest, KeepsPage, KeepsRequest, Blocking
  <2>3. SaveNow(p, body) = TrackedFlushSave(a, c)
    BY <1>4 DEF SaveNow, u, c, a
  <2>4. c.source = (IF p.agentRequired THEN "agent" ELSE "user")
    BY <1>1, <1>2 DEF KeepsRest, KeepsPage
  <2> QED BY <1>1, <1>2, <2>1, <2>2, <2>3, <2>4
<1> QED BY <1>3, <1>4

-----------------------------------------------------------------------------
(***************************************************************************)
(* A request in flight is one the barrier waits for; a body waits only     *)
(* behind a request.                                                       *)
(***************************************************************************)
Numbered(s) == \A n \in s.pending : n <= s.sequence

RequestIsTracked(p) ==
  /\ Numbered(p.saves)
  /\ p.inflight # NoSave => p.seq \in p.saves.pending
  /\ p.pending # NoSave => p.inflight # NoSave /\ p.block = "none"

LEMMA TrackNumbered ==
  ASSUME NEW s \in DocumentSaveState, Numbered(s)
  PROVE  /\ Numbered(Track(s)) /\ s.sequence + 1 \in Track(s).pending /\ s.pending \subseteq Track(s).pending
         /\ Track(s).sequence = s.sequence + 1 /\ \A n \in s.pending : n # s.sequence + 1
<1>1. s.sequence \in Nat /\ s.pending \subseteq Nat
  BY DEF DocumentSaveState
<1>2. \A n \in s.pending : n \in Nat /\ n <= s.sequence /\ n <= s.sequence + 1 /\ n # s.sequence + 1
  BY <1>1 DEF Numbered
<1>3. Track(s).pending = s.pending \cup {s.sequence + 1} /\ Track(s).sequence = s.sequence + 1
  BY DEF Track
<1> QED BY <1>1, <1>2, <1>3 DEF Numbered

LEMMA SettleNumbered ==
  ASSUME NEW s \in DocumentSaveState, Numbered(s), NEW n \in Nat, NEW ok \in BOOLEAN
  PROVE  Numbered(Settle(s, n, ok)) /\ \A m \in s.pending : m # n => m \in Settle(s, n, ok).pending
BY DEF Settle, Fresh, Numbered, DocumentSaveState

LEMMA TrackSettledNumbered ==
  ASSUME NEW s \in DocumentSaveState, Numbered(s), NEW ok \in BOOLEAN
  PROVE  Numbered(TrackSettled(s, ok))
<1>1. s.sequence + 1 \in Nat
  BY DEF DocumentSaveState
<1> QED BY <1>1, TrackType, TrackNumbered, SettleNumbered DEF TrackSettled

LEMMA TrackedRequest ==
  ASSUME NEW p, Sound(p), RequestIsTracked(p), NEW c \in Candidate
  PROVE  RequestIsTracked(TrackedFlushSave(p, c))
<1> DEFINE q == TrackedFlushSave(p, c)
<1>1. PICK save \in Candidate : Blocking(p, q) /\ (Refused(p, q) \/ Queued(p, q, save) \/ Sends(p, q, save))
  BY TrackedShape
<1>2. p.saves \in DocumentSaveState /\ Numbered(p.saves)
  BY DEF Sound, Page, RequestIsTracked
<1>3. /\ p.inflight # NoSave => p.seq \in p.saves.pending
      /\ p.pending # NoSave => p.inflight # NoSave /\ p.block = "none"
  BY DEF RequestIsTracked
<1> HIDE DEF q
<1>4. ASSUME Refused(p, q) PROVE RequestIsTracked(q)
  <2>1. q.pending = NoSave
    BY <1>1, <1>3, <1>4 DEF Refused, Blocking
  <2>2. Numbered(q.saves)
    BY <1>2, <1>4, TrackSettledNumbered DEF Refused
  <2>3. q.inflight # NoSave => q.seq \in q.saves.pending
    BY <1>3, <1>4 DEF Refused
  <2> QED BY <2>1, <2>2, <2>3 DEF RequestIsTracked
<1>5. ASSUME Queued(p, q, save) PROVE RequestIsTracked(q)
  BY <1>2, <1>3, <1>5 DEF Queued, RequestIsTracked
<1>6. ASSUME Sends(p, q, save) PROVE RequestIsTracked(q)
  <2>1. q.pending = NoSave
    BY <1>3, <1>6 DEF Sends, Starts
  <2>2. Numbered(q.saves) /\ q.seq \in q.saves.pending
    BY <1>2, <1>6, TrackNumbered DEF Sends, Starts
  <2> QED BY <2>1, <2>2 DEF RequestIsTracked
<1> QED BY <1>1, <1>4, <1>5, <1>6 DEF q

\* What the end of a request does.
Ends(p, q) ==
  /\ p.pending = NoSave \/ p.block # "none"
  /\ q.inflight = NoSave /\ q.block = p.block /\ q.status = p.status /\ q.sent = p.sent
PassesOn(p, q, save) ==
  /\ p.pending # NoSave /\ p.block = "none" /\ q.block = "none"
  /\ q.inflight = save /\ q.base = p.version
  /\ q.sent = (IF save.revision > p.sent THEN save.revision ELSE p.sent)
  /\ q.mounted => q.status = "saving"

LEMMA FinishShape ==
  ASSUME NEW p, Sound(p), NEW saved \in BOOLEAN,
         p.mounted /\ p.status = "saved" => p.unsaved = NoSave,
         p.inflight # NoSave, p.seq \in p.saves.pending, Numbered(p.saves)
  PROVE  LET q == FinishRequest(p, saved)
         IN  /\ Sound(q) /\ BadgeIsTrue(q) /\ KeepsPage(p, q) /\ q.flush.pc = p.flush.pc /\ q.pending = NoSave
             /\ RequestIsTracked(q)
             /\ \/ Ends(p, q)
                \/ \E save \in Candidate :
                     /\ save.revision = p.pending.revision /\ save.body = p.pending.body
                     /\ p.agentRequired => save.source = "agent"
                     /\ ~p.agentRequired => save = p.pending
                     /\ PassesOn(p, q, save)
<1> DEFINE done == [p EXCEPT !.inflight = NoSave, !.pending = NoSave]
           next == IF p.pending # NoSave /\ p.block = "none"
                   THEN TrackedFlushSave(done, p.pending) ELSE done
           flush == IF next.flush.pc = "saving" /\ next.flush.own = p.seq
                    THEN [next.flush EXCEPT !.own = 0, !.saved = saved] ELSE next.flush
           saves == Settle(next.saves, p.seq, saved)
           q == FinishRequest(p, saved)
<1>1. Sound(q) /\ BadgeIsTrue(q)
  BY FinishSound
<1>2. p.pending \in Candidate /\ p.saves \in DocumentSaveState /\ p.seq \in Nat
  BY DEF Sound, Page
<1>3. Sound(done)
  BY NoSaveType DEF Sound, UnsavedIsNewest, BadgeIsTrue, Page
<1>4. /\ KeepsRest(p, done) /\ done.block = p.block /\ done.status = p.status /\ done.sent = p.sent
      /\ done.saves = p.saves /\ done.inflight = NoSave /\ done.pending = NoSave
  BY DEF Sound, Page, KeepsRest, KeepsPage
<1> HIDE DEF done
<1>5. /\ Sound(next) /\ KeepsRest(p, next) /\ next.pending = NoSave
      /\ Numbered(next.saves) /\ p.seq \in next.saves.pending
      /\ (next.inflight # NoSave => next.seq \in next.saves.pending /\ next.seq # p.seq)
      /\ \/ Ends(p, next)
         \/ \E save \in Candidate :
              /\ save.revision = p.pending.revision /\ save.body = p.pending.body
              /\ p.agentRequired => save.source = "agent"
              /\ ~p.agentRequired => save = p.pending
              /\ PassesOn(p, next, save)
  <2>1. CASE ~(p.pending # NoSave /\ p.block = "none")
    BY <1>2, <1>3, <1>4, <2>1 DEF Ends
  <2>2. CASE p.pending # NoSave /\ p.block = "none"
    <3>1. Sound(TrackedFlushSave(done, p.pending))
      BY <1>2, <1>3, TrackedFlushSound
    <3>2. PICK save \in Candidate :
            /\ save.revision = p.pending.revision /\ save.body = p.pending.body
            /\ done.agentRequired => save.source = "agent"
            /\ ~done.agentRequired => save = p.pending
            /\ KeepsRest(done, TrackedFlushSave(done, p.pending))
            /\ Blocking(done, TrackedFlushSave(done, p.pending))
            /\ \/ Refused(done, TrackedFlushSave(done, p.pending))
               \/ Queued(done, TrackedFlushSave(done, p.pending), save)
               \/ Sends(done, TrackedFlushSave(done, p.pending), save)
      BY <1>2, <1>3, TrackedShape
    <3>3. next = TrackedFlushSave(done, p.pending)
      BY <2>2
    <3> HIDE DEF next
    <3>4. Sends(done, next, save)
      BY <1>4, <2>2, <3>2, <3>3 DEF Refused, Queued, Blocking
    <3>5. KeepsRest(p, next)
      BY <1>4, <3>2, <3>3 DEF KeepsRest, KeepsPage
    <3>6. next.saves = Track(p.saves) /\ next.seq = p.saves.sequence + 1
      BY <1>4, <3>4 DEF Sends, Starts
    <3>7. /\ Numbered(next.saves) /\ p.seq \in next.saves.pending
          /\ next.seq \in next.saves.pending /\ next.seq # p.seq
      BY <1>2, <3>6, TrackNumbered
    <3>8. done.agentRequired = p.agentRequired /\ done.version = p.version
      BY <1>4 DEF KeepsRest, KeepsPage
    <3>9. PassesOn(p, next, save) /\ next.pending = NoSave
      BY <1>4, <2>2, <3>4, <3>8 DEF PassesOn, Sends, Starts
    <3> QED BY <3>1, <3>2, <3>3, <3>5, <3>7, <3>8, <3>9
  <2> QED BY <2>1, <2>2
<1>6. q = [next EXCEPT !.saves = saves, !.flush = flush]
  BY DEF FinishRequest, next, done
<1> HIDE DEF next
<1>7. flush.pc = next.flush.pc
  BY <1>5 DEF Sound, Page, Flush
<1>8. next.saves \in DocumentSaveState
  BY <1>5 DEF Sound, Page
<1>9. Numbered(saves) /\ (next.inflight # NoSave => next.seq \in saves.pending)
  BY <1>2, <1>5, <1>8, SettleNumbered
<1> HIDE DEF flush, saves
<1>10. /\ KeepsPage(next, q) /\ q.flush = flush /\ q.saves = saves /\ q.block = next.block /\ q.status = next.status
       /\ q.inflight = next.inflight /\ q.base = next.base /\ q.seq = next.seq /\ q.sent = next.sent
       /\ q.pending = next.pending
  BY <1>5, <1>6 DEF Sound, Page, KeepsPage
<1> HIDE DEF q
<1>11. KeepsPage(p, q) /\ q.flush.pc = p.flush.pc /\ q.pending = NoSave /\ RequestIsTracked(q)
  BY <1>5, <1>7, <1>9, <1>10 DEF KeepsPage, KeepsRest, RequestIsTracked
<1>12. /\ Ends(p, next) => Ends(p, q)
       /\ \A save : PassesOn(p, next, save) => PassesOn(p, q, save)
  BY <1>5, <1>10 DEF Ends, PassesOn, KeepsPage, KeepsRest
<1> QED BY <1>1, <1>5, <1>11, <1>12 DEF q
-----------------------------------------------------------------------------
(***************************************************************************)
(* The strengthening behind NewestBodyIsSentLast and UnsavedIsHeld, for a  *)
(* note the AI does not edit: what waits in the debounce has the newest    *)
(* revision, what waits behind a request is no older than what was sent.   *)
(***************************************************************************)
NoAgent(p) ==
  /\ p.retryTimer = NoSave /\ p.retryCandidate = NoSave /\ ~p.agentRequired
  /\ p.scheduled.source = "user" /\ p.unsaved.source = "user"
  /\ p.pending.source = "user" /\ p.inflight.source = "user"

InOrder(p) ==
  /\ p.scheduled # NoSave => p.scheduled.revision = p.revision
  /\ p.sent <= p.revision
  /\ p.inflight # NoSave => p.inflight.revision = p.sent
  /\ p.pending # NoSave => p.sent <= p.pending.revision /\ p.pending.revision <= p.revision

\* "error" is shown only between requests.
ErrorEnds(p) == p.mounted /\ p.status = "error" => p.inflight = NoSave

PageInOrder(p) == RequestIsTracked(p) /\ NoAgent(p) /\ InOrder(p) /\ ErrorEnds(p)

\* The newest body is in the request, or waits behind it.
Carried(p) ==
  \/ p.inflight # NoSave /\ p.inflight.revision = p.revision
  \/ p.pending # NoSave /\ p.pending.revision = p.revision

Excused(p) == p.status = "error" \/ p.flush.pc = "draining" \/ p.scheduled # NoSave

Holds(p) == p.mounted /\ p.block = "none" /\ p.unsaved # NoSave => Excused(p) \/ Carried(p)

\* A request in flight stays the one that is answered.
Undisturbed(p, q) == p.inflight # NoSave => q.inflight = p.inflight /\ q.base = p.base

LEMMA TrackedInOrder ==
  ASSUME NEW p, Sound(p), PageInOrder(p), NEW c \in Candidate,
         c # NoSave, c.source = "user", c.revision = p.revision
  PROVE  LET q == TrackedFlushSave(p, c)
         IN  PageInOrder(q) /\ Undisturbed(p, q) /\ (q.block = "none" => Carried(q))
<1> DEFINE q == TrackedFlushSave(p, c)
<1>1. PICK save \in Candidate :
        /\ ~p.agentRequired => save = c
        /\ KeepsRest(p, q)
        /\ Refused(p, q) \/ Queued(p, q, save) \/ Sends(p, q, save)
  BY TrackedShape
<1>2. RequestIsTracked(q)
  BY TrackedRequest DEF PageInOrder
<1>3. save = c
  BY <1>1 DEF PageInOrder, NoAgent
<1>4. /\ p.revision \in Nat /\ p.sent \in Nat /\ p.pending \in Candidate /\ p.inflight \in Candidate
      /\ p.scheduled \in Candidate
  BY DEF Sound, Page
<1>5. MergePendingNoteSave(p.pending, c) = c
  BY DEF PageInOrder, NoAgent, MergePendingNoteSave
<1>6. /\ q.retryTimer = NoSave /\ q.retryCandidate = NoSave /\ ~q.agentRequired
      /\ q.scheduled.source = "user" /\ q.unsaved.source = "user"
  BY <1>1 DEF KeepsRest, KeepsPage, PageInOrder, NoAgent
<1>7. (q.scheduled # NoSave => q.scheduled.revision = q.revision) /\ q.revision = p.revision /\ q.mounted = p.mounted
  BY <1>1 DEF KeepsRest, KeepsPage, PageInOrder, InOrder
<1> HIDE DEF q
<1>8. ASSUME Refused(p, q) PROVE PageInOrder(q) /\ Undisturbed(p, q) /\ (q.block = "none" => Carried(q))
  BY <1>2, <1>6, <1>7, <1>8 DEF Refused, PageInOrder, NoAgent, InOrder, ErrorEnds, Undisturbed
<1>9. ASSUME Queued(p, q, save) PROVE PageInOrder(q) /\ Undisturbed(p, q) /\ Carried(q)
  <2>1. q.pending = c /\ q.inflight = p.inflight /\ q.sent = p.sent /\ q.status = p.status /\ q.base = p.base
    BY <1>3, <1>5, <1>9 DEF Queued
  <2>2. NoAgent(q)
    BY <1>6, <2>1 DEF NoAgent, PageInOrder
  <2>3. InOrder(q)
    BY <1>4, <1>7, <2>1 DEF InOrder, PageInOrder
  <2> QED BY <1>2, <1>7, <2>1, <2>2, <2>3 DEF PageInOrder, ErrorEnds, Undisturbed, Carried
<1>10. ASSUME Sends(p, q, save) PROVE PageInOrder(q) /\ Undisturbed(p, q) /\ Carried(q)
  <2>1. /\ q.pending = p.pending /\ q.inflight = c /\ p.inflight = NoSave
        /\ q.sent = (IF c.revision > p.sent THEN c.revision ELSE p.sent)
        /\ q.mounted => q.status = "saving"
    BY <1>3, <1>10 DEF Sends, Starts
  <2>2. p.pending = NoSave
    BY <2>1 DEF PageInOrder, RequestIsTracked
  <2>3. q.sent = p.revision
    BY <1>4, <2>1 DEF PageInOrder, InOrder
  <2>4. NoAgent(q)
    BY <1>6, <2>1 DEF NoAgent, PageInOrder
  <2>5. InOrder(q)
    BY <1>4, <1>7, <2>1, <2>2, <2>3 DEF InOrder
  <2> QED BY <1>2, <1>7, <2>1, <2>4, <2>5 DEF PageInOrder, ErrorEnds, Undisturbed, Carried
<1> QED BY <1>1, <1>8, <1>9, <1>10 DEF q

\* Accepting a body keeps the order; the body is the newest one.
LEMMA AcceptedInOrder ==
  ASSUME NEW p, Sound(p), PageInOrder(p), NEW a, NEW c \in Candidate, Accepted(p, a, c),
         c.source = "user", a.scheduled \in {NoSave, c}, a.status \in {p.status, "dirty"}
  PROVE  PageInOrder(a) /\ Undisturbed(p, a)
<1>1. p.revision \in Nat /\ p.sent \in Nat /\ p.pending \in Candidate
  BY DEF Sound, Page
<1>2. RequestIsTracked(a)
  BY DEF Accepted, KeepsRequest, PageInOrder, RequestIsTracked
<1>3. NoAgent(a)
  BY DEF Accepted, KeepsRequest, PageInOrder, NoAgent, NoSave
<1>4. InOrder(a)
  <2>1. a.revision = p.revision + 1 /\ a.sent = p.sent /\ a.pending = p.pending /\ a.inflight = p.inflight
        /\ c.revision = a.revision
    BY DEF Accepted, KeepsRequest
  <2>2. p.pending.revision \in Nat
    BY <1>1 DEF Candidate
  <2> QED BY <1>1, <2>1, <2>2 DEF PageInOrder, InOrder
<1>5. ErrorEnds(a)
  BY DEF Accepted, KeepsRequest, PageInOrder, ErrorEnds
<1>6. Undisturbed(p, a)
  BY DEF Accepted, KeepsRequest, Undisturbed
<1> QED BY <1>2, <1>3, <1>4, <1>5, <1>6 DEF PageInOrder

LEMMA QueueInOrder ==
  ASSUME NEW p, Sound(p), PageInOrder(p), NEW body \in SUBSET Edits
  PROVE  LET q == QueueSave(p, body, "user", NoOp)
         IN  PageInOrder(q) /\ Undisturbed(p, q) /\ (q.block = "none" => q.scheduled # NoSave)
<1> DEFINE q == QueueSave(p, body, "user", NoOp)
<1>1. \/ q = p /\ p.block # "none"
      \/ \E c \in Candidate : c.source = "user" /\ Scheduled(p, q, c)
  <2>1. "user" \in Sources /\ NoOp \in Ops \cup {NoOp} /\ "user" # "agent"
    BY DEF Sources
  <2>2. \/ q = p /\ p.block # "none"
        \/ \E c \in Candidate :
             /\ c.source = (IF "user" = "agent" \/ p.agentRequired THEN "agent" ELSE "user")
             /\ Scheduled(p, q, c)
    BY <2>1, QueueShape
  <2>3. ~p.agentRequired
    BY DEF PageInOrder, NoAgent
  <2> QED BY <2>1, <2>2, <2>3
<1> HIDE DEF q
<1>2. CASE q = p /\ p.block # "none"
  BY <1>2 DEF Undisturbed, q
<1>3. CASE \E c \in Candidate : c.source = "user" /\ Scheduled(p, q, c)
  <2>1. PICK c \in Candidate : c.source = "user" /\ Scheduled(p, q, c)
    BY <1>3
  <2>2. Accepted(p, q, c) /\ q.scheduled = c /\ q.status = "dirty" /\ c # NoSave
    BY <2>1 DEF Scheduled, Accepted
  <2> QED BY <2>1, <2>2, AcceptedInOrder DEF q
<1> QED BY <1>1, <1>2, <1>3

LEMMA SaveNowInOrder ==
  ASSUME NEW p, Sound(p), PageInOrder(p), NEW body \in SUBSET Edits
  PROVE  LET q == SaveNow(p, body)
         IN  PageInOrder(q) /\ Undisturbed(p, q) /\ (q.block = "none" => Carried(q))
<1> DEFINE q == SaveNow(p, body)
<1>1. \/ q = p /\ p.block # "none"
      \/ \E c \in Candidate :
           /\ c.source = (IF p.agentRequired THEN "agent" ELSE "user")
           /\ \E a : /\ Sound(a) /\ Accepted(p, a, c) /\ a.scheduled = NoSave /\ a.status = p.status
                     /\ q = TrackedFlushSave(a, c)
  BY SaveNowShape
<1> HIDE DEF q
<1>2. CASE q = p /\ p.block # "none"
  BY <1>2 DEF Undisturbed, q
<1>3. CASE q # p \/ p.block = "none"
  <2>1. PICK c \in Candidate :
          /\ c.source = (IF p.agentRequired THEN "agent" ELSE "user")
          /\ \E a : /\ Sound(a) /\ Accepted(p, a, c) /\ a.scheduled = NoSave /\ a.status = p.status
                    /\ q = TrackedFlushSave(a, c)
    BY <1>1, <1>3
  <2>9. PICK a : /\ Sound(a) /\ Accepted(p, a, c) /\ a.scheduled = NoSave /\ a.status = p.status
                 /\ q = TrackedFlushSave(a, c)
    BY <2>1
  <2>2. c.source = "user"
    BY <2>1 DEF PageInOrder, NoAgent
  <2>3. PageInOrder(a) /\ Undisturbed(p, a)
    BY <2>9, <2>1, <2>2, AcceptedInOrder
  <2>4. c # NoSave /\ c.revision = a.revision
    BY <2>9 DEF Accepted
  <2>5. PageInOrder(q) /\ Undisturbed(a, q) /\ (q.block = "none" => Carried(q))
    BY <2>9, <2>2, <2>3, <2>4, TrackedInOrder
  <2>6. Undisturbed(p, q)
    BY <2>3, <2>5 DEF Undisturbed
  <2> QED BY <2>5, <2>6 DEF q
<1> QED BY <1>2, <1>3

(* What an answer does. *)

\* What must be so before the request ends, for the newest body to be held afterwards.
Kept(p) ==
  p.mounted /\ p.block = "none" /\ p.unsaved # NoSave =>
    \/ p.status = "error" /\ p.pending = NoSave
    \/ p.flush.pc = "draining" \/ p.scheduled # NoSave
    \/ p.pending # NoSave /\ p.pending.revision = p.revision

LEMMA FinishInOrder ==
  ASSUME NEW p, Sound(p), NEW saved \in BOOLEAN,
         p.mounted /\ p.status = "saved" => p.unsaved = NoSave,
         p.inflight # NoSave, p.seq \in p.saves.pending, Numbered(p.saves),
         NoAgent(p), InOrder(p), Kept(p)
  PROVE  PageInOrder(FinishRequest(p, saved)) /\ Holds(FinishRequest(p, saved))
<1> DEFINE q == FinishRequest(p, saved)
<1>1. /\ KeepsPage(p, q) /\ q.flush.pc = p.flush.pc /\ q.pending = NoSave
      /\ RequestIsTracked(q)
      /\ \/ Ends(p, q)
         \/ \E save \in Candidate : (~p.agentRequired => save = p.pending) /\ PassesOn(p, q, save)
  BY FinishShape
<1> HIDE DEF q
<1>2. /\ p.revision \in Nat /\ p.sent \in Nat /\ p.pending \in Candidate
      /\ NoSave.source = "user"
  BY DEF Sound, Page, NoSave
<1>3. /\ q.retryTimer = NoSave /\ q.retryCandidate = NoSave /\ ~q.agentRequired
      /\ q.scheduled.source = "user" /\ q.unsaved.source = "user" /\ q.pending.source = "user"
  BY <1>1, <1>2 DEF KeepsPage, NoAgent
<1>4. /\ q.scheduled # NoSave => q.scheduled.revision = q.revision
      /\ q.revision = p.revision /\ q.mounted = p.mounted /\ q.unsaved = p.unsaved /\ q.scheduled = p.scheduled
  BY <1>1 DEF KeepsPage, InOrder
<1>5. ASSUME Ends(p, q) PROVE PageInOrder(q) /\ Holds(q)
  <2>1. q.inflight = NoSave /\ q.block = p.block /\ q.status = p.status /\ q.sent = p.sent
        /\ (p.pending = NoSave \/ p.block # "none")
    BY <1>5 DEF Ends
  <2>2. NoAgent(q) /\ InOrder(q) /\ ErrorEnds(q)
    BY <1>1, <1>2, <1>3, <1>4, <2>1 DEF NoAgent, InOrder, ErrorEnds
  <2>3. Holds(q)
    BY <1>1, <1>4, <2>1 DEF Kept, Holds, Excused
  <2> QED BY <1>1, <2>2, <2>3 DEF PageInOrder
<1>6. ASSUME NEW save \in Candidate, ~p.agentRequired => save = p.pending, PassesOn(p, q, save)
      PROVE  PageInOrder(q) /\ Holds(q)
  <2>1. /\ save = p.pending /\ p.pending # NoSave /\ q.block = "none" /\ q.inflight = p.pending
        /\ p.block = "none"
        /\ q.sent = (IF p.pending.revision > p.sent THEN p.pending.revision ELSE p.sent)
        /\ q.mounted => q.status = "saving"
    BY <1>6 DEF PassesOn, NoAgent
  <2>2. p.pending.revision \in Nat /\ p.sent <= p.pending.revision /\ p.pending.revision <= p.revision
    BY <1>2, <2>1 DEF InOrder, Candidate
  <2>3. q.sent = p.pending.revision
    BY <1>2, <2>1, <2>2
  <2>4. NoAgent(q) /\ InOrder(q) /\ ErrorEnds(q)
    BY <1>1, <1>2, <1>3, <1>4, <2>1, <2>2, <2>3 DEF NoAgent, InOrder, ErrorEnds
  <2>5. Holds(q)
    BY <1>1, <1>4, <2>1 DEF Kept, Holds, Excused, Carried
  <2> QED BY <1>1, <2>4, <2>5 DEF PageInOrder
<1> QED BY <1>1, <1>5, <1>6 DEF q

\* While a request is out, "error" excuses nothing.
LEMMA HeldInRequest ==
  ASSUME NEW p, Sound(p), PageInOrder(p), Holds(p), p.inflight # NoSave
  PROVE  p.mounted /\ p.block = "none" /\ p.unsaved # NoSave =>
           p.flush.pc = "draining" \/ p.scheduled # NoSave \/ Carried(p)
BY DEF PageInOrder, ErrorEnds, Holds, Excused

\* What mergeEditorMarkdown does.
MergesIn(p, q, next) ==
  /\ q.editor = next \cup (p.editor \ p.bodyRef) /\ q.bodyRef = q.editor
  /\ q.mounted = p.mounted /\ q.autoSave = p.autoSave /\ q.lock = p.lock /\ q.version = p.version
  /\ q.legacyRetry = p.legacyRetry /\ q.agentRequired = p.agentRequired /\ q.attempts = p.attempts
  /\ q.flush = p.flush /\ KeepsRequest(p, q)

NotQueued(p, q) ==
  /\ q.revision = p.revision /\ q.scheduled = p.scheduled /\ q.unsaved = p.unsaved
  /\ q.retryTimer = p.retryTimer /\ q.retryCandidate = p.retryCandidate /\ q.block = p.block

\* The body of the editor waits for the debounce.
QueuesAgain(p, q, c) ==
  /\ c # NoSave /\ c.revision = p.revision + 1 /\ c.body = q.editor
  /\ c.source = (IF p.agentRequired THEN "agent" ELSE "user")
  /\ q.revision = c.revision /\ q.scheduled = c /\ q.unsaved = c
  /\ q.retryTimer = NoSave /\ q.retryCandidate = NoSave /\ q.block = "none" /\ Blocking(p, q)

LEMMA MergeEditorShape ==
  ASSUME NEW p, Sound(p), NEW next \in SUBSET Edits
  PROVE  LET q == MergeEditorMarkdown(p, next)
         IN  /\ MergesIn(p, q, next)
             /\ \/ NotQueued(p, q) /\ (p.editor \subseteq p.bodyRef \/ p.block # "none")
                \/ \E c \in Candidate : QueuesAgain(p, q, c)
<1> DEFINE typed == p.editor \ p.bodyRef
           body == next \cup typed
           m == [p EXCEPT !.editor = body, !.bodyRef = body]
           q == MergeEditorMarkdown(p, next)
<1>1. body \in SUBSET Edits /\ "user" \in Sources /\ NoOp \in Ops \cup {NoOp} /\ "user" # "agent"
  BY DEF Sound, Page, Sources
<1> HIDE DEF body
<1>2. Sound(m)
  BY <1>1 DEF Sound, UnsavedIsNewest, Page
<1>3. /\ m.editor = body /\ m.bodyRef = body
      /\ m.mounted = p.mounted /\ m.autoSave = p.autoSave /\ m.lock = p.lock /\ m.version = p.version
      /\ m.legacyRetry = p.legacyRetry /\ m.agentRequired = p.agentRequired /\ m.attempts = p.attempts
      /\ m.flush = p.flush /\ KeepsRequest(p, m)
      /\ NotQueued(p, m)
  BY DEF Sound, Page, KeepsRequest, NotQueued
<1>4. q = (IF typed = {} THEN m ELSE QueueSave(m, body, "user", NoOp))
  BY DEF MergeEditorMarkdown, body
<1> HIDE DEF m, q, typed
<1>5. MergesIn(p, m, next)
  BY <1>3 DEF MergesIn, body, typed
<1>6. CASE typed = {}
  <2>1. q = m /\ p.editor \subseteq p.bodyRef
    BY <1>4, <1>6 DEF typed
  <2> QED BY <1>3, <1>5, <2>1 DEF q
<1>7. CASE typed # {}
  <2>1. q = QueueSave(m, body, "user", NoOp)
    BY <1>4, <1>7
  <2>2. \/ q = m /\ m.block # "none"
        \/ \E c \in Candidate :
             /\ c.body = body /\ c.source = (IF "user" = "agent" \/ m.agentRequired THEN "agent" ELSE "user")
             /\ Scheduled(m, q, c)
    BY <1>1, <1>2, <2>1, QueueShape
  <2>3. CASE q = m /\ m.block # "none"
    BY <1>3, <1>5, <2>3 DEF NotQueued, q
  <2>4. CASE \E c \in Candidate :
             /\ c.body = body /\ c.source = (IF "user" = "agent" \/ m.agentRequired THEN "agent" ELSE "user")
             /\ Scheduled(m, q, c)
    <3>1. PICK c \in Candidate :
             /\ c.body = body /\ c.source = (IF m.agentRequired THEN "agent" ELSE "user")
             /\ Scheduled(m, q, c)
      BY <1>1, <2>4
    <3>2. Accepted(m, q, c) /\ q.scheduled = c
      BY <3>1 DEF Scheduled
    <3>3. MergesIn(p, q, next)
      BY <1>3, <1>5, <3>2 DEF MergesIn, Accepted, KeepsRequest
    <3>4. QueuesAgain(p, q, c)
      BY <1>3, <3>1, <3>2 DEF QueuesAgain, Accepted, NotQueued, Blocking
    <3> QED BY <3>3, <3>4 DEF q
  <2> QED BY <2>2, <2>3, <2>4
<1> QED BY <1>6, <1>7

\* What the parts of flushSave after its await leave alone.
KeepsCore(p, q) ==
  /\ q.editor = p.editor /\ q.bodyRef = p.bodyRef /\ q.mounted = p.mounted /\ q.lock = p.lock
  /\ q.flush = p.flush /\ q.inflight = p.inflight /\ q.base = p.base /\ q.seq = p.seq
  /\ q.pending = p.pending /\ q.saves = p.saves /\ q.sent = p.sent
  /\ q.revision = p.revision /\ q.scheduled = p.scheduled /\ q.block = p.block

KeepsRetry(p, q) == q.retryTimer = p.retryTimer /\ q.retryCandidate = p.retryCandidate

LEMMA AdoptShape ==
  ASSUME NEW p, Sound(p), NEW answer \in Reply
  PROVE  LET q == AdoptVersion(p, answer)
         IN  /\ KeepsCore(p, q) /\ KeepsRetry(p, q) /\ q.unsaved = p.unsaved /\ q.agentRequired = p.agentRequired
             /\ q.version = (IF answer.merge = "none" \/ IsLatestEdit(p) THEN answer.version ELSE p.version)
<1> DEFINE v == IF answer.merge = "none" \/ IsLatestEdit(p) THEN answer.version ELSE p.version
           q == AdoptVersion(p, answer)
<1>1. q = [p EXCEPT !.version = v, !.legacyRetry = FALSE]
  BY DEF AdoptVersion
<1> HIDE DEF v
<1>2. /\ KeepsCore(p, q) /\ KeepsRetry(p, q) /\ q.unsaved = p.unsaved /\ q.agentRequired = p.agentRequired
      /\ q.version = v
  BY <1>1 DEF Sound, Page, KeepsCore, KeepsRetry
<1> HIDE DEF q
<1> QED BY <1>2 DEF q, v

LEMMA ClearUnsavedShape ==
  ASSUME NEW p, Sound(p), NEW c
  PROVE  LET q == ClearUnsaved(p, c)
         IN  /\ KeepsCore(p, q) /\ KeepsRetry(p, q) /\ q.version = p.version /\ q.agentRequired = p.agentRequired
             /\ q.unsaved = (IF p.unsaved.revision = c.revision THEN NoSave ELSE p.unsaved)
<1> DEFINE u == IF p.unsaved.revision = c.revision THEN NoSave ELSE p.unsaved
           q == ClearUnsaved(p, c)
<1>1. q = [p EXCEPT !.unsaved = u]
  BY DEF ClearUnsaved
<1> HIDE DEF u
<1>2. /\ KeepsCore(p, q) /\ KeepsRetry(p, q) /\ q.version = p.version /\ q.agentRequired = p.agentRequired
      /\ q.unsaved = u
  BY <1>1 DEF Sound, Page, KeepsCore, KeepsRetry
<1> HIDE DEF q
<1> QED BY <1>2 DEF q, u

LEMMA AgentSavedShape ==
  ASSUME NEW p, Sound(p)
  PROVE  LET q == AgentSaved(p)
         IN  /\ KeepsCore(p, q) /\ q.version = p.version /\ q.unsaved = p.unsaved
             /\ ~q.agentRequired /\ q.retryTimer = NoSave /\ q.retryCandidate = NoSave
BY DEF AgentSaved, CancelAgentRetry, Sound, Page, KeepsCore

\* The editor takes the merged body in.
Merging(p, answer) ==
  p.mounted /\ answer.merge # "none" /\ IsLatestEdit(p) /\ answer.body # p.bodyRef

\* The page before the request ends: with nothing new to save ...
Settles(p, r) ==
  /\ r.revision = p.revision /\ r.scheduled = p.scheduled /\ r.block = p.block
  /\ r.unsaved = (IF p.unsaved.revision = p.inflight.revision THEN NoSave ELSE p.unsaved)
  /\ r.retryTimer = (IF p.inflight.source = "agent" THEN NoSave ELSE p.retryTimer)
  /\ r.retryCandidate = (IF p.inflight.source = "agent" THEN NoSave ELSE p.retryCandidate)

\* ... or with what was typed on top of the merged body.
Saves(p, r, answer) ==
  /\ Sound(r) /\ (r.mounted /\ r.status = "saved" => r.unsaved = NoSave)
  /\ r.mounted = p.mounted /\ r.lock = p.lock /\ r.flush = p.flush
  /\ r.inflight = p.inflight /\ r.base = p.base /\ r.seq = p.seq /\ r.saves = p.saves
  /\ r.pending = p.pending /\ r.sent = p.sent
  /\ r.version = (IF answer.merge = "none" \/ IsLatestEdit(p) THEN answer.version ELSE p.version)
  /\ r.agentRequired => p.agentRequired /\ p.inflight.source # "agent"
  /\ p.agentRequired /\ p.inflight.source # "agent" => r.agentRequired
  /\ IF Merging(p, answer)
     THEN r.editor = answer.body \cup (p.editor \ p.bodyRef) /\ r.bodyRef = r.editor
     ELSE r.editor = p.editor /\ r.bodyRef = p.bodyRef
  /\ \/ Settles(p, r) /\ (Merging(p, answer) => p.editor \subseteq p.bodyRef \/ p.block # "none")
     \/ Merging(p, answer) /\ \E c \in Candidate : QueuesAgain(p, r, c)

LEMMA ReportShape ==
  ASSUME NEW p, Sound(p), NEW answer \in Reply, NEW a, a = AdoptVersion(p, answer)
  PROVE  LET m == ReportServerMerge(a, answer)
         IN  IF Merging(p, answer)
             THEN /\ MergesIn(a, m, answer.body)
                  /\ \/ NotQueued(a, m) /\ (a.editor \subseteq a.bodyRef \/ a.block # "none")
                     \/ \E c \in Candidate : QueuesAgain(a, m, c)
             ELSE m = a
<1>1. Sound(a) /\ KeepsCore(p, a) /\ answer.body \in SUBSET Edits
  BY AdoptSound, AdoptShape DEF Reply
<1>2. IsLatestEdit(a) <=> IsLatestEdit(p)
  BY <1>1 DEF IsLatestEdit, KeepsCore
<1>3. CASE Merging(p, answer)
  <2>1. ReportServerMerge(a, answer) = MergeEditorMarkdown(a, answer.body)
    BY <1>1, <1>2, <1>3 DEF ReportServerMerge, Merging, KeepsCore
  <2> QED BY <1>1, <1>3, <2>1, MergeEditorShape
<1>4. CASE ~Merging(p, answer)
  <2>1. ReportServerMerge(a, answer) = a
    BY <1>1, <1>2, <1>4 DEF ReportServerMerge, Merging, KeepsCore
  <2> QED BY <1>4, <2>1
<1> QED BY <1>3, <1>4

LEMMA SavedShape ==
  ASSUME NEW p, Sound(p), NEW answer \in Reply
  PROVE  \E r : OnSaved(p, answer) = FinishRequest(r, TRUE) /\ Saves(p, r, answer)
<1> DEFINE saved == p.inflight
           a == AdoptVersion(p, answer)
           m == ReportServerMerge(a, answer)
           d == ClearUnsaved(m, saved)
           e == IF saved.source = "agent" THEN AgentSaved(d) ELSE d
           status == IF saved.revision = e.revision THEN "saved" ELSE "dirty"
           r == SetStatus(e, status)
<1>1. OnSaved(p, answer) = FinishRequest(r, TRUE)
  BY DEF OnSaved
<1>2. /\ Sound(a) /\ KeepsCore(p, a) /\ KeepsRetry(p, a) /\ a.unsaved = p.unsaved
      /\ a.agentRequired = p.agentRequired
      /\ a.version = (IF answer.merge = "none" \/ IsLatestEdit(p) THEN answer.version ELSE p.version)
  BY AdoptSound, AdoptShape
<1>3. IF Merging(p, answer)
      THEN /\ MergesIn(a, m, answer.body)
           /\ \/ NotQueued(a, m) /\ (a.editor \subseteq a.bodyRef \/ a.block # "none")
              \/ \E c \in Candidate : QueuesAgain(a, m, c)
      ELSE m = a
  BY ReportShape
<1>4. Sound(m)
  BY <1>2, ReportSound
<1> HIDE DEF a, m
<1>5. /\ Sound(d) /\ KeepsCore(m, d) /\ KeepsRetry(m, d) /\ d.version = m.version
      /\ d.agentRequired = m.agentRequired
      /\ d.unsaved = (IF m.unsaved.revision = saved.revision THEN NoSave ELSE m.unsaved)
      /\ saved.revision = m.revision => d.unsaved = NoSave
  BY <1>4, ClearUnsavedSound, ClearUnsavedShape
<1> HIDE DEF d
<1>6. /\ Sound(e) /\ KeepsCore(d, e) /\ e.version = d.version /\ e.unsaved = d.unsaved
      /\ IF saved.source = "agent"
         THEN ~e.agentRequired /\ e.retryTimer = NoSave /\ e.retryCandidate = NoSave
         ELSE KeepsRetry(d, e) /\ e.agentRequired = d.agentRequired
  <2>1. CASE saved.source = "agent"
    BY <1>5, <2>1, AgentSavedSound, AgentSavedShape
  <2>2. CASE saved.source # "agent"
    BY <1>5, <2>2 DEF KeepsCore, KeepsRetry
  <2> QED BY <2>1, <2>2
<1> HIDE DEF e
<1>7. status \in Statuses /\ status \in {"saved", "dirty"}
  BY DEF Statuses
<1>8. /\ Sound(r) /\ KeepsRest(e, r) /\ KeepsRequest(e, r) /\ r.block = e.block
      /\ r.mounted => r.status = status
  BY <1>6, <1>7, SetStatusSound, SetStatusShape
<1>9. r.mounted /\ r.status = "saved" => r.unsaved = NoSave
  <2>1. ASSUME r.mounted, r.status = "saved" PROVE r.unsaved = NoSave
    <3>1. status = "saved"
      BY <1>8, <2>1
    <3>2. saved.revision = e.revision
      BY <3>1
    <3> HIDE DEF status, r
    <3> QED BY <1>5, <1>6, <1>8, <3>2 DEF KeepsCore, KeepsRest, KeepsPage
  <2> QED BY <2>1
<1> HIDE DEF r, status
<1>10. /\ KeepsCore(m, r) /\ r.version = m.version
       /\ r.unsaved = (IF m.unsaved.revision = saved.revision THEN NoSave ELSE m.unsaved)
       /\ IF saved.source = "agent"
          THEN ~r.agentRequired /\ r.retryTimer = NoSave /\ r.retryCandidate = NoSave
          ELSE KeepsRetry(m, r) /\ r.agentRequired = m.agentRequired
  BY <1>5, <1>6, <1>8 DEF KeepsCore, KeepsRetry, KeepsRest, KeepsPage, KeepsRequest
<1>11. Saves(p, r, answer)
  <2>1. CASE ~Merging(p, answer)
    <3>1. m = a
      BY <1>3, <2>1
    <3>2. Settles(p, r)
      BY <1>2, <1>10, <3>1 DEF Settles, KeepsCore, KeepsRetry
    <3> QED BY <1>2, <1>8, <1>9, <1>10, <2>1, <3>1, <3>2 DEF Saves, KeepsCore
  <2>2. CASE Merging(p, answer)
    <3>1. /\ MergesIn(a, m, answer.body)
          /\ \/ NotQueued(a, m) /\ (a.editor \subseteq a.bodyRef \/ a.block # "none")
             \/ \E c \in Candidate : QueuesAgain(a, m, c)
      BY <1>3, <2>2
    <3>2. /\ r.mounted = p.mounted /\ r.lock = p.lock /\ r.flush = p.flush
          /\ r.inflight = p.inflight /\ r.base = p.base /\ r.seq = p.seq /\ r.saves = p.saves
          /\ r.pending = p.pending /\ r.sent = p.sent /\ r.version = a.version
          /\ m.agentRequired = p.agentRequired
      BY <1>2, <1>10, <3>1 DEF MergesIn, KeepsRequest, KeepsCore
    <3>3. r.editor = answer.body \cup (p.editor \ p.bodyRef) /\ r.bodyRef = r.editor
      BY <1>2, <1>10, <3>1 DEF MergesIn, KeepsCore
    <3>4. /\ r.agentRequired => p.agentRequired /\ saved.source # "agent"
          /\ p.agentRequired /\ saved.source # "agent" => r.agentRequired
      BY <1>10, <3>2
    <3>5. CASE NotQueued(a, m) /\ (a.editor \subseteq a.bodyRef \/ a.block # "none")
      <4>1. Settles(p, r)
        BY <1>2, <1>10, <3>5 DEF Settles, NotQueued, KeepsCore, KeepsRetry
      <4>2. p.editor \subseteq p.bodyRef \/ p.block # "none"
        BY <1>2, <3>5 DEF KeepsCore
      <4> QED BY <1>2, <1>8, <1>9, <2>2, <3>2, <3>3, <3>4, <4>1, <4>2 DEF Saves
    <3>6. CASE \E c \in Candidate : QueuesAgain(a, m, c)
      <4>1. PICK c \in Candidate : QueuesAgain(a, m, c)
        BY <3>6
      <4>2. saved.revision = p.revision /\ p.revision \in Nat
        BY <2>2 DEF Merging, IsLatestEdit, Sound, Page
      <4>3. r.unsaved = c
        BY <1>2, <1>10, <4>1, <4>2 DEF QueuesAgain, KeepsCore
      <4>4. /\ r.retryTimer = NoSave /\ r.retryCandidate = NoSave
        BY <1>10, <4>1 DEF QueuesAgain, KeepsRetry
      <4>5. QueuesAgain(p, r, c)
        BY <1>2, <1>10, <4>1, <4>3, <4>4 DEF QueuesAgain, KeepsCore, Blocking
      <4> QED BY <1>2, <1>8, <1>9, <2>2, <3>2, <3>3, <3>4, <4>5 DEF Saves
    <3> QED BY <3>1, <3>5, <3>6
  <2> QED BY <2>1, <2>2
<1> QED BY <1>1, <1>11

LEMMA SavedInOrder ==
  ASSUME NEW p, Sound(p), PageInOrder(p), Holds(p), p.inflight # NoSave, NEW answer \in Reply
  PROVE  PageInOrder(OnSaved(p, answer)) /\ Holds(OnSaved(p, answer))
<1>1. PICK r : OnSaved(p, answer) = FinishRequest(r, TRUE) /\ Saves(p, r, answer)
  BY SavedShape
<1>2. /\ p.revision \in Nat /\ p.sent \in Nat /\ p.pending \in Candidate /\ NoSave.source = "user"
      /\ p.inflight.source = "user"
  BY DEF Sound, Page, NoSave, PageInOrder, NoAgent
<1>3. /\ Sound(r) /\ (r.mounted /\ r.status = "saved" => r.unsaved = NoSave)
      /\ r.mounted = p.mounted /\ r.flush = p.flush
      /\ r.inflight = p.inflight /\ r.seq = p.seq /\ r.saves = p.saves /\ r.pending = p.pending /\ r.sent = p.sent
      /\ ~r.agentRequired
      /\ Settles(p, r) \/ \E c \in Candidate : QueuesAgain(p, r, c)
  BY <1>1 DEF Saves, PageInOrder, NoAgent
<1>4. r.inflight # NoSave /\ r.seq \in r.saves.pending /\ Numbered(r.saves)
  BY <1>3 DEF PageInOrder, RequestIsTracked
<1>5. NoAgent(r) /\ InOrder(r) /\ Kept(r)
  <2>1. CASE Settles(p, r)
    <3>1. /\ r.revision = p.revision /\ r.scheduled = p.scheduled /\ r.block = p.block
          /\ r.unsaved = (IF p.unsaved.revision = p.inflight.revision THEN NoSave ELSE p.unsaved)
          /\ r.retryTimer = NoSave /\ r.retryCandidate = NoSave
      BY <1>2, <2>1 DEF Settles, PageInOrder, NoAgent
    <3>2. NoAgent(r) /\ InOrder(r)
      BY <1>2, <1>3, <3>1 DEF NoAgent, InOrder, PageInOrder
    <3>3. Kept(r)
      <4> SUFFICES ASSUME r.mounted, r.block = "none", r.unsaved # NoSave
                   PROVE  \/ r.flush.pc = "draining" \/ r.scheduled # NoSave
                          \/ r.pending # NoSave /\ r.pending.revision = r.revision
        BY DEF Kept
      <4>1. p.unsaved # NoSave /\ p.unsaved.revision # p.inflight.revision
        BY <3>1
      <4>2. p.inflight.revision # p.revision
        BY <4>1 DEF Sound, UnsavedIsNewest
      <4>3. p.flush.pc = "draining" \/ p.scheduled # NoSave \/ Carried(p)
        BY <1>3, <3>1, <4>1, HeldInRequest
      <4> QED BY <1>3, <3>1, <4>2, <4>3 DEF Carried
    <3> QED BY <3>2, <3>3
  <2>2. CASE \E c \in Candidate : QueuesAgain(p, r, c)
    <3>1. PICK c \in Candidate : QueuesAgain(p, r, c)
      BY <2>2
    <3>2. /\ c # NoSave /\ c.revision = p.revision + 1 /\ c.source = "user"
          /\ r.revision = c.revision /\ r.scheduled = c /\ r.unsaved = c
          /\ r.retryTimer = NoSave /\ r.retryCandidate = NoSave
      BY <3>1 DEF QueuesAgain, PageInOrder, NoAgent
    <3>3. p.pending.revision \in Nat
      BY <1>2 DEF Candidate
    <3>4. InOrder(r)
      BY <1>2, <1>3, <3>2, <3>3 DEF InOrder, PageInOrder
    <3> QED BY <1>2, <1>3, <3>2, <3>4 DEF NoAgent, Kept, PageInOrder
  <2> QED BY <1>3, <2>1, <2>2
<1>6. PageInOrder(FinishRequest(r, TRUE)) /\ Holds(FinishRequest(r, TRUE))
  BY <1>3, <1>4, <1>5, FinishInOrder
<1> QED BY <1>1, <1>6

\* The page that a failure leaves before the request ends.
LEMMA KeptAfterFailure ==
  ASSUME NEW p, Sound(p), PageInOrder(p), Holds(p), p.inflight # NoSave,
         NEW r, r.mounted = p.mounted, r.flush = p.flush, r.block = p.block, r.unsaved = p.unsaved,
         r.scheduled = p.scheduled, r.revision = p.revision,
         r.pending = p.pending \/ (p.pending = NoSave /\ r.pending = p.inflight),
         r.mounted => r.status = "error" \/ r.pending # NoSave
  PROVE  Kept(r)
<1> SUFFICES ASSUME r.mounted, r.block = "none", r.unsaved # NoSave,
                    r.flush.pc # "draining", r.scheduled = NoSave
             PROVE  \/ r.status = "error" /\ r.pending = NoSave
                    \/ r.pending # NoSave /\ r.pending.revision = r.revision
  BY DEF Kept
<1>1. Carried(p)
  BY HeldInRequest
<1>2. /\ p.revision \in Nat /\ p.sent \in Nat /\ p.pending.revision \in Nat
      /\ p.inflight.revision = p.sent
      /\ p.pending # NoSave => p.sent <= p.pending.revision /\ p.pending.revision <= p.revision
  BY DEF Sound, Page, Candidate, PageInOrder, InOrder
<1>3. CASE r.pending = NoSave
  BY <1>3
<1>4. CASE r.pending # NoSave
  <2>1. CASE r.pending = p.pending
    <3>1. p.pending.revision = p.revision
      BY <1>1, <1>2, <1>4, <2>1 DEF Carried
    <3> QED BY <1>4, <2>1, <3>1
  <2>2. CASE p.pending = NoSave /\ r.pending = p.inflight
    BY <1>1, <1>4, <2>2 DEF Carried
  <2> QED BY <2>1, <2>2
<1> QED BY <1>3, <1>4

\* What a failed request leaves alone before it ends.
KeepsCall(p, q) ==
  /\ q.editor = p.editor /\ q.bodyRef = p.bodyRef /\ q.mounted = p.mounted /\ q.lock = p.lock
  /\ q.flush = p.flush /\ q.inflight = p.inflight /\ q.base = p.base /\ q.seq = p.seq
  /\ q.saves = p.saves /\ q.sent = p.sent
  /\ q.revision = p.revision /\ q.scheduled = p.scheduled /\ q.unsaved = p.unsaved

\* A failed request of the user, or one to be merged again.
Fails(p, r) ==
  /\ Sound(r) /\ BadgeIsTrue(r) /\ KeepsCall(p, r) /\ r.block = p.block
  /\ KeepsRetry(p, r) /\ r.agentRequired = p.agentRequired
  /\ r.pending = p.pending \/ (p.pending = NoSave /\ r.pending = p.inflight)
  /\ p.inflight # NoSave /\ r.mounted => r.status = "error" \/ r.pending # NoSave

LEMMA ConflictShape ==
  ASSUME NEW p, Sound(p), BadgeIsTrue(p), NEW latest \in Nat
  PROVE  \E r : OnConflict(p, latest) = FinishRequest(r, FALSE) /\ Fails(p, r)
<1> DEFINE v == IF latest # 0 THEN latest ELSE p.version
           q == [p EXCEPT !.version = v]
           c == IF q.pending = NoSave THEN p.inflight ELSE q.pending
           r == [q EXCEPT !.legacyRetry = TRUE, !.pending = c]
           e == [q EXCEPT !.legacyRetry = FALSE]
           s == SetStatus(e, "error")
<1>1. p.inflight \in Candidate /\ v \in Nat
  BY DEF Sound, Page
<1> HIDE DEF v
<1>2. /\ Sound(q) /\ BadgeIsTrue(q) /\ KeepsCall(p, q) /\ q.block = p.block /\ KeepsRetry(p, q)
      /\ q.agentRequired = p.agentRequired /\ q.pending = p.pending
  BY <1>1 DEF Sound, UnsavedIsNewest, BadgeIsTrue, Page, KeepsCall, KeepsRetry
<1>3. OnConflict(p, latest) \in {FinishRequest(r, FALSE), FinishRequest(s, FALSE)}
  BY DEF OnConflict, v
<1> HIDE DEF q
<1>4. c \in Candidate
  BY <1>1, <1>2 DEF Sound, Page
<1>5. c = p.pending \/ (p.pending = NoSave /\ c = p.inflight)
  BY <1>2
<1>6. p.inflight # NoSave => c # NoSave
  BY <1>2
<1> HIDE DEF c
<1>7. Fails(p, r)
  <2>1. /\ Sound(r) /\ BadgeIsTrue(r) /\ KeepsCall(q, r) /\ r.block = q.block /\ KeepsRetry(q, r)
        /\ r.agentRequired = q.agentRequired /\ r.pending = c
    BY <1>2, <1>4, ZenonT(40) DEF Sound, UnsavedIsNewest, BadgeIsTrue, Page, KeepsCall, KeepsRetry
  <2> HIDE DEF r
  <2> QED BY <1>2, <1>5, <1>6, <2>1 DEF Fails, KeepsCall, KeepsRetry
<1>8. Fails(p, s)
  <2>1. /\ Sound(e) /\ KeepsCall(q, e) /\ e.block = q.block /\ KeepsRetry(q, e)
        /\ e.agentRequired = q.agentRequired /\ e.pending = q.pending
    BY <1>2, ZenonT(40) DEF Sound, UnsavedIsNewest, Page, KeepsCall, KeepsRetry
  <2> HIDE DEF e
  <2>2. /\ Sound(s) /\ BadgeIsTrue(s) /\ KeepsRest(e, s) /\ KeepsRequest(e, s) /\ s.block = e.block
        /\ s.mounted => s.status = "error"
    BY <2>1, SetStatusSound, SetStatusShape DEF Statuses
  <2> HIDE DEF s
  <2> QED BY <1>2, <2>1, <2>2 DEF Fails, KeepsCall, KeepsRetry, KeepsRest, KeepsPage, KeepsRequest
<1> QED BY <1>3, <1>7, <1>8

\* A failed request of the AI.
AgentFails(p, r) ==
  /\ Sound(r) /\ BadgeIsTrue(r) /\ KeepsCall(p, r) /\ r.block = p.block /\ r.version = p.version
  /\ r.pending = PromoteAfterAgentFailure(p.pending)
  /\ r.agentRequired <=> p.pending = NoSave
  /\ r.retryTimer \in {p.retryTimer, p.inflight}
  /\ r.retryCandidate \in {p.retryCandidate, p.inflight, NoSave}
  /\ ~p.mounted => KeepsRetry(p, r)
  /\ p.pending # NoSave => r.retryTimer = p.retryTimer /\ r.retryCandidate \in {p.retryCandidate, NoSave}

LEMMA ScheduleRetryShape ==
  ASSUME NEW p, Sound(p), NEW c \in Candidate
  PROVE  LET q == ScheduleAgentRetry(p, c)
         IN  /\ KeepsCall(p, q) /\ q.block = p.block /\ q.version = p.version
             /\ q.pending = p.pending /\ q.agentRequired = p.agentRequired
             /\ q.retryTimer \in {p.retryTimer, c} /\ q.retryCandidate \in {p.retryCandidate, c, NoSave}
             /\ ~p.mounted => KeepsRetry(p, q)
             /\ p.pending # NoSave => q.retryTimer = p.retryTimer /\ q.retryCandidate \in {p.retryCandidate, NoSave}
<1> DEFINE q == ScheduleAgentRetry(p, c)
           n == p.attempts + 1
           g == [p EXCEPT !.retryCandidate = NoSave]
           a == [p EXCEPT !.attempts = n, !.retryTimer = c, !.retryCandidate = c]
<1>1. \/ q = p
      \/ q = g /\ p.mounted
      \/ q = a /\ p.mounted /\ p.pending = NoSave
  BY DEF ScheduleAgentRetry
<1> HIDE DEF n
<1>2. /\ KeepsCall(p, g) /\ g.block = p.block /\ g.version = p.version
      /\ g.pending = p.pending /\ g.agentRequired = p.agentRequired
      /\ g.retryTimer = p.retryTimer /\ g.retryCandidate = NoSave
  BY DEF Sound, Page, KeepsCall
<1>3. /\ KeepsCall(p, a) /\ a.block = p.block /\ a.version = p.version
      /\ a.pending = p.pending /\ a.agentRequired = p.agentRequired
      /\ a.retryTimer = c /\ a.retryCandidate = c
  BY DEF Sound, Page, KeepsCall
<1>4. KeepsCall(p, p)
  BY DEF KeepsCall
<1> HIDE DEF g, a, q
<1> QED BY <1>1, <1>2, <1>3, <1>4 DEF KeepsRetry, q

LEMMA FailedShape ==
  ASSUME NEW p, Sound(p)
  PROVE  \E r : /\ OnFailed(p) = FinishRequest(r, FALSE) /\ r.version = p.version
                /\ IF p.inflight.source = "agent" THEN AgentFails(p, r) ELSE Fails(p, r)
<1> DEFINE c == PromoteAfterAgentFailure(p.pending)
           b == p.pending = NoSave
           q == [p EXCEPT !.pending = c, !.agentRequired = b]
           planned == IF p.inflight.source = "agent" THEN ScheduleAgentRetry(q, p.inflight) ELSE p
           s == SetStatus(planned, "error")
<1>1. p.pending \in Candidate /\ p.inflight \in Candidate
  BY DEF Sound, Page
<1>2. c \in Candidate /\ (c = NoSave <=> p.pending = NoSave)
  BY <1>1, NoSaveType DEF PromoteAfterAgentFailure, Candidate, Sources, NoSave
<1>3. OnFailed(p) = FinishRequest(s, FALSE)
  BY DEF OnFailed
<1>4. PICK k \in BOOLEAN : k <=> b
  OBVIOUS
<1>5. q = [p EXCEPT !.pending = c, !.agentRequired = k]
  BY <1>4
<1> HIDE DEF c
<1>6. /\ Sound(q) /\ KeepsCall(p, q) /\ q.block = p.block /\ q.version = p.version /\ KeepsRetry(p, q)
      /\ q.pending = c /\ (q.agentRequired <=> p.pending = NoSave) /\ q.mounted = p.mounted
  <2>1. \A j \in BOOLEAN : LET t == [p EXCEPT !.pending = c, !.agentRequired = j]
          IN  /\ Sound(t) /\ KeepsCall(p, t) /\ t.block = p.block /\ t.version = p.version /\ KeepsRetry(p, t)
              /\ t.pending = c /\ t.agentRequired = j /\ t.mounted = p.mounted
    BY <1>2, ZenonT(40) DEF Sound, UnsavedIsNewest, Page, KeepsCall, KeepsRetry
  <2> HIDE DEF q
  <2> QED BY <1>4, <1>5, <2>1
<1> HIDE DEF q
<1>7. CASE p.inflight.source = "agent"
  <2>1. planned = ScheduleAgentRetry(q, p.inflight)
    BY <1>7
  <2> HIDE DEF planned
  <2>2. /\ Sound(planned) /\ KeepsCall(q, planned) /\ planned.block = q.block /\ planned.version = q.version
        /\ planned.pending = q.pending /\ planned.agentRequired = q.agentRequired
        /\ planned.retryTimer \in {q.retryTimer, p.inflight}
        /\ planned.retryCandidate \in {q.retryCandidate, p.inflight, NoSave}
        /\ ~q.mounted => KeepsRetry(q, planned)
        /\ q.pending # NoSave =>
             planned.retryTimer = q.retryTimer /\ planned.retryCandidate \in {q.retryCandidate, NoSave}
    BY <1>1, <1>6, <2>1, ScheduleRetrySound, ScheduleRetryShape
  <2>3. Sound(s) /\ BadgeIsTrue(s) /\ KeepsRest(planned, s) /\ KeepsRequest(planned, s) /\ s.block = planned.block
    BY <2>2, SetStatusSound, SetStatusShape DEF Statuses
  <2> HIDE DEF s
  <2>4. KeepsCall(p, s) /\ s.block = p.block /\ s.version = p.version /\ s.pending = c
    BY <1>6, <2>2, <2>3 DEF KeepsCall, KeepsRest, KeepsPage, KeepsRequest
  <2>5. s.agentRequired <=> p.pending = NoSave
    BY <1>6, <2>2, <2>3 DEF KeepsRest, KeepsPage
  <2>6. /\ s.retryTimer \in {p.retryTimer, p.inflight}
        /\ s.retryCandidate \in {p.retryCandidate, p.inflight, NoSave}
        /\ ~p.mounted => KeepsRetry(p, s)
        /\ p.pending # NoSave => s.retryTimer = p.retryTimer /\ s.retryCandidate \in {p.retryCandidate, NoSave}
    BY <1>2, <1>6, <2>2, <2>3 DEF KeepsRetry, KeepsRest, KeepsPage
  <2>7. AgentFails(p, s)
    BY <2>3, <2>4, <2>5, <2>6 DEF AgentFails, c
  <2> QED BY <1>3, <1>7, <2>4, <2>7
<1>8. CASE p.inflight.source # "agent"
  <2>1. planned = p
    BY <1>8
  <2>2. /\ Sound(s) /\ BadgeIsTrue(s) /\ KeepsRest(p, s) /\ KeepsRequest(p, s) /\ s.block = p.block
        /\ s.mounted => s.status = "error"
    BY <2>1, SetStatusSound, SetStatusShape DEF Statuses
  <2> HIDE DEF s
  <2>3. Fails(p, s) /\ s.version = p.version
    BY <2>2 DEF Fails, KeepsCall, KeepsRetry, KeepsRest, KeepsPage, KeepsRequest
  <2> QED BY <1>3, <1>8, <2>3
<1> QED BY <1>7, <1>8

\* The answer forbids saving.
Blocked(p, r, block) ==
  /\ Sound(r) /\ BadgeIsTrue(r) /\ KeepsCall(p, r) /\ r.block = block /\ r.version = p.version
  /\ r.pending = p.pending /\ r.agentRequired = p.agentRequired
  /\ r.retryTimer = NoSave /\ r.retryCandidate = NoSave

LEMMA BlockedShape ==
  ASSUME NEW p, Sound(p), NEW block \in {"lock-lost", "session-expired"}
  PROVE  \E r : OnBlocked(p, block) = FinishRequest(r, FALSE) /\ Blocked(p, r, block)
<1> DEFINE q == [p EXCEPT !.block = block]
           t == CancelAgentRetry(q)
           s == SetStatus(t, block)
<1>1. /\ Sound(q) /\ KeepsCall(p, q) /\ q.block = block /\ q.version = p.version
      /\ q.pending = p.pending /\ q.agentRequired = p.agentRequired
  BY DEF Sound, UnsavedIsNewest, Page, Blocks, KeepsCall
<1>2. OnBlocked(p, block) = FinishRequest(s, FALSE)
  BY DEF OnBlocked
<1> HIDE DEF q
<1>3. /\ Sound(t) /\ KeepsCall(q, t) /\ t.block = q.block /\ t.version = q.version
      /\ t.pending = q.pending /\ t.agentRequired = q.agentRequired
      /\ t.retryTimer = NoSave /\ t.retryCandidate = NoSave
  BY <1>1, CancelSound, CancelShape DEF KeepsCall, KeepsRequest
<1> HIDE DEF t
<1>4. Sound(s) /\ BadgeIsTrue(s) /\ KeepsRest(t, s) /\ KeepsRequest(t, s) /\ s.block = t.block
  BY <1>3, SetStatusSound, SetStatusShape DEF Statuses
<1> HIDE DEF s
<1>5. Blocked(p, s, block)
  BY <1>1, <1>3, <1>4 DEF Blocked, KeepsCall, KeepsRest, KeepsPage, KeepsRequest
<1> QED BY <1>2, <1>5

LEMMA FailsInOrder ==
  ASSUME NEW p, Sound(p), PageInOrder(p), Holds(p), p.inflight # NoSave, NEW r, Fails(p, r)
  PROVE  PageInOrder(FinishRequest(r, FALSE)) /\ Holds(FinishRequest(r, FALSE))
<1>1. /\ Sound(r) /\ (r.mounted /\ r.status = "saved" => r.unsaved = NoSave)
      /\ r.inflight = p.inflight /\ r.seq = p.seq /\ r.saves = p.saves /\ r.sent = p.sent
      /\ r.mounted = p.mounted /\ r.flush = p.flush /\ r.block = p.block /\ r.unsaved = p.unsaved
      /\ r.scheduled = p.scheduled /\ r.revision = p.revision
      /\ r.retryTimer = p.retryTimer /\ r.retryCandidate = p.retryCandidate /\ r.agentRequired = p.agentRequired
      /\ r.pending = p.pending \/ (p.pending = NoSave /\ r.pending = p.inflight)
      /\ r.mounted => r.status = "error" \/ r.pending # NoSave
  BY DEF Fails, BadgeIsTrue, KeepsCall, KeepsRetry
<1>2. r.inflight # NoSave /\ r.seq \in r.saves.pending /\ Numbered(r.saves)
  BY <1>1 DEF PageInOrder, RequestIsTracked
<1>3. NoAgent(r)
  BY <1>1 DEF PageInOrder, NoAgent
<1>4. InOrder(r)
  <2>1. p.sent \in Nat /\ p.revision \in Nat
    BY DEF Sound, Page
  <2> QED BY <1>1, <2>1 DEF PageInOrder, InOrder
<1>5. Kept(r)
  BY <1>1, KeptAfterFailure
<1> QED BY <1>1, <1>2, <1>3, <1>4, <1>5, FinishInOrder

LEMMA ConflictInOrder ==
  ASSUME NEW p, Sound(p), BadgeIsTrue(p), PageInOrder(p), Holds(p), p.inflight # NoSave, NEW latest \in Nat
  PROVE  PageInOrder(OnConflict(p, latest)) /\ Holds(OnConflict(p, latest))
BY ConflictShape, FailsInOrder

LEMMA FailedInOrder ==
  ASSUME NEW p, Sound(p), PageInOrder(p), Holds(p), p.inflight # NoSave
  PROVE  PageInOrder(OnFailed(p)) /\ Holds(OnFailed(p))
<1>1. p.inflight.source # "agent"
  BY DEF PageInOrder, NoAgent
<1> QED BY <1>1, FailedShape, FailsInOrder

LEMMA BlockedInOrder ==
  ASSUME NEW p, Sound(p), PageInOrder(p), p.inflight # NoSave, NEW block \in {"lock-lost", "session-expired"}
  PROVE  PageInOrder(OnBlocked(p, block)) /\ Holds(OnBlocked(p, block))
<1>1. PICK r : OnBlocked(p, block) = FinishRequest(r, FALSE) /\ Blocked(p, r, block)
  BY BlockedShape
<1>2. /\ Sound(r) /\ (r.mounted /\ r.status = "saved" => r.unsaved = NoSave)
      /\ r.inflight = p.inflight /\ r.seq = p.seq /\ r.saves = p.saves /\ r.sent = p.sent
      /\ r.mounted = p.mounted /\ r.unsaved = p.unsaved
      /\ r.scheduled = p.scheduled /\ r.revision = p.revision /\ r.pending = p.pending
      /\ r.retryTimer = NoSave /\ r.retryCandidate = NoSave /\ r.agentRequired = p.agentRequired
      /\ r.block # "none"
  BY <1>1 DEF Blocked, BadgeIsTrue, KeepsCall
<1>3. r.inflight # NoSave /\ r.seq \in r.saves.pending /\ Numbered(r.saves)
  BY <1>2 DEF PageInOrder, RequestIsTracked
<1>4. NoAgent(r) /\ InOrder(r) /\ Kept(r)
  BY <1>2 DEF PageInOrder, NoAgent, InOrder, Kept
<1> QED BY <1>1, <1>2, <1>3, <1>4, FinishInOrder

-----------------------------------------------------------------------------
(* What the flush and the end of an editor do. *)

LEMMA BeforeFlushInOrder ==
  ASSUME NEW p, Sound(p), PageInOrder(p)
  PROVE  LET q == BeforeFlush(p)
         IN  PageInOrder(q) /\ Undisturbed(p, q) /\ (Holds(p) => Holds(q))
<1> DEFINE m == [p EXCEPT !.bodyRef = p.editor]
<1>1. p.editor \in SUBSET Edits
  BY DEF Sound, Page
<1>2. /\ Sound(m) /\ KeepsRequest(p, m)
      /\ m.mounted = p.mounted /\ m.revision = p.revision /\ m.scheduled = p.scheduled /\ m.unsaved = p.unsaved
      /\ m.agentRequired = p.agentRequired /\ m.retryTimer = p.retryTimer /\ m.retryCandidate = p.retryCandidate
      /\ m.status = p.status /\ m.block = p.block
  BY <1>1 DEF Sound, UnsavedIsNewest, Page, KeepsRequest
<1>3. BeforeFlush(p) = (IF p.mounted /\ p.editor # p.bodyRef THEN QueueSave(m, p.editor, "user", NoOp) ELSE p)
  BY DEF BeforeFlush
<1> HIDE DEF m
<1>4. PageInOrder(m) /\ Undisturbed(p, m)
  BY <1>2 DEF PageInOrder, RequestIsTracked, NoAgent, InOrder, ErrorEnds, Undisturbed, KeepsRequest
<1>5. CASE p.mounted /\ p.editor # p.bodyRef
  <2> DEFINE q == QueueSave(m, p.editor, "user", NoOp)
  <2>1. PageInOrder(q) /\ Undisturbed(m, q) /\ (q.block = "none" => q.scheduled # NoSave)
    BY <1>1, <1>2, <1>4, QueueInOrder
  <2> HIDE DEF q
  <2>2. Undisturbed(p, q)
    BY <1>4, <2>1 DEF Undisturbed
  <2>3. Holds(q)
    BY <2>1 DEF Holds, Excused
  <2>4. BeforeFlush(p) = q
    BY <1>3, <1>5 DEF q
  <2> QED BY <2>1, <2>2, <2>3, <2>4
<1>6. CASE ~(p.mounted /\ p.editor # p.bodyRef)
  BY <1>3, <1>6 DEF Undisturbed
<1> QED BY <1>5, <1>6

LEMMA ClearScheduledShape ==
  ASSUME NEW p, Sound(p)
  PROVE  LET q == ClearScheduledSave(p)
         IN  /\ q.editor = p.editor /\ q.bodyRef = p.bodyRef /\ q.mounted = p.mounted /\ q.autoSave = p.autoSave
             /\ q.lock = p.lock /\ q.version = p.version /\ q.revision = p.revision
             /\ q.scheduled = NoSave /\ q.timer = "off" /\ q.unsaved = p.unsaved
             /\ q.legacyRetry = p.legacyRetry /\ q.agentRequired = p.agentRequired
             /\ q.retryTimer = NoSave /\ q.retryCandidate = NoSave /\ q.attempts = p.attempts
             /\ q.flush = p.flush /\ q.accepted = p.accepted /\ q.block = p.block /\ q.status = p.status
             /\ KeepsRequest(p, q)
BY DEF ClearScheduledSave, CancelAgentRetry, Sound, Page, KeepsRequest

\* Without the timers the order stays.
LEMMA ClearedInOrder ==
  ASSUME NEW p, Sound(p), PageInOrder(p)
  PROVE  PageInOrder(ClearScheduledSave(p)) /\ Undisturbed(p, ClearScheduledSave(p))
<1> DEFINE q == ClearScheduledSave(p)
<1>1. /\ q.mounted = p.mounted /\ q.revision = p.revision
      /\ q.scheduled = NoSave /\ q.unsaved = p.unsaved /\ q.agentRequired = p.agentRequired
      /\ q.retryTimer = NoSave /\ q.retryCandidate = NoSave
      /\ q.block = p.block /\ q.status = p.status
      /\ KeepsRequest(p, q)
  BY ClearScheduledShape
<1> HIDE DEF q
<1>2. NoSave.source = "user"
  BY DEF NoSave
<1> QED BY <1>1, <1>2
     DEF PageInOrder, RequestIsTracked, NoAgent, InOrder, ErrorEnds, Undisturbed, KeepsRequest, q

LEMMA UnblockedInOrder ==
  ASSUME NEW p, Sound(p), PageInOrder(p)
  PROVE  PageInOrder(Unblocked(p)) /\ Undisturbed(p, Unblocked(p))
<1> DEFINE q == Unblocked(p)
<1>1. KeepsRest(p, q) /\ KeepsRequest(p, q) /\ Blocking(p, q) /\ q.status = p.status
  BY UnblockedShape
<1> HIDE DEF q
<1> QED BY <1>1 DEF PageInOrder, RequestIsTracked, NoAgent, InOrder, ErrorEnds, Undisturbed, KeepsRequest,
                     KeepsRest, KeepsPage, Blocking, q

\* What only the flush of the barrier changes.
LEMMA FlushFieldInOrder ==
  ASSUME NEW p, Sound(p), PageInOrder(p), NEW f
  PROVE  LET q == [p EXCEPT !.flush = f]
         IN  /\ PageInOrder(q) /\ Undisturbed(p, q)
             /\ (p.block = "none" /\ p.unsaved # NoSave => Carried(p)) => Holds(q)
             /\ Holds(p) /\ p.flush.pc # "draining" => Holds(q)
             /\ f.pc = "draining" => Holds(q)
<1> DEFINE q == [p EXCEPT !.flush = f]
<1>1. /\ q.mounted = p.mounted /\ q.revision = p.revision /\ q.flush = f
      /\ q.scheduled = p.scheduled /\ q.unsaved = p.unsaved /\ q.agentRequired = p.agentRequired
      /\ q.retryTimer = p.retryTimer /\ q.retryCandidate = p.retryCandidate
      /\ q.block = p.block /\ q.status = p.status
      /\ KeepsRequest(p, q)
  BY DEF Sound, Page, KeepsRequest
<1> HIDE DEF q
<1>2. PageInOrder(q) /\ Undisturbed(p, q)
  BY <1>1 DEF PageInOrder, RequestIsTracked, NoAgent, InOrder, ErrorEnds, Undisturbed, KeepsRequest
<1>3. Carried(q) <=> Carried(p)
  BY <1>1 DEF Carried, KeepsRequest
<1>4. Excused(q) <=> p.status = "error" \/ f.pc = "draining" \/ p.scheduled # NoSave
  BY <1>1 DEF Excused
<1> QED BY <1>1, <1>2, <1>3, <1>4 DEF Holds, Excused, q

LEMMA FlushRoundInOrder ==
  ASSUME NEW p, Sound(p), PageInOrder(p)
  PROVE  LET q == FlushRound(p)
         IN  PageInOrder(q) /\ Undisturbed(p, q) /\ Holds(q)
<1> DEFINE synced  == BeforeFlush(p)
           open    == Unblocked(synced)
           cleared == ClearScheduledSave(open)
           sent    == TrackedFlushSave(cleared, open.unsaved)
           f       == [NoFlush EXCEPT !.pc = "saving", !.own = sent.seq]
           last    == [sent EXCEPT !.flush = f]
           q       == FlushRound(p)
<1>1. Sound(synced) /\ PageInOrder(synced) /\ Undisturbed(p, synced)
  BY BeforeFlushSound, BeforeFlushInOrder
<1> HIDE DEF synced
<1>2. Sound(open) /\ PageInOrder(open) /\ Undisturbed(synced, open) /\ open.unsaved = synced.unsaved
      /\ open.revision = synced.revision
  BY <1>1, UnblockedSound, UnblockedInOrder, UnblockedShape DEF KeepsRest, KeepsPage
<1> HIDE DEF open
<1>3. q = (IF synced.unsaved = NoSave THEN EndFlush(synced, synced.saves.success)
           ELSE IF open.block # "none" THEN EndFlush(open, FALSE) ELSE last)
  BY DEF FlushRound, synced, open
<1>4. CASE synced.unsaved = NoSave
  <2>1. PICK g : q = [synced EXCEPT !.flush = g]
    BY <1>3, <1>4 DEF EndFlush
  <2> HIDE DEF q
  <2>2. PageInOrder(q) /\ Undisturbed(synced, q) /\ Holds(q)
    BY <1>1, <1>4, <2>1, FlushFieldInOrder
  <2>3. Undisturbed(p, q)
    BY <1>1, <2>2 DEF Undisturbed
  <2> QED BY <2>2, <2>3 DEF q
<1>5. CASE synced.unsaved # NoSave /\ open.block # "none"
  <2>1. PICK g : q = [open EXCEPT !.flush = g]
    BY <1>3, <1>5 DEF EndFlush
  <2> HIDE DEF q
  <2>2. PageInOrder(q) /\ Undisturbed(open, q) /\ Holds(q)
    BY <1>2, <1>5, <2>1, FlushFieldInOrder
  <2>3. Undisturbed(p, q)
    BY <1>1, <1>2, <2>2 DEF Undisturbed
  <2> QED BY <2>2, <2>3 DEF q
<1>6. CASE synced.unsaved # NoSave /\ open.block = "none"
  <2>1. Sound(cleared) /\ PageInOrder(cleared) /\ Undisturbed(open, cleared) /\ cleared.revision = open.revision
    BY <1>2, ClearScheduledSound, ClearedInOrder, ClearScheduledShape
  <2> HIDE DEF cleared
  <2>2. /\ open.unsaved \in Candidate /\ open.unsaved # NoSave /\ open.unsaved.source = "user"
        /\ open.unsaved.revision = cleared.revision
    BY <1>2, <1>6, <2>1 DEF Sound, UnsavedIsNewest, Page, PageInOrder, NoAgent
  <2>3. Sound(sent) /\ PageInOrder(sent) /\ Undisturbed(cleared, sent) /\ (sent.block = "none" => Carried(sent))
    BY <2>1, <2>2, TrackedFlushSound, TrackedInOrder
  <2> HIDE DEF sent, f
  <2>4. PageInOrder(last) /\ Undisturbed(sent, last) /\ Holds(last)
    BY <2>3, FlushFieldInOrder
  <2> HIDE DEF last
  <2>5. q = last
    BY <1>3, <1>6
  <2> HIDE DEF q
  <2>6. Undisturbed(p, q)
    BY <1>1, <1>2, <2>1, <2>3, <2>4, <2>5 DEF Undisturbed
  <2> QED BY <2>4, <2>5, <2>6 DEF q
<1> QED BY <1>4, <1>5, <1>6

-----------------------------------------------------------------------------
(***************************************************************************)
(* The inductive invariant of a note the AI does not edit.                 *)
(***************************************************************************)
AnswersARequest == reply # NoReply => page.inflight # NoSave

OrderInv == IInv /\ AnswersARequest /\ PageInOrder(page) /\ Holds(page)

LEMMA OrderInvImplies == OrderInv => NewestBodyIsSentLast /\ UnsavedIsHeld
<1> SUFFICES ASSUME OrderInv PROVE NewestBodyIsSentLast /\ UnsavedIsHeld
  OBVIOUS
<1>1. NewestBodyIsSentLast
  BY DEF OrderInv, PageInOrder, InOrder, NewestBodyIsSentLast
<1>2. UnsavedIsHeld
  <2>1. page.unsaved # NoSave => page.unsaved.revision = page.revision
    BY DEF OrderInv, IInv, PageIsSound, Sound, UnsavedIsNewest
  <2> QED BY <2>1 DEF OrderInv, Holds, Excused, Carried, PageInOrder, InOrder, UnsavedIsHeld
<1> QED BY <1>1, <1>2

LEMMA OpenedInOrder ==
  ASSUME NEW body, NEW version, NEW saves \in DocumentSaveState, Numbered(saves)
  PROVE  PageInOrder(Opened(body, version, saves)) /\ Holds(Opened(body, version, saves))
BY DEF Opened, PageInOrder, RequestIsTracked, NoAgent, InOrder, ErrorEnds, Holds, NoSave

LEMMA InitOrderInv == Init => OrderInv
<1> SUFFICES ASSUME Init PROVE OrderInv
  OBVIOUS
<1>1. Fresh \in DocumentSaveState /\ Numbered(Fresh)
  BY DEF Fresh, DocumentSaveState, Numbered
<1>2. PageInOrder(page) /\ Holds(page)
  BY <1>1, OpenedInOrder DEF Init
<1> QED BY <1>2, InitIInv DEF OrderInv, Init, AnswersARequest

(* The steps of the note. *)

LEMMA UserDefault == NoSave.source = "user"
BY DEF NoSave

\* What every step has to show.
Ordered(p, q) == PageInOrder(q) /\ Holds(q) /\ Undisturbed(p, q)

LEMMA AnsweredOrder ==
  ASSUME OrderInv, Answered
  PROVE  PageInOrder(page') /\ Holds(page') /\ reply' = NoReply
<1>1. /\ Sound(page) /\ BadgeIsTrue(page) /\ PageInOrder(page) /\ Holds(page) /\ reply \in Reply
      /\ NoReply.kind = "waiting"
  BY DEF OrderInv, IInv, PageIsSound, RestTypeOK, NoReply
<1>2. page.inflight # NoSave
  BY <1>1 DEF OrderInv, AnswersARequest, Answered, SaveSucceeds, SaveConflicts, SaveFails, SaveForbidden,
              SaveUnauthorized
<1>3. reply' = NoReply
  BY DEF Answered, SaveSucceeds, SaveConflicts, SaveFails, SaveForbidden, SaveUnauthorized
<1>4. CASE SaveSucceeds
  BY <1>1, <1>2, <1>3, <1>4, SavedInOrder DEF SaveSucceeds
<1>5. CASE SaveConflicts
  <2>1. PICK latest \in Nat : page' = OnConflict(page, latest)
    BY <1>1, <1>5 DEF SaveConflicts, Reply
  <2> QED BY <1>1, <1>2, <1>3, <2>1, ConflictInOrder
<1>6. CASE SaveFails
  BY <1>1, <1>2, <1>3, <1>6, FailedInOrder DEF SaveFails
<1>7. CASE SaveForbidden
  BY <1>1, <1>2, <1>3, <1>7, BlockedInOrder DEF SaveForbidden
<1>8. CASE SaveUnauthorized
  BY <1>1, <1>2, <1>3, <1>8, BlockedInOrder DEF SaveUnauthorized
<1> QED BY <1>4, <1>5, <1>6, <1>7, <1>8 DEF Answered

LEMMA TimerOrder ==
  ASSUME OrderInv, MarkdownUpdated \/ DebounceFires \/ AgentRetryFires \/ SaveShortcut
  PROVE  Ordered(page, page')
<1>1. /\ Sound(page) /\ PageInOrder(page) /\ Holds(page)
      /\ page.editor \in SUBSET Edits /\ page.bodyRef \in SUBSET Edits /\ page.scheduled \in Candidate
  BY DEF OrderInv, IInv, PageIsSound, Sound, Page
<1>2. CASE MarkdownUpdated
  <2>1. page' = BeforeFlush(page)
    BY <1>2 DEF MarkdownUpdated, BeforeFlush
  <2> QED BY <1>1, <2>1, BeforeFlushInOrder DEF Ordered
<1>3. CASE DebounceFires
  <2> DEFINE p == [page EXCEPT !.timer = "off", !.scheduled = NoSave]
  <2>1. /\ p.mounted = page.mounted /\ p.revision = page.revision /\ p.scheduled = NoSave
        /\ p.unsaved = page.unsaved /\ p.agentRequired = page.agentRequired
        /\ p.retryTimer = page.retryTimer /\ p.retryCandidate = page.retryCandidate
        /\ p.status = page.status /\ p.block = page.block /\ p.flush = page.flush /\ KeepsRequest(page, p)
        /\ Sound(p)
    BY <1>1, NoSaveType DEF Sound, UnsavedIsNewest, Page, KeepsRequest
  <2>2. page' = (IF page.scheduled = NoSave THEN p ELSE TrackedFlushSave(p, page.scheduled))
    BY <1>3 DEF DebounceFires
  <2> HIDE DEF p
  <2>3. PageInOrder(p) /\ Undisturbed(page, p)
    BY <1>1, <2>1, UserDefault DEF PageInOrder, RequestIsTracked, NoAgent, InOrder, ErrorEnds, Undisturbed, KeepsRequest
  <2>4. CASE page.scheduled = NoSave
    <3>1. Holds(p)
      BY <1>1, <2>1, <2>4 DEF Holds, Excused, Carried, KeepsRequest
    <3> QED BY <2>2, <2>3, <2>4, <3>1 DEF Ordered
  <2>5. CASE page.scheduled # NoSave
    <3>1. page.scheduled.source = "user" /\ page.scheduled.revision = p.revision
      BY <1>1, <2>1, <2>5 DEF PageInOrder, NoAgent, InOrder
    <3>2. PageInOrder(page') /\ Undisturbed(p, page') /\ (page'.block = "none" => Carried(page'))
      BY <1>1, <2>1, <2>2, <2>3, <2>5, <3>1, TrackedInOrder
    <3> QED BY <2>3, <3>2 DEF Ordered, Undisturbed, Holds
  <2> QED BY <2>4, <2>5
<1>4. CASE AgentRetryFires
  BY <1>1, <1>4 DEF AgentRetryFires, PageInOrder, NoAgent
<1>5. CASE SaveShortcut
  <2>1. page' = SaveNow(page, page.bodyRef)
    BY <1>5 DEF SaveShortcut
  <2>2. PageInOrder(page') /\ Undisturbed(page, page') /\ (page'.block = "none" => Carried(page'))
    BY <1>1, <2>1, SaveNowInOrder
  <2> QED BY <2>2 DEF Ordered, Holds
<1> QED BY <1>2, <1>3, <1>4, <1>5

\* A step that leaves the request, the bodies and the badge alone.
LEMMA StillOrdered ==
  ASSUME NEW p, PageInOrder(p), Holds(p), NEW q, KeepsRequest(p, q),
         q.mounted = p.mounted, q.revision = p.revision, q.scheduled = p.scheduled, q.unsaved = p.unsaved,
         q.agentRequired = p.agentRequired, q.retryTimer = p.retryTimer, q.retryCandidate = p.retryCandidate,
         q.status = p.status, q.block = p.block, q.flush = p.flush
  PROVE  Ordered(p, q)
BY DEF PageInOrder, RequestIsTracked, NoAgent, InOrder, ErrorEnds, Holds, Excused, Carried, Undisturbed,
       KeepsRequest, Ordered

LEMMA EditOrder ==
  ASSUME OrderInv, Ops = {}, Type \/ ToggleAutoSave \/ \E op \in Ops : ApplyMarkdown(op)
  PROVE  Ordered(page, page')
<1>1. Sound(page) /\ PageInOrder(page) /\ Holds(page)
  BY DEF OrderInv, IInv, PageIsSound
<1>2. CASE Type
  <2>1. page' = [page EXCEPT !.editor = page.editor \cup {NextEdit}]
    BY <1>2 DEF Type
  <2>2. \A body : LET q == [page EXCEPT !.editor = body]
          IN  /\ KeepsRequest(page, q)
              /\ q.mounted = page.mounted /\ q.revision = page.revision /\ q.scheduled = page.scheduled
              /\ q.unsaved = page.unsaved /\ q.agentRequired = page.agentRequired
              /\ q.retryTimer = page.retryTimer /\ q.retryCandidate = page.retryCandidate
              /\ q.status = page.status /\ q.block = page.block /\ q.flush = page.flush
    BY <1>1 DEF Sound, Page, KeepsRequest
  <2> QED BY <1>1, <2>1, <2>2, StillOrdered
<1>3. CASE ToggleAutoSave
  <2>1. PICK on, timer : page' = [page EXCEPT !.autoSave = on, !.timer = timer]
    BY <1>3 DEF ToggleAutoSave
  <2>2. LET q == [page EXCEPT !.autoSave = on, !.timer = timer]
        IN  /\ KeepsRequest(page, q)
            /\ q.mounted = page.mounted /\ q.revision = page.revision /\ q.scheduled = page.scheduled
            /\ q.unsaved = page.unsaved /\ q.agentRequired = page.agentRequired
            /\ q.retryTimer = page.retryTimer /\ q.retryCandidate = page.retryCandidate
            /\ q.status = page.status /\ q.block = page.block /\ q.flush = page.flush
    BY <1>1 DEF Sound, Page, KeepsRequest
  <2> QED BY <1>1, <2>1, <2>2, StillOrdered
<1> QED BY <1>2, <1>3

LEMMA LoseLockOrder ==
  ASSUME OrderInv, LoseLock
  PROVE  Ordered(page, page')
<1> DEFINE lost == [page EXCEPT !.lock = "lost"]
           b    == [lost EXCEPT !.block = "lock-lost", !.pending = NoSave]
           c    == ClearScheduledSave(b)
           s    == SetStatus(c, "lock-lost")
<1>1. Sound(page) /\ PageInOrder(page) /\ Holds(page)
  BY DEF OrderInv, IInv, PageIsSound
<1>2. /\ Sound(lost) /\ KeepsRequest(page, lost)
      /\ lost.mounted = page.mounted /\ lost.revision = page.revision /\ lost.scheduled = page.scheduled
      /\ lost.unsaved = page.unsaved /\ lost.agentRequired = page.agentRequired
      /\ lost.retryTimer = page.retryTimer /\ lost.retryCandidate = page.retryCandidate
      /\ lost.status = page.status /\ lost.block = page.block /\ lost.flush = page.flush
  BY <1>1 DEF Sound, UnsavedIsNewest, Page, KeepsRequest
<1>3. page' = (IF page.block = "lock-lost" THEN lost ELSE s)
  BY DEF LoseLock
<1> HIDE DEF lost
<1>4. CASE page.block = "lock-lost"
  BY <1>1, <1>2, <1>3, <1>4, StillOrdered
<1>5. CASE page.block # "lock-lost"
  <2>1. /\ Sound(b) /\ b.inflight = lost.inflight /\ b.base = lost.base /\ b.seq = lost.seq /\ b.saves = lost.saves
        /\ b.sent = lost.sent /\ b.pending = NoSave /\ b.block = "lock-lost"
        /\ b.mounted = lost.mounted /\ b.revision = lost.revision /\ b.unsaved = lost.unsaved
        /\ b.agentRequired = lost.agentRequired
    BY <1>2, NoSaveType DEF Sound, UnsavedIsNewest, Page, Blocks
  <2> HIDE DEF b
  <2>2. /\ Sound(c) /\ KeepsRequest(b, c) /\ c.block = b.block /\ c.mounted = b.mounted /\ c.revision = b.revision
        /\ c.unsaved = b.unsaved /\ c.agentRequired = b.agentRequired /\ c.scheduled = NoSave
        /\ c.retryTimer = NoSave /\ c.retryCandidate = NoSave
    BY <2>1, ClearScheduledSound, ClearScheduledShape
  <2> HIDE DEF c
  <2>3. KeepsRest(c, s) /\ KeepsRequest(c, s) /\ s.block = c.block /\ (s.mounted => s.status = "lock-lost")
    BY <2>2, SetStatusShape
  <2> HIDE DEF s
  <2>4. /\ s.inflight = page.inflight /\ s.base = page.base /\ s.seq = page.seq /\ s.saves = page.saves
        /\ s.sent = page.sent /\ s.pending = NoSave /\ s.block = "lock-lost" /\ s.revision = page.revision
        /\ s.unsaved = page.unsaved /\ s.agentRequired = page.agentRequired /\ s.scheduled = NoSave
        /\ s.retryTimer = NoSave /\ s.retryCandidate = NoSave /\ (s.mounted => s.status = "lock-lost")
    BY <1>2, <2>1, <2>2, <2>3 DEF KeepsRequest, KeepsRest, KeepsPage
  <2>5. Ordered(page, s)
    BY <1>1, <2>4, UserDefault
       DEF PageInOrder, RequestIsTracked, NoAgent, InOrder, ErrorEnds, Holds, Undisturbed, Ordered
  <2> QED BY <1>3, <1>5, <2>5
<1> QED BY <1>4, <1>5

LEMMA UnmountOrder ==
  ASSUME OrderInv, Unmount
  PROVE  Ordered(page, page')
<1> DEFINE waiting  == IF page.scheduled # NoSave THEN page.scheduled
                       ELSE IF page.inflight = NoSave THEN page.unsaved ELSE NoSave
           detached == SelectDetachedSaveCandidate(waiting, page.retryCandidate)
           away     == [page EXCEPT !.mounted = FALSE]
           cleared  == ClearScheduledSave(away)
           gone     == Unblocked(cleared)
           settled  == [gone EXCEPT !.saves = TrackSettled(@, FALSE)]
<1>1. Sound(page) /\ PageInOrder(page) /\ page.scheduled \in Candidate /\ page.unsaved \in Candidate
  BY DEF OrderInv, IInv, PageIsSound, Sound, Page
<1>2. detached = waiting
  BY <1>1 DEF SelectDetachedSaveCandidate, PageInOrder, NoAgent
<1>3. detached # NoSave => /\ detached \in Candidate /\ detached.source = "user"
                           /\ detached.revision = page.revision
  BY <1>1, <1>2 DEF Sound, UnsavedIsNewest, PageInOrder, NoAgent, InOrder
<1> HIDE DEF detached, waiting
<1>4. /\ Sound(away) /\ KeepsRequest(page, away) /\ away.mounted = FALSE /\ away.revision = page.revision
      /\ away.scheduled = page.scheduled /\ away.unsaved = page.unsaved /\ away.agentRequired = page.agentRequired
      /\ away.retryTimer = page.retryTimer /\ away.retryCandidate = page.retryCandidate
      /\ away.block = page.block
  BY <1>1 DEF Sound, UnsavedIsNewest, Page, KeepsRequest
<1> HIDE DEF away
<1>5. PageInOrder(away) /\ Undisturbed(page, away)
  BY <1>1, <1>4 DEF PageInOrder, RequestIsTracked, NoAgent, InOrder, ErrorEnds, Undisturbed, KeepsRequest
<1>6. /\ Sound(cleared) /\ PageInOrder(cleared) /\ Undisturbed(away, cleared)
      /\ cleared.revision = page.revision /\ cleared.mounted = FALSE
  BY <1>4, <1>5, ClearScheduledSound, ClearedInOrder, ClearScheduledShape
<1> HIDE DEF cleared
<1>7. /\ Sound(gone) /\ PageInOrder(gone) /\ Undisturbed(cleared, gone)
      /\ gone.revision = page.revision /\ gone.mounted = FALSE
  BY <1>6, UnblockedSound, UnblockedInOrder, UnblockedShape DEF KeepsRest, KeepsPage
<1>8. page' = (IF gone.block # "none"
               THEN IF gone.unsaved # NoSave THEN settled ELSE gone
               ELSE IF detached # NoSave THEN TrackedFlushSave(gone, detached) ELSE gone)
  BY DEF Unmount, gone, cleared, away, detached, waiting
<1> HIDE DEF gone
<1>9. Undisturbed(page, gone)
  BY <1>5, <1>6, <1>7 DEF Undisturbed
<1>10. \A q : PageInOrder(q) /\ Undisturbed(gone, q) /\ q.mounted = FALSE => Ordered(page, q)
  BY <1>9 DEF Ordered, Undisturbed, Holds
<1>11. CASE page' = gone
  BY <1>7, <1>10, <1>11 DEF Undisturbed
<1>12. CASE page' = settled /\ gone.block # "none"
  <2>1. /\ settled.mounted = gone.mounted /\ settled.revision = gone.revision /\ settled.scheduled = gone.scheduled
        /\ settled.unsaved = gone.unsaved /\ settled.agentRequired = gone.agentRequired
        /\ settled.retryTimer = gone.retryTimer /\ settled.retryCandidate = gone.retryCandidate
        /\ settled.inflight = gone.inflight /\ settled.base = gone.base /\ settled.seq = gone.seq
        /\ settled.sent = gone.sent /\ settled.pending = gone.pending /\ settled.block = gone.block
        /\ settled.saves = TrackSettled(gone.saves, FALSE)
    BY <1>7 DEF Sound, Page
  <2>2. gone.saves \in DocumentSaveState /\ Numbered(gone.saves) /\ gone.seq \in Nat
    BY <1>7 DEF Sound, Page, PageInOrder, RequestIsTracked
  <2>3. /\ Numbered(settled.saves)
        /\ gone.seq \in gone.saves.pending => gone.seq \in settled.saves.pending
    <3>1. /\ Numbered(Track(gone.saves)) /\ gone.saves.pending \subseteq Track(gone.saves).pending
          /\ Track(gone.saves) \in DocumentSaveState
          /\ \A n \in gone.saves.pending : n # gone.saves.sequence + 1
      BY <2>2, TrackNumbered, TrackType
    <3>2. gone.saves.sequence + 1 \in Nat
      BY <2>2 DEF DocumentSaveState
    <3>3. /\ Numbered(TrackSettled(gone.saves, FALSE))
          /\ \A n \in Track(gone.saves).pending :
               n # gone.saves.sequence + 1 => n \in TrackSettled(gone.saves, FALSE).pending
      BY <3>1, <3>2, SettleNumbered DEF TrackSettled
    <3> QED BY <2>1, <3>1, <3>3
  <2> HIDE DEF settled
  <2>4. PageInOrder(settled) /\ Undisturbed(gone, settled)
    BY <1>7, <2>1, <2>3 DEF PageInOrder, RequestIsTracked, NoAgent, InOrder, ErrorEnds, Undisturbed
  <2> QED BY <1>7, <1>10, <1>12, <2>1, <2>4
<1>13. CASE page' = TrackedFlushSave(gone, detached) /\ detached # NoSave
  <2>1. PageInOrder(page') /\ Undisturbed(gone, page')
    BY <1>3, <1>7, <1>13, TrackedInOrder
  <2>2. page'.mounted = FALSE
    BY <1>3, <1>7, <1>13, TrackedShape DEF KeepsRest, KeepsPage
  <2> QED BY <1>10, <2>1, <2>2
<1> QED BY <1>8, <1>11, <1>12, <1>13

LEMMA ReopenOrder ==
  ASSUME OrderInv, Reopen
  PROVE  Ordered(page, page')
<1>1. page.saves \in DocumentSaveState /\ Numbered(page.saves)
  BY DEF OrderInv, IInv, PageIsSound, Sound, Page, PageInOrder, RequestIsTracked
<1>2. page.inflight = NoSave
  BY DEF Reopen, Drained, OrderInv, PageInOrder, RequestIsTracked
<1>3. page' = Opened(Current, Len(bodies), page.saves)
  BY DEF Reopen
<1> QED BY <1>1, <1>2, <1>3, OpenedInOrder DEF Ordered, Undisturbed

LEMMA FlushOrder ==
  ASSUME OrderInv, StartFlush \/ ContinueFlush
  PROVE  Ordered(page, page')
<1>1. Sound(page) /\ PageInOrder(page) /\ Holds(page)
  BY DEF OrderInv, IInv, PageIsSound
<1>2. CASE StartFlush
  <2>1. CASE page.mounted
    <3> DEFINE synced  == BeforeFlush(page)
               cleared == ClearScheduledSave(synced)
               f       == [NoFlush EXCEPT !.pc = "draining"]
    <3>1. Sound(synced) /\ PageInOrder(synced) /\ Undisturbed(page, synced)
      BY <1>1, BeforeFlushSound, BeforeFlushInOrder
    <3>2. page' = [cleared EXCEPT !.flush = f]
      BY <1>2, <2>1 DEF StartFlush
    <3> HIDE DEF synced
    <3>3. Sound(cleared) /\ PageInOrder(cleared) /\ Undisturbed(synced, cleared)
      BY <3>1, ClearScheduledSound, ClearedInOrder
    <3>4. f.pc = "draining"
      BY DEF NoFlush
    <3> HIDE DEF cleared, f
    <3>5. PageInOrder(page') /\ Undisturbed(cleared, page') /\ Holds(page')
      BY <3>2, <3>3, <3>4, FlushFieldInOrder
    <3> QED BY <3>1, <3>3, <3>5 DEF Ordered, Undisturbed
  <2>2. CASE ~page.mounted
    <3>1. PICK f : page' = [page EXCEPT !.flush = f]
      BY <1>2, <2>2 DEF StartFlush
    <3>2. page'.mounted = page.mounted
      BY <1>1, <3>1 DEF Sound, Page
    <3>3. Holds(page')
      BY <2>2, <3>2 DEF Holds
    <3> QED BY <1>1, <3>1, <3>3, FlushFieldInOrder DEF Ordered
  <2> QED BY <2>1, <2>2
<1>3. CASE ContinueFlush
  <2>1. \/ page' = FlushRound(page)
        \/ page.flush.pc # "draining" /\ \E ok : page' = EndFlush(page, ok)
    BY <1>3 DEF ContinueFlush
  <2>2. CASE page' = FlushRound(page)
    BY <1>1, <2>2, FlushRoundInOrder DEF Ordered
  <2>3. CASE page.flush.pc # "draining" /\ \E ok : page' = EndFlush(page, ok)
    <3>1. PICK f : page' = [page EXCEPT !.flush = f]
      BY <2>3 DEF EndFlush
    <3> QED BY <1>1, <2>3, <3>1, FlushFieldInOrder DEF Ordered
  <2> QED BY <2>1, <2>2, <2>3
<1> QED BY <1>2, <1>3

LEMMA NextOrderInv == Ops = {} /\ OrderInv /\ [Next]_vars => OrderInv'
<1> SUFFICES ASSUME Ops = {}, OrderInv, [Next]_vars PROVE OrderInv'
  OBVIOUS
<1>1. IInv'
  BY NextIInv DEF OrderInv
<1>2. PageInOrder(page) /\ Holds(page) /\ (reply # NoReply => page.inflight # NoSave)
  BY DEF OrderInv, AnswersARequest
<1>3. PageInOrder(page') /\ Holds(page') /\ (reply' # NoReply => page'.inflight # NoSave)
  <2>1. CASE UNCHANGED vars
    BY <1>2, <2>1 DEF vars
  <2>2. CASE Answered
    BY <2>2, AnsweredOrder
  <2>3. CASE Server
    <3>1. page' = page /\ page.inflight # NoSave
      BY <2>3 DEF Server, ServerCommits, ServerConflicts, RequestLost, ServerForbids, SessionRefuses, Waiting
    <3> QED BY <1>2, <3>1
  <2>4. CASE SessionExpires \/ SessionReturns \/ \E r \in Remote : RemoteSaves(r)
    BY <1>2, <2>4 DEF SessionExpires, SessionReturns, RemoteSaves
  <2>5. ASSUME reply' = reply, Ordered(page, page')
        PROVE  PageInOrder(page') /\ Holds(page') /\ (reply' # NoReply => page'.inflight # NoSave)
    BY <1>2, <2>5 DEF Ordered, Undisturbed
  <2>6. CASE LoseLock
    BY <2>5, <2>6, LoseLockOrder DEF LoseLock
  <2>7. CASE MarkdownUpdated \/ DebounceFires \/ AgentRetryFires \/ SaveShortcut
    BY <2>5, <2>7, TimerOrder DEF MarkdownUpdated, DebounceFires, AgentRetryFires, SaveShortcut
  <2>8. CASE Type \/ ToggleAutoSave \/ \E op \in Ops : ApplyMarkdown(op)
    BY <2>5, <2>8, EditOrder DEF Type, ToggleAutoSave, ApplyMarkdown
  <2>9. CASE Unmount
    BY <2>5, <2>9, UnmountOrder DEF Unmount
  <2>10. CASE Reopen
    BY <2>5, <2>10, ReopenOrder DEF Reopen
  <2>11. CASE StartFlush \/ ContinueFlush
    BY <2>5, <2>11, FlushOrder DEF StartFlush, ContinueFlush
  <2> QED BY <2>1, <2>2, <2>3, <2>4, <2>6, <2>7, <2>8, <2>9, <2>10, <2>11 DEF Next, User, World
<1> QED BY <1>1, <1>3
     DEF OrderInv, AnswersARequest, PageInOrder, RequestIsTracked, NoAgent, InOrder, ErrorEnds, Holds, Excused,
         Carried, Numbered

(***************************************************************************)
(* In a note the AI does not edit, the request started last carries the    *)
(* newest body ever sent: neither the debounce, the body that waits, a     *)
(* conflict retry, Cmd/Ctrl+S, a flush nor the end of the editor sends an  *)
(* older body after a newer one.                                           *)
(***************************************************************************)
THEOREM NewestBodyTheorem == Ops = {} => (Spec => []NewestBodyIsSentLast)
<1> SUFFICES ASSUME Ops = {} PROVE Spec => []NewestBodyIsSentLast
  OBVIOUS
<1>1. OrderInv /\ [Next]_vars => OrderInv'
  BY NextOrderInv
<1> QED BY <1>1, InitOrderInv, OrderInvImplies, PTL DEF Spec

(***************************************************************************)
(* In such a note an accepted edit is never orphaned: while saving is not  *)
(* blocked, the newest body is scheduled, waits, is in the request or in a *)
(* flush, or the badge shows "error".                                      *)
(***************************************************************************)
THEOREM UnsavedIsHeldTheorem == Ops = {} => (Spec => []UnsavedIsHeld)
<1> SUFFICES ASSUME Ops = {} PROVE Spec => []UnsavedIsHeld
  OBVIOUS
<1>1. OrderInv /\ [Next]_vars => OrderInv'
  BY NextOrderInv
<1> QED BY <1>1, InitOrderInv, OrderInvImplies, PTL DEF Spec
-----------------------------------------------------------------------------
(***************************************************************************)
(* The strengthening behind RemoteEditsSurvive, for a server that merges:  *)
(* every body on its way to the server, and the open editor, contain the   *)
(* remote edits of the base version, K, those in O aside, which the server *)
(* has reported as overwritten. A body older than the base is never sent.  *)
(***************************************************************************)
Holding(body, K, O) == (body \cap Remote) \ O = K

Carries(c, K, O) == c # NoSave => Holding(c.body, K, O)

Text(p, K, O) ==
  /\ Carries(p.scheduled, K, O) /\ Carries(p.unsaved, K, O)
  /\ Carries(p.pending, K, O) /\ Carries(p.inflight, K, O)
  /\ Carries(p.retryTimer, K, O) /\ Carries(p.retryCandidate, K, O)
  /\ p.mounted => Holding(p.editor, K, O) /\ Holding(p.bodyRef, K, O)

Armed(p) == p.retryTimer # NoSave \/ p.retryCandidate # NoSave

\* An AI retry is armed only while what is sent, or is sent next, comes from the agent.
ArmedForAgent(p) == Armed(p) => IF p.inflight = NoSave THEN p.agentRequired ELSE p.inflight.source = "agent"

Sequenced(p) ==
  /\ p.scheduled.revision <= p.revision /\ p.pending.revision <= p.revision /\ p.inflight.revision <= p.revision
  /\ p.retryTimer.revision <= p.revision /\ p.retryCandidate.revision <= p.revision
  /\ p.scheduled # NoSave =>
       /\ p.pending.revision < p.revision /\ p.inflight.revision < p.revision
       /\ p.retryTimer.revision < p.revision /\ p.retryCandidate.revision < p.revision

BasedOnVersion(p) == p.inflight # NoSave => p.base = p.version

UpToDate(p, K, O) ==
  RequestIsTracked(p) /\ Text(p, K, O) /\ Sequenced(p) /\ ArmedForAgent(p) /\ BasedOnVersion(p)

LEMMA PageTypes ==
  ASSUME NEW p, Sound(p)
  PROVE  /\ p.revision \in Nat /\ p.scheduled.revision \in Nat /\ p.pending.revision \in Nat
         /\ p.inflight.revision \in Nat /\ p.retryTimer.revision \in Nat /\ p.retryCandidate.revision \in Nat
         /\ p.unsaved.revision \in Nat /\ NoSave.revision = 0
BY DEF Sound, Page, Candidate, NoSave

LEMMA MergeBody ==
  ASSUME NEW c \in Candidate, NEW d \in Candidate
  PROVE  /\ MergePendingNoteSave(c, d).body = d.body
         /\ d.source = "agent" => MergePendingNoteSave(c, d).source = "agent"
BY DEF MergePendingNoteSave, Candidate

LEMMA TrackedUpToDate ==
  ASSUME NEW p, Sound(p), NEW K, NEW O, UpToDate(p, K, O), NEW c \in Candidate,
         c # NoSave, Carries(c, K, O), c.revision <= p.revision,
         p.scheduled # NoSave => c.revision < p.revision
  PROVE  LET q == TrackedFlushSave(p, c)
         IN  UpToDate(q, K, O) /\ Undisturbed(p, q) /\ q.version = p.version
<1> DEFINE q == TrackedFlushSave(p, c)
<1>1. PICK save \in Candidate :
        /\ save.revision = c.revision /\ save.body = c.body
        /\ p.agentRequired => save.source = "agent"
        /\ KeepsRest(p, q)
        /\ Refused(p, q) \/ Queued(p, q, save) \/ Sends(p, q, save)
  BY TrackedShape
<1>2. RequestIsTracked(q)
  BY TrackedRequest DEF UpToDate
<1>3. p.pending \in Candidate
  BY DEF Sound, Page
<1>4. /\ q.mounted = p.mounted /\ q.editor = p.editor /\ q.bodyRef = p.bodyRef /\ q.version = p.version
      /\ q.revision = p.revision /\ q.scheduled = p.scheduled /\ q.unsaved = p.unsaved
      /\ q.retryTimer = p.retryTimer /\ q.retryCandidate = p.retryCandidate /\ q.agentRequired = p.agentRequired
  BY <1>1 DEF KeepsRest, KeepsPage
<1>5. Holding(save.body, K, O)
  BY <1>1 DEF Carries
<1> HIDE DEF q
<1>6. ASSUME Refused(p, q) PROVE UpToDate(q, K, O) /\ Undisturbed(p, q)
  <2>1. q.inflight = p.inflight /\ q.base = p.base /\ q.pending = p.pending
    BY <1>6 DEF Refused
  <2> QED BY <1>2, <1>4, <2>1
       DEF UpToDate, Text, Sequenced, ArmedForAgent, Armed, BasedOnVersion, Undisturbed
<1>7. ASSUME Queued(p, q, save) PROVE UpToDate(q, K, O) /\ Undisturbed(p, q)
  <2>1. /\ q.inflight = p.inflight /\ q.base = p.base
        /\ q.pending = MergePendingNoteSave(p.pending, save)
    BY <1>7 DEF Queued
  <2>2. q.pending.revision = c.revision /\ q.pending.body = c.body
    <3>1. /\ MergePendingNoteSave(p.pending, save).revision = save.revision
          /\ MergePendingNoteSave(p.pending, save).body = save.body
      BY <1>3, MergeType, MergeBody
    <3> QED BY <1>1, <2>1, <3>1
  <2>3. Text(q, K, O)
    BY <1>1, <1>4, <1>5, <2>1, <2>2 DEF UpToDate, Text, Carries
  <2>4. Sequenced(q)
    BY <1>4, <2>1, <2>2 DEF UpToDate, Sequenced
  <2> QED BY <1>2, <1>4, <2>1, <2>3, <2>4 DEF UpToDate, ArmedForAgent, Armed, BasedOnVersion, Undisturbed
<1>8. ASSUME Sends(p, q, save) PROVE UpToDate(q, K, O) /\ Undisturbed(p, q)
  <2>1. q.inflight = save /\ q.base = p.version /\ q.pending = p.pending /\ p.inflight = NoSave
    BY <1>8 DEF Sends, Starts
  <2>2. Text(q, K, O)
    BY <1>4, <1>5, <2>1 DEF UpToDate, Text, Carries
  <2>3. Sequenced(q)
    BY <1>1, <1>4, <2>1 DEF UpToDate, Sequenced
  <2>4. ArmedForAgent(q)
    <3>1. Armed(q) => p.agentRequired
      BY <1>4, <2>1 DEF UpToDate, ArmedForAgent, Armed
    <3>2. Armed(q) => q.inflight.source = "agent"
      BY <1>1, <2>1, <3>1
    <3>3. q.inflight # NoSave \/ ~Armed(q)
      BY <3>2 DEF NoSave
    <3> QED BY <3>2, <3>3 DEF ArmedForAgent
  <2> QED BY <1>2, <1>4, <2>1, <2>2, <2>3, <2>4 DEF UpToDate, BasedOnVersion, Undisturbed
<1> QED BY <1>1, <1>4, <1>6, <1>7, <1>8 DEF q

LEMMA AcceptedUpToDate ==
  ASSUME NEW p, Sound(p), NEW K, NEW O, UpToDate(p, K, O), NEW a, NEW c \in Candidate, Accepted(p, a, c),
         Holding(c.body, K, O), a.scheduled \in {NoSave, c}
  PROVE  UpToDate(a, K, O) /\ Undisturbed(p, a) /\ a.version = p.version /\ c.revision = a.revision
<1>1. /\ a.mounted = p.mounted /\ a.editor = p.editor /\ a.bodyRef = p.bodyRef /\ a.version = p.version
      /\ a.inflight = p.inflight /\ a.base = p.base /\ a.pending = p.pending /\ a.seq = p.seq /\ a.saves = p.saves
      /\ a.block = "none" /\ a.revision = p.revision + 1 /\ c.revision = a.revision /\ a.unsaved = c
      /\ a.retryTimer = NoSave /\ a.retryCandidate = NoSave
  BY DEF Accepted, KeepsRequest
<1>2. RequestIsTracked(a)
  BY <1>1 DEF UpToDate, RequestIsTracked
<1>3. Text(a, K, O)
  BY <1>1 DEF UpToDate, Text, Carries
<1>4. Sequenced(a)
  <2>1. NoSave.revision <= a.revision /\ NoSave.revision < a.revision
    BY <1>1, PageTypes
  <2>2. p.pending.revision < a.revision /\ p.inflight.revision < a.revision
    BY <1>1, PageTypes DEF UpToDate, Sequenced
  <2>3. a.revision \in Nat /\ p.pending.revision \in Nat /\ p.inflight.revision \in Nat
    BY <1>1, PageTypes
  <2>4. a.scheduled.revision <= a.revision
    BY <1>1, <2>1, <2>3
  <2> QED BY <1>1, <2>1, <2>2, <2>3, <2>4 DEF Sequenced
<1> QED BY <1>1, <1>2, <1>3, <1>4 DEF UpToDate, ArmedForAgent, Armed, BasedOnVersion, Undisturbed

LEMMA QueueUpToDate ==
  ASSUME NEW p, Sound(p), NEW K, NEW O, UpToDate(p, K, O),
         NEW body \in SUBSET Edits, NEW source \in Sources, NEW op \in Ops \cup {NoOp}, Holding(body, K, O)
  PROVE  LET q == QueueSave(p, body, source, op)
         IN  UpToDate(q, K, O) /\ Undisturbed(p, q) /\ q.version = p.version
<1> DEFINE q == QueueSave(p, body, source, op)
<1>1. \/ q = p /\ p.block # "none"
      \/ \E c \in Candidate :
           /\ c.body = body
           /\ \/ Scheduled(p, q, c)
              \/ \E a : Sound(a) /\ Accepted(p, a, c) /\ a.scheduled = NoSave /\ q = TrackedFlushSave(a, c)
  BY QueueShape
<1> HIDE DEF q
<1>2. CASE q = p /\ p.block # "none"
  BY <1>2 DEF Undisturbed, q
<1>3. ASSUME NEW c \in Candidate, c.body = body, Scheduled(p, q, c)
      PROVE  UpToDate(q, K, O) /\ Undisturbed(p, q) /\ q.version = p.version
  BY <1>3, AcceptedUpToDate DEF Scheduled
<1>4. ASSUME NEW c \in Candidate, c.body = body, NEW a, Sound(a), Accepted(p, a, c), a.scheduled = NoSave,
             q = TrackedFlushSave(a, c)
      PROVE  UpToDate(q, K, O) /\ Undisturbed(p, q) /\ q.version = p.version
  <2>1. UpToDate(a, K, O) /\ Undisturbed(p, a) /\ a.version = p.version /\ c.revision = a.revision
    BY <1>4, AcceptedUpToDate
  <2>2. c # NoSave /\ Carries(c, K, O) /\ c.revision <= a.revision
    <3>1. a.revision \in Nat
      BY <1>4, PageTypes
    <3> QED BY <1>4, <2>1, <3>1 DEF Accepted, Carries
  <2>3. UpToDate(q, K, O) /\ Undisturbed(a, q) /\ q.version = a.version
    BY <1>4, <2>1, <2>2, TrackedUpToDate
  <2> QED BY <2>1, <2>3 DEF Undisturbed
<1> QED BY <1>1, <1>2, <1>3, <1>4 DEF q

LEMMA SaveNowUpToDate ==
  ASSUME NEW p, Sound(p), NEW K, NEW O, UpToDate(p, K, O), NEW body \in SUBSET Edits, Holding(body, K, O)
  PROVE  LET q == SaveNow(p, body)
         IN  UpToDate(q, K, O) /\ Undisturbed(p, q) /\ q.version = p.version
<1> DEFINE q == SaveNow(p, body)
<1>1. \/ q = p /\ p.block # "none"
      \/ \E c \in Candidate :
           /\ c.body = body
           /\ \E a : Sound(a) /\ Accepted(p, a, c) /\ a.scheduled = NoSave /\ q = TrackedFlushSave(a, c)
  BY SaveNowShape
<1> HIDE DEF q
<1>2. CASE q = p /\ p.block # "none"
  BY <1>2 DEF Undisturbed, q
<1>3. ASSUME NEW c \in Candidate, c.body = body, NEW a, Sound(a), Accepted(p, a, c), a.scheduled = NoSave,
             q = TrackedFlushSave(a, c)
      PROVE  UpToDate(q, K, O) /\ Undisturbed(p, q) /\ q.version = p.version
  <2>1. UpToDate(a, K, O) /\ Undisturbed(p, a) /\ a.version = p.version /\ c.revision = a.revision
    BY <1>3, AcceptedUpToDate
  <2>2. c # NoSave /\ Carries(c, K, O) /\ c.revision <= a.revision
    <3>1. a.revision \in Nat
      BY <1>3, PageTypes
    <3> QED BY <1>3, <2>1, <3>1 DEF Accepted, Carries
  <2>3. UpToDate(q, K, O) /\ Undisturbed(a, q) /\ q.version = a.version
    BY <1>3, <2>1, <2>2, TrackedUpToDate
  <2> QED BY <2>1, <2>3 DEF Undisturbed
<1> QED BY <1>1, <1>2, <1>3 DEF q

\* A step that drops bodies, and changes the editor at most to one that holds the same remote edits.
LEMMA StillUpToDate ==
  ASSUME NEW p, Sound(p), NEW K, NEW O, UpToDate(p, K, O), NEW q,
         q.mounted => p.mounted /\ Holding(q.editor, K, O) /\ Holding(q.bodyRef, K, O),
         q.version = p.version, q.revision = p.revision,
         q.unsaved = p.unsaved, q.agentRequired = p.agentRequired, q.inflight = p.inflight, q.base = p.base,
         q.seq = p.seq, q.saves = p.saves,
         q.pending = NoSave \/ (q.pending = p.pending /\ (q.block = p.block \/ q.block = "none")),
         q.scheduled \in {p.scheduled, NoSave},
         q.retryTimer \in {p.retryTimer, NoSave}, q.retryCandidate \in {p.retryCandidate, NoSave}
  PROVE  UpToDate(q, K, O) /\ Undisturbed(p, q)
<1>1. RequestIsTracked(q)
  BY DEF UpToDate, RequestIsTracked
<1>2. Text(q, K, O)
  BY DEF UpToDate, Text, Carries
<1>3. Sequenced(q)
  <2>1. /\ q.pending.revision \in {p.pending.revision, 0} /\ q.scheduled.revision \in {p.scheduled.revision, 0}
        /\ q.retryTimer.revision \in {p.retryTimer.revision, 0}
        /\ q.retryCandidate.revision \in {p.retryCandidate.revision, 0}
    BY PageTypes
  <2>2. q.scheduled # NoSave => 0 < p.revision
    BY PageTypes DEF UpToDate, Sequenced
  <2> QED BY <2>1, <2>2, PageTypes DEF UpToDate, Sequenced
<1>4. ArmedForAgent(q)
  BY DEF UpToDate, ArmedForAgent, Armed
<1> QED BY <1>1, <1>2, <1>3, <1>4 DEF UpToDate, BasedOnVersion, Undisturbed

LEMMA BeforeFlushUpToDate ==
  ASSUME NEW p, Sound(p), NEW K, NEW O, UpToDate(p, K, O)
  PROVE  LET q == BeforeFlush(p)
         IN  UpToDate(q, K, O) /\ Undisturbed(p, q) /\ q.version = p.version
<1> DEFINE m == [p EXCEPT !.bodyRef = p.editor]
<1>1. p.editor \in SUBSET Edits
  BY DEF Sound, Page
<1>2. /\ Sound(m) /\ m.inflight = p.inflight /\ m.base = p.base /\ m.seq = p.seq /\ m.saves = p.saves
      /\ m.pending = p.pending /\ m.editor = p.editor /\ m.bodyRef = p.editor /\ m.version = p.version
      /\ m.mounted = p.mounted /\ m.revision = p.revision /\ m.scheduled = p.scheduled /\ m.unsaved = p.unsaved
      /\ m.agentRequired = p.agentRequired /\ m.retryTimer = p.retryTimer /\ m.retryCandidate = p.retryCandidate
      /\ m.block = p.block
  BY <1>1 DEF Sound, UnsavedIsNewest, Page
<1>3. BeforeFlush(p) = (IF p.mounted /\ p.editor # p.bodyRef THEN QueueSave(m, p.editor, "user", NoOp) ELSE p)
  BY DEF BeforeFlush
<1> HIDE DEF m
<1>4. p.mounted => Holding(p.editor, K, O)
  BY DEF UpToDate, Text
<1>5. UpToDate(m, K, O) /\ Undisturbed(p, m)
  BY <1>2, <1>4, StillUpToDate
<1>6. CASE p.mounted /\ p.editor # p.bodyRef
  <2> DEFINE q == QueueSave(m, p.editor, "user", NoOp)
  <2>1. UpToDate(q, K, O) /\ Undisturbed(m, q) /\ q.version = m.version
    BY <1>1, <1>2, <1>4, <1>5, <1>6, QueueUpToDate DEF Sources
  <2> HIDE DEF q
  <2>2. Undisturbed(p, q)
    BY <1>5, <2>1 DEF Undisturbed
  <2>3. BeforeFlush(p) = q
    BY <1>3, <1>6 DEF q
  <2> QED BY <1>2, <2>1, <2>2, <2>3
<1>7. CASE ~(p.mounted /\ p.editor # p.bodyRef)
  BY <1>3, <1>7 DEF Undisturbed
<1> QED BY <1>6, <1>7

LEMMA ClearedUpToDate ==
  ASSUME NEW p, Sound(p), NEW K, NEW O, UpToDate(p, K, O)
  PROVE  LET q == ClearScheduledSave(p)
         IN  UpToDate(q, K, O) /\ Undisturbed(p, q) /\ q.version = p.version
<1> DEFINE q == ClearScheduledSave(p)
<1>1. /\ q.mounted = p.mounted /\ q.revision = p.revision /\ q.editor = p.editor /\ q.bodyRef = p.bodyRef
      /\ q.scheduled = NoSave /\ q.unsaved = p.unsaved /\ q.agentRequired = p.agentRequired
      /\ q.retryTimer = NoSave /\ q.retryCandidate = NoSave /\ q.version = p.version
      /\ q.block = p.block /\ KeepsRequest(p, q)
  BY ClearScheduledShape
<1> HIDE DEF q
<1>2. q.mounted => p.mounted /\ Holding(q.editor, K, O) /\ Holding(q.bodyRef, K, O)
  BY <1>1 DEF UpToDate, Text
<1>3. UpToDate(q, K, O) /\ Undisturbed(p, q)
  BY <1>1, <1>2, StillUpToDate DEF KeepsRequest
<1> QED BY <1>1, <1>3 DEF q

LEMMA UnblockedUpToDate ==
  ASSUME NEW p, Sound(p), NEW K, NEW O, UpToDate(p, K, O)
  PROVE  LET q == Unblocked(p)
         IN  UpToDate(q, K, O) /\ Undisturbed(p, q) /\ q.version = p.version
<1> DEFINE q == Unblocked(p)
<1>1. KeepsRest(p, q) /\ KeepsRequest(p, q) /\ Blocking(p, q)
  BY UnblockedShape
<1> HIDE DEF q
<1>2. q.mounted => p.mounted /\ Holding(q.editor, K, O) /\ Holding(q.bodyRef, K, O)
  BY <1>1 DEF UpToDate, Text, KeepsRest, KeepsPage
<1>3. UpToDate(q, K, O) /\ Undisturbed(p, q)
  BY <1>1, <1>2, StillUpToDate DEF KeepsRequest, KeepsRest, KeepsPage, Blocking
<1> QED BY <1>1, <1>3 DEF q, KeepsRest, KeepsPage

LEMMA FlushFieldUpToDate ==
  ASSUME NEW p, Sound(p), NEW K, NEW O, UpToDate(p, K, O), NEW f
  PROVE  LET q == [p EXCEPT !.flush = f]
         IN  UpToDate(q, K, O) /\ Undisturbed(p, q) /\ q.version = p.version
<1> DEFINE q == [p EXCEPT !.flush = f]
<1>1. /\ q.mounted = p.mounted /\ q.revision = p.revision /\ q.editor = p.editor /\ q.bodyRef = p.bodyRef
      /\ q.scheduled = p.scheduled /\ q.unsaved = p.unsaved /\ q.agentRequired = p.agentRequired
      /\ q.retryTimer = p.retryTimer /\ q.retryCandidate = p.retryCandidate /\ q.version = p.version
      /\ q.block = p.block /\ KeepsRequest(p, q)
  BY DEF Sound, Page, KeepsRequest
<1> HIDE DEF q
<1>2. q.mounted => p.mounted /\ Holding(q.editor, K, O) /\ Holding(q.bodyRef, K, O)
  BY <1>1 DEF UpToDate, Text
<1>3. UpToDate(q, K, O) /\ Undisturbed(p, q)
  BY <1>1, <1>2, StillUpToDate DEF KeepsRequest
<1> QED BY <1>1, <1>3 DEF q

LEMMA FlushRoundUpToDate ==
  ASSUME NEW p, Sound(p), NEW K, NEW O, UpToDate(p, K, O)
  PROVE  LET q == FlushRound(p)
         IN  UpToDate(q, K, O) /\ Undisturbed(p, q) /\ q.version = p.version
<1> DEFINE synced  == BeforeFlush(p)
           open    == Unblocked(synced)
           cleared == ClearScheduledSave(open)
           sent    == TrackedFlushSave(cleared, open.unsaved)
           f       == [NoFlush EXCEPT !.pc = "saving", !.own = sent.seq]
           last    == [sent EXCEPT !.flush = f]
           q       == FlushRound(p)
<1>1. Sound(synced) /\ UpToDate(synced, K, O) /\ Undisturbed(p, synced) /\ synced.version = p.version
  BY BeforeFlushSound, BeforeFlushUpToDate
<1> HIDE DEF synced
<1>2. Sound(open) /\ UpToDate(open, K, O) /\ Undisturbed(synced, open) /\ open.version = synced.version
      /\ open.unsaved = synced.unsaved
  BY <1>1, UnblockedSound, UnblockedUpToDate, UnblockedShape DEF KeepsRest, KeepsPage
<1> HIDE DEF open
<1>3. q = (IF synced.unsaved = NoSave THEN EndFlush(synced, synced.saves.success)
           ELSE IF open.block # "none" THEN EndFlush(open, FALSE) ELSE last)
  BY DEF FlushRound, synced, open
<1>4. CASE synced.unsaved = NoSave
  <2>1. PICK g : q = [synced EXCEPT !.flush = g]
    BY <1>3, <1>4 DEF EndFlush
  <2> HIDE DEF q
  <2>2. UpToDate(q, K, O) /\ Undisturbed(synced, q) /\ q.version = synced.version
    BY <1>1, <2>1, FlushFieldUpToDate
  <2> QED BY <1>1, <2>2 DEF Undisturbed, q
<1>5. CASE synced.unsaved # NoSave /\ open.block # "none"
  <2>1. PICK g : q = [open EXCEPT !.flush = g]
    BY <1>3, <1>5 DEF EndFlush
  <2> HIDE DEF q
  <2>2. UpToDate(q, K, O) /\ Undisturbed(open, q) /\ q.version = open.version
    BY <1>2, <2>1, FlushFieldUpToDate
  <2> QED BY <1>1, <1>2, <2>2 DEF Undisturbed, q
<1>6. CASE synced.unsaved # NoSave /\ open.block = "none"
  <2>1. /\ Sound(cleared) /\ UpToDate(cleared, K, O) /\ Undisturbed(open, cleared)
        /\ cleared.version = open.version /\ cleared.revision = open.revision /\ cleared.scheduled = NoSave
    BY <1>2, ClearScheduledSound, ClearedUpToDate, ClearScheduledShape
  <2> HIDE DEF cleared
  <2>2. /\ open.unsaved \in Candidate /\ open.unsaved # NoSave /\ Carries(open.unsaved, K, O)
        /\ open.unsaved.revision <= cleared.revision
    <3>1. open.unsaved \in Candidate /\ open.unsaved.revision = open.revision /\ open.revision \in Nat
      BY <1>2, <1>6 DEF Sound, UnsavedIsNewest, Page
    <3> QED BY <1>2, <1>6, <2>1, <3>1 DEF UpToDate, Text
  <2>3. Sound(sent) /\ UpToDate(sent, K, O) /\ Undisturbed(cleared, sent) /\ sent.version = cleared.version
    BY <2>1, <2>2, TrackedFlushSound, TrackedUpToDate
  <2> HIDE DEF sent, f
  <2>4. UpToDate(last, K, O) /\ Undisturbed(sent, last) /\ last.version = sent.version
    BY <2>3, FlushFieldUpToDate
  <2> HIDE DEF last
  <2>5. q = last
    BY <1>3, <1>6
  <2> HIDE DEF q
  <2> QED BY <1>1, <1>2, <2>1, <2>3, <2>4, <2>5 DEF Undisturbed, q
<1> QED BY <1>4, <1>5, <1>6

(* What an answer does. *)

\* The bodies that stay once the request ends.
Beside(p, K, O) ==
  /\ Carries(p.scheduled, K, O) /\ Carries(p.unsaved, K, O) /\ Carries(p.pending, K, O)
  /\ Carries(p.retryTimer, K, O) /\ Carries(p.retryCandidate, K, O)
  /\ p.mounted => Holding(p.editor, K, O) /\ Holding(p.bodyRef, K, O)

LEMMA FinishUpToDate ==
  ASSUME NEW p, Sound(p), NEW K, NEW O, NEW saved \in BOOLEAN,
         p.mounted /\ p.status = "saved" => p.unsaved = NoSave,
         p.inflight # NoSave, p.seq \in p.saves.pending, Numbered(p.saves),
         Beside(p, K, O), Sequenced(p),
         Armed(p) => p.agentRequired \/ (p.pending # NoSave /\ p.pending.source = "agent" /\ p.block = "none")
  PROVE  UpToDate(FinishRequest(p, saved), K, O) /\ FinishRequest(p, saved).version = p.version
<1> DEFINE q == FinishRequest(p, saved)
<1>1. /\ KeepsPage(p, q) /\ q.pending = NoSave
      /\ RequestIsTracked(q)
      /\ \/ Ends(p, q)
         \/ \E save \in Candidate :
              /\ save.revision = p.pending.revision /\ save.body = p.pending.body
              /\ p.agentRequired => save.source = "agent"
              /\ ~p.agentRequired => save = p.pending
              /\ PassesOn(p, q, save)
  BY FinishShape
<1> HIDE DEF q
<1>2. /\ q.mounted = p.mounted /\ q.editor = p.editor /\ q.bodyRef = p.bodyRef /\ q.version = p.version
      /\ q.revision = p.revision /\ q.scheduled = p.scheduled /\ q.unsaved = p.unsaved
      /\ q.retryTimer = p.retryTimer /\ q.retryCandidate = p.retryCandidate /\ q.agentRequired = p.agentRequired
  BY <1>1 DEF KeepsPage
<1>3. /\ NoSave.revision <= p.revision
      /\ q.scheduled # NoSave => NoSave.revision < p.revision
  BY <1>2, PageTypes DEF Sequenced
<1>4. ASSUME Ends(p, q) PROVE UpToDate(q, K, O)
  <2>1. q.inflight = NoSave /\ (p.pending = NoSave \/ p.block # "none")
    BY <1>4 DEF Ends
  <2>2. Text(q, K, O)
    BY <1>1, <1>2, <2>1 DEF Beside, Text, Carries
  <2>3. Sequenced(q)
    BY <1>1, <1>2, <1>3, <2>1 DEF Sequenced
  <2>4. ArmedForAgent(q)
    BY <1>2, <2>1 DEF ArmedForAgent, Armed
  <2> QED BY <1>1, <2>1, <2>2, <2>3, <2>4 DEF UpToDate, BasedOnVersion
<1>5. ASSUME NEW save \in Candidate, save.revision = p.pending.revision, save.body = p.pending.body,
             p.agentRequired => save.source = "agent", ~p.agentRequired => save = p.pending, PassesOn(p, q, save)
      PROVE  UpToDate(q, K, O)
  <2>1. q.inflight = save /\ q.base = p.version /\ p.pending # NoSave
    BY <1>5 DEF PassesOn
  <2>2. Text(q, K, O)
    BY <1>1, <1>2, <1>5, <2>1 DEF Beside, Text, Carries
  <2>3. Sequenced(q)
    BY <1>1, <1>2, <1>3, <1>5, <2>1 DEF Sequenced
  <2>4. Armed(q) => save.source = "agent"
    BY <1>2, <1>5 DEF Armed
  <2>5. ArmedForAgent(q)
    BY <2>1, <2>4 DEF ArmedForAgent, NoSave
  <2> QED BY <1>1, <1>2, <2>1, <2>2, <2>3, <2>5 DEF UpToDate, BasedOnVersion
<1> QED BY <1>1, <1>2, <1>4, <1>5 DEF q

\* A request that is sent alone, or one whose merge the editor cannot take in, leaves K as it is.
LEMMA SavedAloneUpToDate ==
  ASSUME NEW p, Sound(p), NEW K, NEW O, UpToDate(p, K, O), p.inflight # NoSave, NEW answer \in Reply,
         answer.merge = "none" \/ ~IsLatestEdit(p)
  PROVE  UpToDate(OnSaved(p, answer), K, O)
<1>1. PICK r : OnSaved(p, answer) = FinishRequest(r, TRUE) /\ Saves(p, r, answer)
  BY SavedShape
<1>2. ~Merging(p, answer)
  BY DEF Merging
<1>3. /\ Sound(r) /\ (r.mounted /\ r.status = "saved" => r.unsaved = NoSave)
      /\ r.mounted = p.mounted /\ r.inflight = p.inflight /\ r.seq = p.seq /\ r.saves = p.saves
      /\ r.pending = p.pending /\ r.editor = p.editor /\ r.bodyRef = p.bodyRef
      /\ Settles(p, r)
  BY <1>1, <1>2 DEF Saves
<1>4. r.inflight # NoSave /\ r.seq \in r.saves.pending /\ Numbered(r.saves)
  BY <1>3 DEF UpToDate, RequestIsTracked
<1>5. /\ r.revision = p.revision /\ r.scheduled = p.scheduled /\ r.unsaved \in {p.unsaved, NoSave}
      /\ r.retryTimer \in {p.retryTimer, NoSave} /\ r.retryCandidate \in {p.retryCandidate, NoSave}
      /\ p.inflight.source = "agent" => r.retryTimer = NoSave /\ r.retryCandidate = NoSave
      /\ p.inflight.source # "agent" => r.retryTimer = p.retryTimer /\ r.retryCandidate = p.retryCandidate
  BY <1>3 DEF Settles
<1>6. ~Armed(r)
  BY <1>5 DEF UpToDate, ArmedForAgent, Armed
<1>7. Beside(r, K, O)
  BY <1>3, <1>5 DEF UpToDate, Text, Beside, Carries
<1>8. Sequenced(r)
  <2>1. /\ p.inflight.revision <= p.revision /\ p.pending.revision <= p.revision
        /\ p.scheduled.revision <= p.revision
        /\ p.scheduled # NoSave => p.pending.revision < p.revision /\ p.inflight.revision < p.revision
    BY DEF UpToDate, Sequenced
  <2>2. NoSave.revision <= p.revision /\ (p.scheduled # NoSave => NoSave.revision < p.revision)
    BY <2>1, PageTypes
  <2>3. r.retryTimer = NoSave /\ r.retryCandidate = NoSave
    BY <1>6 DEF Armed
  <2> QED BY <1>3, <1>5, <2>1, <2>2, <2>3 DEF Sequenced
<1> QED BY <1>1, <1>3, <1>4, <1>6, <1>7, <1>8, FinishUpToDate

\* A merge of the newest body: nothing else is on its way, and the editor takes the answer in.
LEMMA SavedMergedUpToDate ==
  ASSUME NEW p, Sound(p), NEW K, NEW O, UpToDate(p, K, O), p.inflight # NoSave, NEW answer \in Reply,
         answer.merge # "none", IsLatestEdit(p)
  PROVE  UpToDate(OnSaved(p, answer), (answer.body \cap Remote) \ O, O)
<1> DEFINE L == (answer.body \cap Remote) \ O
<1>1. PICK r : OnSaved(p, answer) = FinishRequest(r, TRUE) /\ Saves(p, r, answer)
  BY SavedShape
<1>2. /\ Sound(r) /\ (r.mounted /\ r.status = "saved" => r.unsaved = NoSave)
      /\ r.mounted = p.mounted /\ r.inflight = p.inflight /\ r.seq = p.seq /\ r.saves = p.saves
      /\ r.pending = p.pending
      /\ Settles(p, r) \/ \E c \in Candidate : QueuesAgain(p, r, c)
  BY <1>1 DEF Saves
<1>3. r.inflight # NoSave /\ r.seq \in r.saves.pending /\ Numbered(r.saves)
  BY <1>2 DEF UpToDate, RequestIsTracked
<1>4. p.pending = NoSave /\ p.inflight.revision = p.revision /\ p.revision \in Nat
  BY PageTypes DEF IsLatestEdit
<1>5. p.scheduled = NoSave
  BY <1>4 DEF UpToDate, Sequenced
<1>6. r.mounted => Holding(r.editor, L, O) /\ Holding(r.bodyRef, L, O)
  <2> SUFFICES ASSUME r.mounted PROVE Holding(r.editor, L, O) /\ Holding(r.bodyRef, L, O)
    OBVIOUS
  <2>1. (p.editor \cap Remote) \ O = K /\ (p.bodyRef \cap Remote) \ O = K
    BY <1>2 DEF UpToDate, Text, Holding
  <2>2. CASE Merging(p, answer)
    <3>1. r.editor = answer.body \cup (p.editor \ p.bodyRef) /\ r.bodyRef = r.editor
      BY <1>1, <2>2 DEF Saves
    <3>2. (r.editor \cap Remote) \ O = L
      BY <2>1, <3>1
    <3> QED BY <3>1, <3>2 DEF Holding
  <2>3. CASE ~Merging(p, answer)
    <3>1. answer.body = p.bodyRef /\ r.editor = p.editor /\ r.bodyRef = p.bodyRef
      BY <1>1, <1>2, <2>3 DEF Merging, Saves
    <3> QED BY <2>1, <3>1 DEF Holding
  <2> QED BY <2>2, <2>3
<1>7. /\ ~Armed(r) /\ Carries(r.scheduled, L, O) /\ Carries(r.unsaved, L, O)
      /\ Sequenced(r)
  <2>1. CASE Settles(p, r)
    <3>1. /\ r.revision = p.revision /\ r.scheduled = NoSave
          /\ r.unsaved = (IF p.unsaved.revision = p.inflight.revision THEN NoSave ELSE p.unsaved)
          /\ p.inflight.source = "agent" => r.retryTimer = NoSave /\ r.retryCandidate = NoSave
          /\ p.inflight.source # "agent" => r.retryTimer = p.retryTimer /\ r.retryCandidate = p.retryCandidate
      BY <1>5, <2>1 DEF Settles
    <3>2. r.unsaved = NoSave
      BY <1>4, <3>1 DEF Sound, UnsavedIsNewest
    <3>3. r.retryTimer = NoSave /\ r.retryCandidate = NoSave
      BY <3>1 DEF UpToDate, ArmedForAgent, Armed
    <3>4. NoSave.revision = 0
      BY PageTypes
    <3> QED BY <1>2, <1>4, <3>1, <3>2, <3>3, <3>4 DEF Armed, Carries, Sequenced
  <2>2. CASE \E c \in Candidate : QueuesAgain(p, r, c)
    <3>1. PICK c \in Candidate : QueuesAgain(p, r, c)
      BY <2>2
    <3>2. /\ c.revision = p.revision + 1 /\ c.body = r.editor /\ r.revision = c.revision
          /\ r.scheduled = c /\ r.unsaved = c /\ r.retryTimer = NoSave /\ r.retryCandidate = NoSave
      BY <3>1 DEF QueuesAgain
    <3>3. r.mounted
      <4>1. Settles(p, r) \/ Merging(p, answer)
        BY <1>1 DEF Saves
      <4>2. ~Settles(p, r)
        BY <1>4, <3>2 DEF Settles
      <4> QED BY <1>2, <4>1, <4>2 DEF Merging
    <3>4. NoSave.revision = 0
      BY PageTypes
    <3> QED BY <1>2, <1>4, <1>6, <3>2, <3>3, <3>4 DEF Armed, Carries, Sequenced
  <2> QED BY <1>2, <2>1, <2>2
<1>8. Beside(r, L, O)
  <2>1. r.pending = NoSave /\ r.retryTimer = NoSave /\ r.retryCandidate = NoSave
    BY <1>2, <1>4, <1>7 DEF Armed
  <2> QED BY <1>6, <1>7, <2>1 DEF Beside, Carries
<1> HIDE DEF L
<1>9. UpToDate(FinishRequest(r, TRUE), L, O)
  BY <1>2, <1>3, <1>7, <1>8, FinishUpToDate
<1> QED BY <1>1, <1>9 DEF L

LEMMA FailedUpToDate ==
  ASSUME NEW p, Sound(p), NEW K, NEW O, UpToDate(p, K, O), p.inflight # NoSave
  PROVE  UpToDate(OnFailed(p), K, O) /\ OnFailed(p).version = p.version
<1>1. PICK r : /\ OnFailed(p) = FinishRequest(r, FALSE) /\ r.version = p.version
               /\ IF p.inflight.source = "agent" THEN AgentFails(p, r) ELSE Fails(p, r)
  BY FailedShape
<1>2. p.pending \in Candidate /\ p.inflight \in Candidate
  BY DEF Sound, Page
<1>3. /\ Carries(p.scheduled, K, O) /\ Carries(p.unsaved, K, O) /\ Carries(p.pending, K, O)
      /\ Carries(p.inflight, K, O) /\ Carries(p.retryTimer, K, O) /\ Carries(p.retryCandidate, K, O)
      /\ p.mounted => Holding(p.editor, K, O) /\ Holding(p.bodyRef, K, O)
  BY DEF UpToDate, Text
<1>4. /\ NoSave.revision <= p.revision /\ Carries(NoSave, K, O)
      /\ p.scheduled # NoSave => NoSave.revision < p.revision
  BY PageTypes DEF UpToDate, Sequenced, Carries
<1>5. /\ Sound(r) /\ BadgeIsTrue(r) /\ KeepsCall(p, r) /\ r.block = p.block
  BY <1>1 DEF AgentFails, Fails
<1>6. r.inflight # NoSave /\ r.seq \in r.saves.pending /\ Numbered(r.saves)
  BY <1>5 DEF UpToDate, RequestIsTracked, KeepsCall
<1>7. CASE p.inflight.source = "agent"
  <2>1. /\ r.pending = PromoteAfterAgentFailure(p.pending)
        /\ r.agentRequired <=> p.pending = NoSave
        /\ r.retryTimer \in {p.retryTimer, p.inflight}
        /\ r.retryCandidate \in {p.retryCandidate, p.inflight, NoSave}
    BY <1>1, <1>7 DEF AgentFails
  <2>2. /\ r.pending.revision = p.pending.revision
        /\ p.pending = NoSave => r.pending = NoSave
        /\ p.pending # NoSave => r.pending.body = p.pending.body /\ r.pending.source = "agent"
    BY <1>2, <2>1 DEF PromoteAfterAgentFailure, Candidate
  <2>3. p.pending # NoSave => r.pending # NoSave
    BY <2>2 DEF NoSave
  <2>4. Beside(r, K, O)
    BY <1>3, <1>4, <1>5, <2>1, <2>2 DEF Beside, KeepsCall, Carries
  <2>5. Sequenced(r)
    BY <1>4, <1>5, <2>1, <2>2 DEF UpToDate, Sequenced, KeepsCall
  <2>6. r.agentRequired \/ (r.pending # NoSave /\ r.pending.source = "agent" /\ r.block = "none")
    BY <1>5, <2>1, <2>2, <2>3 DEF UpToDate, RequestIsTracked
  <2> QED BY <1>1, <1>5, <1>6, <2>4, <2>5, <2>6, FinishUpToDate DEF BadgeIsTrue
<1>8. CASE p.inflight.source # "agent"
  <2>1. /\ KeepsRetry(p, r)
        /\ r.pending = p.pending \/ (p.pending = NoSave /\ r.pending = p.inflight)
    BY <1>1, <1>8 DEF Fails
  <2>2. ~Armed(r)
    BY <1>8, <2>1 DEF UpToDate, ArmedForAgent, Armed, KeepsRetry
  <2>3. Beside(r, K, O)
    BY <1>3, <1>5, <2>1 DEF Beside, KeepsCall, KeepsRetry, Carries
  <2>4. Sequenced(r)
    BY <1>5, <2>1 DEF UpToDate, Sequenced, KeepsCall, KeepsRetry
  <2> QED BY <1>1, <1>5, <1>6, <2>2, <2>3, <2>4, FinishUpToDate DEF BadgeIsTrue
<1> QED BY <1>7, <1>8

LEMMA BlockedUpToDate ==
  ASSUME NEW p, Sound(p), NEW K, NEW O, UpToDate(p, K, O), p.inflight # NoSave,
         NEW block \in {"lock-lost", "session-expired"}
  PROVE  UpToDate(OnBlocked(p, block), K, O) /\ OnBlocked(p, block).version = p.version
<1>1. PICK r : OnBlocked(p, block) = FinishRequest(r, FALSE) /\ Blocked(p, r, block)
  BY BlockedShape
<1>2. /\ Sound(r) /\ BadgeIsTrue(r) /\ KeepsCall(p, r) /\ r.version = p.version
      /\ r.pending = p.pending /\ r.retryTimer = NoSave /\ r.retryCandidate = NoSave
  BY <1>1 DEF Blocked
<1>3. r.inflight # NoSave /\ r.seq \in r.saves.pending /\ Numbered(r.saves)
  BY <1>2 DEF UpToDate, RequestIsTracked, KeepsCall
<1>4. Beside(r, K, O)
  BY <1>2 DEF UpToDate, Text, Beside, KeepsCall, Carries
<1>5. /\ NoSave.revision <= p.revision
      /\ p.scheduled # NoSave => NoSave.revision < p.revision
  BY PageTypes DEF UpToDate, Sequenced
<1>6. Sequenced(r) /\ ~Armed(r)
  BY <1>2, <1>5 DEF UpToDate, Sequenced, KeepsCall, Armed
<1> QED BY <1>1, <1>2, <1>3, <1>4, <1>6, FinishUpToDate DEF BadgeIsTrue

-----------------------------------------------------------------------------
(***************************************************************************)
(* The inductive invariant of a server that merges.                        *)
(***************************************************************************)
AnswerIsStored ==
  reply.kind = "ok" =>
    /\ reply.version \in 1..Len(bodies) /\ reply.body = bodies[reply.version]
    /\ reply.merge = "none" => reply.body = page.inflight.body

RemoteInv ==
  /\ IInv /\ AnswersARequest /\ AnswerIsStored /\ reply.kind # "conflict"
  /\ page.version \in 1..Len(bodies)
  /\ UpToDate(page, (bodies[page.version] \cap Remote) \ overwritten, overwritten)
  /\ RemoteEditsSurvive

LEMMA OpenedUpToDate ==
  ASSUME NEW body, NEW version, NEW saves \in DocumentSaveState, Numbered(saves), NEW O
  PROVE  UpToDate(Opened(body, version, saves), (body \cap Remote) \ O, O)
BY SMTT(30) DEF Opened, UpToDate, RequestIsTracked, Text, Carries, Holding, Sequenced, ArmedForAgent, Armed, BasedOnVersion,
       NoSave

LEMMA InitRemoteInv == Init => RemoteInv
<1> SUFFICES ASSUME Init PROVE RemoteInv
  OBVIOUS
<1>1. Fresh \in DocumentSaveState /\ Numbered(Fresh)
  BY DEF Fresh, DocumentSaveState, Numbered
<1>2. page.version = 1 /\ bodies = <<{}>> /\ page = Opened({}, 1, Fresh) /\ overwritten = {} /\ reply = NoReply
  BY DEF Init, Opened
<1>3. UpToDate(page, (bodies[page.version] \cap Remote) \ overwritten, overwritten)
  BY <1>1, <1>2, OpenedUpToDate
<1>4. RemoteEditsSurvive
  BY <1>2 DEF RemoteEditsSurvive
<1> QED BY <1>2, <1>3, <1>4, InitIInv DEF RemoteInv, AnswersARequest, AnswerIsStored, NoReply

\* More remote edits reported as overwritten.
LEMMA OverwrittenUpToDate ==
  ASSUME NEW p, NEW B, NEW O, NEW P, O \subseteq P, UpToDate(p, (B \cap Remote) \ O, O)
  PROVE  UpToDate(p, (B \cap Remote) \ P, P)
<1>1. \A X : Holding(X, (B \cap Remote) \ O, O) => Holding(X, (B \cap Remote) \ P, P)
  BY DEF Holding
<1>2. \A c : Carries(c, (B \cap Remote) \ O, O) => Carries(c, (B \cap Remote) \ P, P)
  BY <1>1 DEF Carries
<1>3. Text(p, (B \cap Remote) \ P, P)
  BY <1>1, <1>2 DEF UpToDate, Text
<1> QED BY <1>3 DEF UpToDate

LEMMA EachVersion ==
  ASSUME NEW f, NEW T
  PROVE  /\ (UNION {f[v] : v \in DOMAIN f}) \cap Remote \subseteq T
              => \A e \in Remote, v \in DOMAIN f : e \in f[v] => e \in T
         /\ (\A e \in Remote, v \in DOMAIN f : e \in f[v] => e \in T)
              => (UNION {f[v] : v \in DOMAIN f}) \cap Remote \subseteq T
<1> DEFINE S == {f[v] : v \in DOMAIN f}
           U == UNION S
<1>1. \A b : b \in S <=> \E v \in DOMAIN f : b = f[v]
  OBVIOUS
<1> HIDE DEF S
<1>2. \A e : e \in U <=> \E v \in DOMAIN f : e \in f[v]
  BY <1>1
<1> HIDE DEF U
<1>3. U \cap Remote \subseteq T <=> \A e \in Remote, v \in DOMAIN f : e \in f[v] => e \in T
  BY <1>2
<1>4. /\ U \cap Remote \subseteq T => \A e \in Remote, v \in DOMAIN f : e \in f[v] => e \in T
      /\ (\A e \in Remote, v \in DOMAIN f : e \in f[v] => e \in T) => U \cap Remote \subseteq T
  BY <1>3
<1> QED BY <1>4 DEF S, U

LEMMA ServerRemote ==
  ASSUME RemoteInv, ~LegacyServer, Server
  PROVE  /\ page' = page /\ page'.version \in 1..Len(bodies')
         /\ UpToDate(page', (bodies'[page'.version] \cap Remote) \ overwritten', overwritten')
         /\ page.inflight # NoSave /\ AnswerIsStored' /\ reply'.kind # "conflict"
         /\ RemoteEditsSurvive'
<1>1. /\ page.version \in 1..Len(bodies) /\ bodies \in Seq(SUBSET Edits) /\ Len(bodies) \in Nat
      /\ UpToDate(page, (bodies[page.version] \cap Remote) \ overwritten, overwritten)
      /\ RemoteEditsSurvive
  BY DEF RemoteInv, IInv, RestTypeOK
<1>2. page' = page /\ page.inflight # NoSave
  BY DEF Server, ServerCommits, ServerConflicts, RequestLost, ServerForbids, SessionRefuses, Waiting
<1>3. CASE ServerCommits
  <2>1. PICK saved \in Commit(page.inflight.body, page.base) :
          /\ bodies' = Append(bodies, saved.body)
          /\ overwritten' = IF saved.merge = "overwritten"
                            THEN overwritten \cup ((Current \ bodies[page.base]) \cap Remote)
                            ELSE overwritten
          /\ \/ reply' = [kind |-> "ok", version |-> Len(bodies) + 1,
                          merge |-> saved.merge, body |-> saved.body]
             \/ reply' = [NoReply EXCEPT !.kind = "failed"]
    BY <1>3 DEF ServerCommits
  <2>2. page.base = page.version
    BY <1>1, <1>2 DEF UpToDate, BasedOnVersion
  <2>3. page.inflight.body \in SUBSET Edits /\ Current \in SUBSET Edits /\ Current = bodies[Len(bodies)]
    BY CurrentType DEF RemoteInv, IInv, PageIsSound, Sound, Page, Candidate, Current
  <2>4. \/ saved.merge = "none" /\ saved.body = page.inflight.body /\ page.version = Len(bodies)
        \/ saved.merge = "merged" /\ saved.body = page.inflight.body \cup (Current \ bodies[page.version])
        \/ saved.merge = "overwritten" /\ saved.body = page.inflight.body
    BY <2>1, <2>2 DEF Commit
  <2>5. saved.body \in SUBSET Edits
    BY <2>3, <2>4
  <2>6. /\ Len(bodies') = Len(bodies) + 1 /\ bodies'[Len(bodies) + 1] = saved.body
        /\ \A v \in 1..Len(bodies) : bodies'[v] = bodies[v]
        /\ DOMAIN bodies = 1..Len(bodies) /\ DOMAIN bodies' = 1..(Len(bodies) + 1)
    BY <1>1, <2>1, <2>5
  <2>7. overwritten \subseteq overwritten'
    BY <2>1
  <2>8. UpToDate(page', (bodies'[page'.version] \cap Remote) \ overwritten', overwritten')
    BY <1>1, <1>2, <2>6, <2>7, OverwrittenUpToDate
  <2>9. page'.version \in 1..Len(bodies')
    BY <1>1, <1>2, <2>6
  <2>10. AnswerIsStored' /\ reply'.kind # "conflict"
    <3>1. CASE reply' = [kind |-> "ok", version |-> Len(bodies) + 1, merge |-> saved.merge, body |-> saved.body]
      <4>1. Len(bodies) + 1 \in 1..Len(bodies')
        BY <1>1, <2>6
      <4>2. saved.merge = "none" => saved.body = page'.inflight.body
        BY <1>2, <2>4
      <4> QED BY <2>6, <3>1, <4>1, <4>2 DEF AnswerIsStored
    <3>2. CASE reply' = [NoReply EXCEPT !.kind = "failed"]
      BY <3>2 DEF NoReply, AnswerIsStored
    <3> QED BY <2>1, <3>1, <3>2
  <2>11. RemoteEditsSurvive'
    <3>1. Holding(page.inflight.body, (bodies[page.version] \cap Remote) \ overwritten, overwritten)
      BY <1>1, <1>2 DEF UpToDate, Text, Carries
    <3>2. ASSUME NEW e \in Current, e \in Remote PROVE e \in saved.body \cup overwritten'
      <4> DEFINE seen == bodies[page.version]
      <4>1. (page.inflight.body \cap Remote) \ overwritten = (seen \cap Remote) \ overwritten
        BY <3>1 DEF Holding
      <4>2. e \in seen => e \in page.inflight.body \cup overwritten
        BY <3>2, <4>1
      <4>3. CASE saved.merge = "none"
        <5>1. seen = Current /\ saved.body = page.inflight.body
          BY <2>3, <2>4, <4>3
        <5> QED BY <2>7, <3>2, <4>2, <5>1
      <4>4. CASE saved.merge = "merged"
        <5>1. saved.body = page.inflight.body \cup (Current \ seen)
          BY <2>4, <4>4
        <5> HIDE DEF seen
        <5> QED BY <2>7, <3>2, <4>2, <5>1
      <4>5. CASE saved.merge = "overwritten"
        <5>1. saved.body = page.inflight.body /\ overwritten' = overwritten \cup ((Current \ seen) \cap Remote)
          BY <2>1, <2>2, <2>4, <4>5
        <5> HIDE DEF seen
        <5> QED BY <3>2, <4>2, <5>1
      <4> QED BY <2>4, <4>3, <4>4, <4>5
    <3>3. \A v \in DOMAIN bodies, e \in Remote : e \in bodies[v] => e \in Current \cup overwritten
      BY <1>1, EachVersion DEF RemoteEditsSurvive
    <3>4. ASSUME NEW e \in Remote, NEW v \in DOMAIN bodies', e \in bodies'[v]
          PROVE  e \in saved.body \cup overwritten'
      <4>1. CASE v = Len(bodies) + 1
        BY <2>6, <3>4, <4>1
      <4>2. CASE v # Len(bodies) + 1
        <5>1. v \in DOMAIN bodies /\ e \in bodies[v]
          BY <1>1, <2>6, <3>4, <4>2
        <5>2. e \in Current \/ e \in overwritten
          BY <3>3, <5>1
        <5> QED BY <2>7, <3>2, <5>2
      <4> QED BY <4>1, <4>2
    <3>5. Current' = saved.body
      BY <2>6 DEF Current
    <3>6. \A e \in Remote, v \in DOMAIN bodies' : e \in bodies'[v] => e \in Current' \cup overwritten'
      BY <3>4, <3>5
    <3> QED BY <3>6, EachVersion DEF RemoteEditsSurvive
  <2> QED BY <1>2, <2>8, <2>9, <2>10, <2>11
<1>4. CASE ~ServerCommits
  <2>1. bodies' = bodies /\ overwritten' = overwritten /\ reply'.kind \notin {"ok", "conflict"}
    BY <1>4 DEF Server, ServerConflicts, RequestLost, ServerForbids, SessionRefuses, NoReply
  <2> QED BY <1>1, <1>2, <2>1 DEF AnswerIsStored, RemoteEditsSurvive, Current
<1> QED BY <1>3, <1>4

LEMMA SavedVersion ==
  ASSUME NEW p, Sound(p), NEW K, NEW O, UpToDate(p, K, O), p.inflight # NoSave, NEW answer \in Reply
  PROVE  OnSaved(p, answer).version =
           (IF answer.merge = "none" \/ IsLatestEdit(p) THEN answer.version ELSE p.version)
<1>1. PICK r : OnSaved(p, answer) = FinishRequest(r, TRUE) /\ Saves(p, r, answer)
  BY SavedShape
<1>2. /\ Sound(r) /\ (r.mounted /\ r.status = "saved" => r.unsaved = NoSave)
      /\ r.inflight = p.inflight /\ r.seq = p.seq /\ r.saves = p.saves
      /\ r.version = (IF answer.merge = "none" \/ IsLatestEdit(p) THEN answer.version ELSE p.version)
  BY <1>1 DEF Saves
<1>3. r.inflight # NoSave /\ r.seq \in r.saves.pending /\ Numbered(r.saves)
  BY <1>2 DEF UpToDate, RequestIsTracked
<1>4. KeepsPage(r, FinishRequest(r, TRUE))
  BY <1>2, <1>3, FinishShape
<1> QED BY <1>1, <1>2, <1>4 DEF KeepsPage

LEMMA AnsweredRemote ==
  ASSUME RemoteInv, Answered
  PROVE  /\ reply' = NoReply /\ page'.version \in 1..Len(bodies)
         /\ UpToDate(page', (bodies[page'.version] \cap Remote) \ overwritten, overwritten)
<1> DEFINE K == (bodies[page.version] \cap Remote) \ overwritten
<1>1. /\ Sound(page) /\ page.version \in 1..Len(bodies) /\ UpToDate(page, K, overwritten) /\ reply \in Reply
      /\ NoReply.kind = "waiting" /\ AnswerIsStored /\ reply.kind # "conflict"
  BY DEF RemoteInv, IInv, PageIsSound, RestTypeOK, NoReply
<1>2. page.inflight # NoSave
  BY <1>1 DEF RemoteInv, AnswersARequest, Answered, SaveSucceeds, SaveConflicts, SaveFails, SaveForbidden,
              SaveUnauthorized
<1>3. reply' = NoReply
  BY DEF Answered, SaveSucceeds, SaveConflicts, SaveFails, SaveForbidden, SaveUnauthorized
<1>4. ASSUME page'.version = page.version, UpToDate(page', K, overwritten)
      PROVE  /\ page'.version \in 1..Len(bodies)
             /\ UpToDate(page', (bodies[page'.version] \cap Remote) \ overwritten, overwritten)
  BY <1>1, <1>4
<1>5. CASE SaveSucceeds
  <2>1. /\ page' = OnSaved(page, reply) /\ reply.version \in 1..Len(bodies) /\ reply.body = bodies[reply.version]
        /\ reply.merge = "none" => reply.body = page.inflight.body
    BY <1>1, <1>5 DEF SaveSucceeds, AnswerIsStored
  <2>2. page'.version = (IF reply.merge = "none" \/ IsLatestEdit(page) THEN reply.version ELSE page.version)
    BY <1>1, <1>2, <2>1, SavedVersion
  <2>3. CASE reply.merge = "none"
    <3>1. UpToDate(page', K, overwritten)
      BY <1>1, <1>2, <2>1, <2>3, SavedAloneUpToDate
    <3>2. (page.inflight.body \cap Remote) \ overwritten = K
      BY <1>1, <1>2 DEF UpToDate, Text, Carries, Holding
    <3>3. page'.version = reply.version /\ bodies[reply.version] = page.inflight.body
      BY <2>1, <2>2, <2>3
    <3> HIDE DEF K
    <3> QED BY <1>3, <2>1, <3>1, <3>2, <3>3
  <2>4. CASE reply.merge # "none" /\ ~IsLatestEdit(page)
    <3>1. UpToDate(page', K, overwritten)
      BY <1>1, <1>2, <2>1, <2>4, SavedAloneUpToDate
    <3> QED BY <1>3, <1>4, <2>2, <2>4, <3>1
  <2>5. CASE reply.merge # "none" /\ IsLatestEdit(page)
    <3>1. UpToDate(page', (reply.body \cap Remote) \ overwritten, overwritten)
      BY <1>1, <1>2, <2>1, <2>5, SavedMergedUpToDate
    <3> QED BY <1>3, <2>1, <2>2, <2>5, <3>1
  <2> QED BY <2>3, <2>4, <2>5
<1>6. CASE SaveFails
  <2>1. UpToDate(page', K, overwritten) /\ page'.version = page.version
    BY <1>1, <1>2, <1>6, FailedUpToDate DEF SaveFails
  <2> QED BY <1>3, <1>4, <2>1
<1>7. CASE SaveForbidden
  <2>1. UpToDate(page', K, overwritten) /\ page'.version = page.version
    BY <1>1, <1>2, <1>7, BlockedUpToDate DEF SaveForbidden
  <2> QED BY <1>3, <1>4, <2>1
<1>8. CASE SaveUnauthorized
  <2>1. UpToDate(page', K, overwritten) /\ page'.version = page.version
    BY <1>1, <1>2, <1>8, BlockedUpToDate DEF SaveUnauthorized
  <2> QED BY <1>3, <1>4, <2>1
<1> QED BY <1>1, <1>3, <1>5, <1>6, <1>7, <1>8 DEF Answered, SaveConflicts

\* What the other steps of the page have to show.
Keeps(p, q, K, O) == UpToDate(q, K, O) /\ Undisturbed(p, q) /\ q.version = p.version

LEMMA TimerRemote ==
  ASSUME Sound(page), NEW K, NEW O, UpToDate(page, K, O),
         MarkdownUpdated \/ DebounceFires \/ AgentRetryFires \/ SaveShortcut
  PROVE  Keeps(page, page', K, O)
<1>1. page.editor \in SUBSET Edits /\ page.bodyRef \in SUBSET Edits /\ page.scheduled \in Candidate
      /\ page.retryTimer \in Candidate
  BY DEF Sound, Page
<1>2. CASE MarkdownUpdated
  <2>1. page' = BeforeFlush(page)
    BY <1>2 DEF MarkdownUpdated, BeforeFlush
  <2> QED BY <2>1, BeforeFlushUpToDate DEF Keeps
<1>3. page.mounted => Holding(page.editor, K, O) /\ Holding(page.bodyRef, K, O)
  BY DEF UpToDate, Text
<1>4. CASE DebounceFires
  <2> DEFINE p == [page EXCEPT !.timer = "off", !.scheduled = NoSave]
  <2>1. /\ Sound(p) /\ p.mounted = page.mounted /\ p.editor = page.editor /\ p.bodyRef = page.bodyRef
        /\ p.version = page.version /\ p.revision = page.revision /\ p.scheduled = NoSave
        /\ p.unsaved = page.unsaved /\ p.agentRequired = page.agentRequired
        /\ p.retryTimer = page.retryTimer /\ p.retryCandidate = page.retryCandidate
        /\ p.block = page.block /\ KeepsRequest(page, p)
    BY NoSaveType DEF Sound, UnsavedIsNewest, Page, KeepsRequest
  <2>2. page' = (IF page.scheduled = NoSave THEN p ELSE TrackedFlushSave(p, page.scheduled))
    BY <1>4 DEF DebounceFires
  <2> HIDE DEF p
  <2>3. Keeps(page, p, K, O)
    BY <1>3, <2>1, StillUpToDate DEF KeepsRequest, Keeps
  <2>4. CASE page.scheduled # NoSave
    <3>1. Carries(page.scheduled, K, O) /\ page.scheduled.revision <= p.revision
      BY <2>1 DEF UpToDate, Text, Sequenced
    <3>2. Keeps(p, page', K, O)
      BY <1>1, <2>1, <2>2, <2>3, <2>4, <3>1, TrackedUpToDate DEF Keeps
    <3> QED BY <2>3, <3>2 DEF Keeps, Undisturbed
  <2> QED BY <2>2, <2>3, <2>4
<1>5. CASE AgentRetryFires
  <2> DEFINE p == CancelAgentRetry(page)
  <2>1. /\ Sound(p) /\ p.mounted = page.mounted /\ p.editor = page.editor /\ p.bodyRef = page.bodyRef
        /\ p.version = page.version /\ p.revision = page.revision /\ p.scheduled = page.scheduled
        /\ p.unsaved = page.unsaved /\ p.agentRequired = page.agentRequired
        /\ p.retryTimer = NoSave /\ p.retryCandidate = NoSave
        /\ p.block = page.block /\ KeepsRequest(page, p)
    BY CancelSound, CancelShape
  <2>2. page' = (IF p.block # "none" THEN p ELSE TrackedFlushSave(p, page.retryTimer)) /\ page.retryTimer # NoSave
    BY <1>5 DEF AgentRetryFires
  <2> HIDE DEF p
  <2>3. Keeps(page, p, K, O)
    BY <1>3, <2>1, StillUpToDate DEF KeepsRequest, Keeps
  <2>4. CASE p.block = "none"
    <3>1. /\ Carries(page.retryTimer, K, O) /\ page.retryTimer.revision <= p.revision
          /\ p.scheduled # NoSave => page.retryTimer.revision < p.revision
      BY <2>1 DEF UpToDate, Text, Sequenced
    <3>2. Keeps(p, page', K, O)
      BY <1>1, <2>1, <2>2, <2>3, <2>4, <3>1, TrackedUpToDate DEF Keeps
    <3> QED BY <2>3, <3>2 DEF Keeps, Undisturbed
  <2> QED BY <2>2, <2>3, <2>4
<1>6. CASE SaveShortcut
  <2>1. page' = SaveNow(page, page.bodyRef) /\ Holding(page.bodyRef, K, O)
    BY <1>3, <1>6 DEF SaveShortcut
  <2> QED BY <1>1, <2>1, SaveNowUpToDate DEF Keeps
<1> QED BY <1>2, <1>4, <1>5, <1>6

LEMMA EditRemote ==
  ASSUME Sound(page), NEW K, NEW O, UpToDate(page, K, O), opOf \in Seq(Ops \cup {NoOp}),
         Type \/ ToggleAutoSave \/ \E op \in Ops : ApplyMarkdown(op)
  PROVE  Keeps(page, page', K, O)
<1>1. page.mounted => Holding(page.editor, K, O) /\ Holding(page.bodyRef, K, O)
  BY DEF UpToDate, Text
<1>2. \A body : NextEdit \in LocalEdits /\ Holding(body, K, O) => Holding(body \cup {NextEdit}, K, O)
  BY EditsAssumption DEF Holding
<1>3. CASE Type
  <2> DEFINE body == page.editor \cup {NextEdit}
             q    == [page EXCEPT !.editor = body]
  <2>1. page' = q /\ page.mounted /\ NextEdit \in LocalEdits
    BY <1>3 DEF Type
  <2>2. Holding(body, K, O)
    BY <1>1, <1>2, <2>1
  <2> HIDE DEF body
  <2>3. /\ q.mounted = page.mounted /\ q.editor = body /\ q.bodyRef = page.bodyRef
        /\ q.version = page.version /\ q.revision = page.revision /\ q.scheduled = page.scheduled
        /\ q.unsaved = page.unsaved /\ q.agentRequired = page.agentRequired
        /\ q.retryTimer = page.retryTimer /\ q.retryCandidate = page.retryCandidate
        /\ q.block = page.block /\ KeepsRequest(page, q)
    BY DEF Sound, Page, KeepsRequest
  <2> HIDE DEF q
  <2> QED BY <1>1, <2>1, <2>2, <2>3, StillUpToDate DEF KeepsRequest, Keeps
<1>4. CASE ToggleAutoSave
  <2>1. PICK on, timer : page' = [page EXCEPT !.autoSave = on, !.timer = timer]
    BY <1>4 DEF ToggleAutoSave
  <2> DEFINE q == [page EXCEPT !.autoSave = on, !.timer = timer]
  <2>2. /\ q.mounted = page.mounted /\ q.editor = page.editor /\ q.bodyRef = page.bodyRef
        /\ q.version = page.version /\ q.revision = page.revision /\ q.scheduled = page.scheduled
        /\ q.unsaved = page.unsaved /\ q.agentRequired = page.agentRequired
        /\ q.retryTimer = page.retryTimer /\ q.retryCandidate = page.retryCandidate
        /\ q.block = page.block /\ KeepsRequest(page, q)
    BY DEF Sound, Page, KeepsRequest
  <2> HIDE DEF q
  <2>3. Keeps(page, q, K, O)
    BY <1>1, <2>2, StillUpToDate DEF KeepsRequest, Keeps
  <2> QED BY <2>1, <2>3 DEF q
<1>5. ASSUME NEW op \in Ops, ApplyMarkdown(op) PROVE Keeps(page, page', K, O)
  <2> DEFINE body == page.editor \cup {NextEdit}
             m    == [page EXCEPT !.editor = body, !.bodyRef = body]
  <2>1. page' = QueueSave(m, body, "agent", op) /\ page.mounted /\ NextEdit \in LocalEdits
    BY <1>5 DEF ApplyMarkdown
  <2>2. Holding(body, K, O) /\ body \in SUBSET Edits
    <3>1. page.editor \in SUBSET Edits
      BY DEF Sound, Page
    <3> QED BY <1>1, <1>2, <2>1, <3>1, EditsAssumption
  <2> HIDE DEF body
  <2>3. /\ Sound(m) /\ m.mounted = page.mounted /\ m.editor = body /\ m.bodyRef = body
        /\ m.version = page.version /\ m.revision = page.revision /\ m.scheduled = page.scheduled
        /\ m.unsaved = page.unsaved /\ m.agentRequired = page.agentRequired
        /\ m.retryTimer = page.retryTimer /\ m.retryCandidate = page.retryCandidate
        /\ m.block = page.block /\ KeepsRequest(page, m)
    BY <2>2 DEF Sound, UnsavedIsNewest, Page, KeepsRequest
  <2> HIDE DEF m
  <2>4. Keeps(page, m, K, O)
    BY <2>1, <2>2, <2>3, StillUpToDate DEF KeepsRequest, Keeps
  <2>5. "agent" \in Sources /\ op \in Ops \cup {NoOp}
    BY DEF Sources
  <2>6. Keeps(m, page', K, O)
    BY <2>1, <2>2, <2>3, <2>4, <2>5, QueueUpToDate DEF Keeps
  <2> QED BY <2>4, <2>6 DEF Keeps, Undisturbed
<1> QED BY <1>3, <1>4, <1>5

LEMMA LoseLockRemote ==
  ASSUME Sound(page), NEW K, NEW O, UpToDate(page, K, O), LoseLock
  PROVE  Keeps(page, page', K, O)
<1> DEFINE lost == [page EXCEPT !.lock = "lost"]
           b    == [lost EXCEPT !.block = "lock-lost", !.pending = NoSave]
           c    == ClearScheduledSave(b)
           s    == SetStatus(c, "lock-lost")
<1>1. page.mounted => Holding(page.editor, K, O) /\ Holding(page.bodyRef, K, O)
  BY DEF UpToDate, Text
<1>2. /\ Sound(lost) /\ KeepsRequest(page, lost)
      /\ lost.mounted = page.mounted /\ lost.editor = page.editor /\ lost.bodyRef = page.bodyRef
      /\ lost.version = page.version /\ lost.revision = page.revision /\ lost.scheduled = page.scheduled
      /\ lost.unsaved = page.unsaved /\ lost.agentRequired = page.agentRequired
      /\ lost.retryTimer = page.retryTimer /\ lost.retryCandidate = page.retryCandidate /\ lost.block = page.block
  BY DEF Sound, UnsavedIsNewest, Page, KeepsRequest
<1>3. page' = (IF page.block = "lock-lost" THEN lost ELSE s)
  BY DEF LoseLock
<1> HIDE DEF lost
<1>4. CASE page.block = "lock-lost"
  BY <1>1, <1>2, <1>3, <1>4, StillUpToDate DEF KeepsRequest, Keeps
<1>5. CASE page.block # "lock-lost"
  <2>1. /\ Sound(b) /\ b.inflight = lost.inflight /\ b.base = lost.base /\ b.seq = lost.seq /\ b.saves = lost.saves
        /\ b.pending = NoSave /\ b.mounted = lost.mounted /\ b.editor = lost.editor /\ b.bodyRef = lost.bodyRef
        /\ b.version = lost.version /\ b.revision = lost.revision /\ b.unsaved = lost.unsaved
        /\ b.agentRequired = lost.agentRequired
    BY <1>2, NoSaveType DEF Sound, UnsavedIsNewest, Page, Blocks
  <2> HIDE DEF b
  <2>2. /\ Sound(c) /\ KeepsRequest(b, c) /\ c.mounted = b.mounted /\ c.editor = b.editor /\ c.bodyRef = b.bodyRef
        /\ c.version = b.version /\ c.revision = b.revision /\ c.unsaved = b.unsaved
        /\ c.agentRequired = b.agentRequired /\ c.scheduled = NoSave
        /\ c.retryTimer = NoSave /\ c.retryCandidate = NoSave
    BY <2>1, ClearScheduledSound, ClearScheduledShape
  <2> HIDE DEF c
  <2>3. KeepsRest(c, s) /\ KeepsRequest(c, s)
    BY <2>2, SetStatusShape
  <2> HIDE DEF s
  <2>4. /\ s.inflight = page.inflight /\ s.base = page.base /\ s.seq = page.seq /\ s.saves = page.saves
        /\ s.pending = NoSave /\ s.mounted = page.mounted /\ s.editor = page.editor /\ s.bodyRef = page.bodyRef
        /\ s.version = page.version /\ s.revision = page.revision
        /\ s.unsaved = page.unsaved /\ s.agentRequired = page.agentRequired /\ s.scheduled = NoSave
        /\ s.retryTimer = NoSave /\ s.retryCandidate = NoSave
    BY <1>2, <2>1, <2>2, <2>3 DEF KeepsRequest, KeepsRest, KeepsPage
  <2>5. Keeps(page, s, K, O)
    BY <1>1, <2>4, StillUpToDate DEF Keeps
  <2> QED BY <1>3, <1>5, <2>5
<1> QED BY <1>4, <1>5

LEMMA DetachedCarries ==
  ASSUME NEW c \in Candidate, NEW d \in Candidate, NEW K, NEW O, Carries(c, K, O), Carries(d, K, O),
         NEW n \in Nat, c.revision <= n, d.revision <= n
  PROVE  LET x == SelectDetachedSaveCandidate(c, d)
         IN  x \in Candidate /\ x.revision <= n /\ Carries(x, K, O)
<1> DEFINE x == SelectDetachedSaveCandidate(c, d)
<1>1. \/ x = c \/ x = d
      \/ x = MergePendingNoteSave(c, d) /\ d # NoSave
      \/ x = MergePendingNoteSave(d, c) /\ c # NoSave
  BY DEF SelectDetachedSaveCandidate
<1> HIDE DEF x
<1>2. CASE x = MergePendingNoteSave(c, d) /\ d # NoSave
  <2>1. /\ MergePendingNoteSave(c, d) \in Candidate /\ MergePendingNoteSave(c, d).revision = d.revision
        /\ MergePendingNoteSave(c, d).body = d.body
    BY MergeType, MergeBody
  <2>2. x \in Candidate /\ x.revision <= n /\ Carries(x, K, O)
    BY <1>2, <2>1 DEF Carries
  <2> QED BY <2>2 DEF x
<1>3. CASE x = MergePendingNoteSave(d, c) /\ c # NoSave
  BY <1>3, MergeType, MergeBody, ZenonT(40) DEF Carries, x
<1> QED BY <1>1, <1>2, <1>3 DEF x

LEMMA UnmountRemote ==
  ASSUME Sound(page), NEW K, NEW O, UpToDate(page, K, O), Unmount
  PROVE  Keeps(page, page', K, O)
<1> DEFINE waiting  == IF page.scheduled # NoSave THEN page.scheduled
                       ELSE IF page.inflight = NoSave THEN page.unsaved ELSE NoSave
           detached == SelectDetachedSaveCandidate(waiting, page.retryCandidate)
           away     == [page EXCEPT !.mounted = FALSE]
           cleared  == ClearScheduledSave(away)
           gone     == Unblocked(cleared)
           settled  == [gone EXCEPT !.saves = TrackSettled(@, FALSE)]
<1>1. /\ page.scheduled \in Candidate /\ page.unsaved \in Candidate /\ page.retryCandidate \in Candidate
      /\ page.revision \in Nat /\ NoSave \in Candidate /\ Carries(NoSave, K, O) /\ NoSave.revision <= page.revision
  BY PageTypes, NoSaveType DEF Sound, Page, Carries
<1>2. waiting \in Candidate /\ Carries(waiting, K, O) /\ waiting.revision <= page.revision
  BY <1>1 DEF UpToDate, Text, Sequenced, Sound, UnsavedIsNewest
<1> HIDE DEF waiting
<1>3. detached \in Candidate /\ Carries(detached, K, O) /\ detached.revision <= page.revision
  BY <1>1, <1>2, DetachedCarries DEF UpToDate, Text, Sequenced
<1> HIDE DEF detached
<1>4. /\ Sound(away) /\ KeepsRequest(page, away) /\ away.mounted = FALSE /\ away.version = page.version
      /\ away.revision = page.revision /\ away.scheduled = page.scheduled /\ away.unsaved = page.unsaved
      /\ away.agentRequired = page.agentRequired /\ away.retryTimer = page.retryTimer
      /\ away.retryCandidate = page.retryCandidate /\ away.block = page.block
  BY DEF Sound, UnsavedIsNewest, Page, KeepsRequest
<1> HIDE DEF away
<1>5. Keeps(page, away, K, O)
  BY <1>4, StillUpToDate DEF KeepsRequest, Keeps
<1>6. /\ Sound(cleared) /\ Keeps(away, cleared, K, O) /\ cleared.scheduled = NoSave
      /\ cleared.revision = page.revision /\ cleared.mounted = FALSE
  BY <1>4, <1>5, ClearScheduledSound, ClearedUpToDate, ClearScheduledShape DEF Keeps
<1> HIDE DEF cleared
<1>7. /\ Sound(gone) /\ Keeps(cleared, gone, K, O) /\ gone.scheduled = NoSave
      /\ gone.revision = page.revision /\ gone.mounted = FALSE
  BY <1>6, UnblockedSound, UnblockedUpToDate, UnblockedShape DEF KeepsRest, KeepsPage, Keeps
<1>8. page' = (IF gone.block # "none"
               THEN IF gone.unsaved # NoSave THEN settled ELSE gone
               ELSE IF detached # NoSave THEN TrackedFlushSave(gone, detached) ELSE gone)
  BY DEF Unmount, gone, cleared, away, detached, waiting
<1> HIDE DEF gone
<1>9. Keeps(page, gone, K, O)
  BY <1>5, <1>6, <1>7 DEF Keeps, Undisturbed
<1>10. CASE page' = gone
  BY <1>9, <1>10
<1>11. CASE page' = settled
  <2>1. /\ settled.mounted = gone.mounted /\ settled.version = gone.version /\ settled.revision = gone.revision
        /\ settled.scheduled = gone.scheduled
        /\ settled.unsaved = gone.unsaved /\ settled.agentRequired = gone.agentRequired
        /\ settled.retryTimer = gone.retryTimer /\ settled.retryCandidate = gone.retryCandidate
        /\ settled.inflight = gone.inflight /\ settled.base = gone.base /\ settled.seq = gone.seq
        /\ settled.pending = gone.pending /\ settled.block = gone.block
        /\ settled.saves = TrackSettled(gone.saves, FALSE)
    BY <1>7 DEF Sound, Page
  <2>2. gone.saves \in DocumentSaveState /\ Numbered(gone.saves) /\ gone.seq \in Nat
    BY <1>7 DEF Sound, Page, Keeps, UpToDate, RequestIsTracked
  <2>3. /\ Numbered(settled.saves)
        /\ gone.seq \in gone.saves.pending => gone.seq \in settled.saves.pending
    <3>1. /\ Numbered(Track(gone.saves)) /\ gone.saves.pending \subseteq Track(gone.saves).pending
          /\ Track(gone.saves) \in DocumentSaveState
          /\ \A n \in gone.saves.pending : n # gone.saves.sequence + 1
      BY <2>2, TrackNumbered, TrackType
    <3>2. gone.saves.sequence + 1 \in Nat
      BY <2>2 DEF DocumentSaveState
    <3>3. /\ Numbered(TrackSettled(gone.saves, FALSE))
          /\ \A n \in Track(gone.saves).pending :
               n # gone.saves.sequence + 1 => n \in TrackSettled(gone.saves, FALSE).pending
      BY <3>1, <3>2, SettleNumbered DEF TrackSettled
    <3> QED BY <2>1, <3>1, <3>3
  <2> HIDE DEF settled
  <2>4. RequestIsTracked(settled) /\ Text(settled, K, O)
    BY <1>7, <2>1, <2>3 DEF Keeps, UpToDate, RequestIsTracked, Text
  <2>5. Keeps(gone, settled, K, O)
    BY <1>7, <2>1, <2>4 DEF Keeps, UpToDate, Sequenced, ArmedForAgent, Armed, BasedOnVersion, Undisturbed
  <2> QED BY <1>9, <1>11, <2>5 DEF Keeps, Undisturbed
<1>12. CASE page' = TrackedFlushSave(gone, detached) /\ detached # NoSave
  <2>1. Keeps(gone, page', K, O)
    BY <1>3, <1>7, <1>12, TrackedUpToDate DEF Keeps
  <2> QED BY <1>9, <2>1 DEF Keeps, Undisturbed
<1> QED BY <1>8, <1>10, <1>11, <1>12

LEMMA FlushRemote ==
  ASSUME Sound(page), NEW K, NEW O, UpToDate(page, K, O), StartFlush \/ ContinueFlush
  PROVE  Keeps(page, page', K, O)
<1>1. CASE StartFlush
  <2>1. CASE page.mounted
    <3> DEFINE synced  == BeforeFlush(page)
               cleared == ClearScheduledSave(synced)
               f       == [NoFlush EXCEPT !.pc = "draining"]
    <3>1. Sound(synced) /\ Keeps(page, synced, K, O)
      BY BeforeFlushSound, BeforeFlushUpToDate DEF Keeps
    <3>2. page' = [cleared EXCEPT !.flush = f]
      BY <1>1, <2>1 DEF StartFlush
    <3> HIDE DEF synced
    <3>3. Sound(cleared) /\ Keeps(synced, cleared, K, O)
      BY <3>1, ClearScheduledSound, ClearedUpToDate DEF Keeps
    <3> HIDE DEF cleared, f
    <3>4. Keeps(cleared, page', K, O)
      BY <3>2, <3>3, FlushFieldUpToDate DEF Keeps
    <3> QED BY <3>1, <3>3, <3>4 DEF Keeps, Undisturbed
  <2>2. CASE ~page.mounted
    <3>1. PICK f : page' = [page EXCEPT !.flush = f]
      BY <1>1, <2>2 DEF StartFlush
    <3> QED BY <3>1, FlushFieldUpToDate DEF Keeps
  <2> QED BY <2>1, <2>2
<1>2. CASE ContinueFlush
  <2>1. page' = FlushRound(page) \/ \E ok : page' = EndFlush(page, ok)
    BY <1>2 DEF ContinueFlush
  <2>2. CASE page' = FlushRound(page)
    BY <2>2, FlushRoundUpToDate DEF Keeps
  <2>3. CASE \E ok : page' = EndFlush(page, ok)
    <3>1. PICK f : page' = [page EXCEPT !.flush = f]
      BY <2>3 DEF EndFlush
    <3> QED BY <3>1, FlushFieldUpToDate DEF Keeps
  <2> QED BY <2>1, <2>2, <2>3
<1> QED BY <1>1, <1>2

LEMMA RemoteSavesRemote ==
  ASSUME RemoteInv, NEW r \in Remote, RemoteSaves(r)
  PROVE  /\ page'.version \in 1..Len(bodies') /\ AnswerIsStored' /\ RemoteEditsSurvive'
         /\ UpToDate(page', (bodies'[page'.version] \cap Remote) \ overwritten', overwritten')
<1>1. /\ page.version \in 1..Len(bodies) /\ bodies \in Seq(SUBSET Edits) /\ Len(bodies) \in Nat
      /\ UpToDate(page, (bodies[page.version] \cap Remote) \ overwritten, overwritten)
      /\ AnswerIsStored /\ RemoteEditsSurvive /\ Current \in SUBSET Edits
  BY CurrentType DEF RemoteInv, IInv, RestTypeOK
<1>2. /\ bodies' = Append(bodies, Current \cup {r}) /\ page' = page /\ reply' = reply
      /\ overwritten' = overwritten
  BY DEF RemoteSaves
<1>3. Current \cup {r} \in SUBSET Edits
  BY <1>1, EditsAssumption
<1>4. /\ Len(bodies') = Len(bodies) + 1 /\ bodies'[Len(bodies) + 1] = Current \cup {r}
      /\ \A v \in 1..Len(bodies) : bodies'[v] = bodies[v]
      /\ DOMAIN bodies = 1..Len(bodies) /\ DOMAIN bodies' = 1..(Len(bodies) + 1)
  BY <1>1, <1>2, <1>3
<1>5. bodies'[page'.version] = bodies[page.version] /\ page'.version \in 1..Len(bodies')
  BY <1>1, <1>2, <1>4
<1>6. AnswerIsStored'
  <2>1. reply.version \in 1..Len(bodies) =>
          reply.version \in 1..Len(bodies') /\ bodies'[reply.version] = bodies[reply.version]
    BY <1>1, <1>4
  <2> QED BY <1>1, <1>2, <2>1 DEF AnswerIsStored
<1>7. RemoteEditsSurvive'
  <2>1. \A v \in DOMAIN bodies, e \in Remote : e \in bodies[v] => e \in Current \cup overwritten
    BY <1>1, EachVersion DEF RemoteEditsSurvive
  <2>2. Current' = Current \cup {r}
    BY <1>4 DEF Current
  <2>3. ASSUME NEW e \in Remote, NEW v \in DOMAIN bodies', e \in bodies'[v] PROVE e \in Current' \cup overwritten'
    <3>1. CASE v = Len(bodies) + 1
      BY <1>4, <2>2, <2>3, <3>1
    <3>2. CASE v # Len(bodies) + 1
      <4>1. v \in DOMAIN bodies /\ e \in bodies[v]
        BY <1>1, <1>4, <2>3, <3>2
      <4> QED BY <1>2, <2>1, <2>2, <4>1
    <3> QED BY <3>1, <3>2
  <2> QED BY <2>3, EachVersion DEF RemoteEditsSurvive
<1> QED BY <1>1, <1>2, <1>5, <1>6, <1>7

LEMMA ReopenRemote ==
  ASSUME RemoteInv, Reopen
  PROVE  /\ page'.version \in 1..Len(bodies) /\ reply = NoReply
         /\ UpToDate(page', (bodies[page'.version] \cap Remote) \ overwritten, overwritten)
<1>1. /\ page.saves \in DocumentSaveState /\ Numbered(page.saves) /\ RequestIsTracked(page)
      /\ bodies \in Seq(SUBSET Edits) /\ bodies # <<>>
  BY DEF RemoteInv, IInv, PageIsSound, RestTypeOK, Sound, Page, UpToDate, RequestIsTracked
<1>2. reply = NoReply
  BY <1>1 DEF Reopen, Drained, RemoteInv, RequestIsTracked, AnswersARequest
<1>3. page' = Opened(Current, Len(bodies), page.saves)
  BY DEF Reopen
<1>4. page'.version = Len(bodies)
  BY <1>3 DEF Opened
<1>5. Len(bodies) \in 1..Len(bodies)
  BY <1>1
<1>6. UpToDate(page', (Current \cap Remote) \ overwritten, overwritten)
  BY <1>1, <1>3, OpenedUpToDate
<1> QED BY <1>2, <1>4, <1>5, <1>6 DEF Current

LEMMA NextRemoteInv == ~LegacyServer /\ RemoteInv /\ [Next]_vars => RemoteInv'
<1> SUFFICES ASSUME ~LegacyServer, RemoteInv, [Next]_vars PROVE RemoteInv'
  OBVIOUS
<1> DEFINE K == (bodies[page.version] \cap Remote) \ overwritten
           OK == /\ (reply' # NoReply => page'.inflight # NoSave) /\ AnswerIsStored' /\ reply'.kind # "conflict"
                 /\ page'.version \in 1..Len(bodies')
                 /\ UpToDate(page', (bodies'[page'.version] \cap Remote) \ overwritten', overwritten')
                 /\ RemoteEditsSurvive'
<1>1. IInv'
  BY NextIInv DEF RemoteInv
<1>2. /\ Sound(page) /\ (reply # NoReply => page.inflight # NoSave) /\ AnswerIsStored /\ reply.kind # "conflict"
      /\ page.version \in 1..Len(bodies) /\ UpToDate(page, K, overwritten)
      /\ RemoteEditsSurvive /\ opOf \in Seq(Ops \cup {NoOp}) /\ NoReply.kind = "waiting"
  BY DEF RemoteInv, AnswersARequest, IInv, PageIsSound, RestTypeOK, NoReply
<1>3. OK
  <2>1. CASE UNCHANGED vars
    BY <1>2, <2>1 DEF vars, AnswerIsStored, RemoteEditsSurvive, Current
  <2>2. CASE Answered
    <3>1. bodies' = bodies /\ overwritten' = overwritten
      BY <2>2 DEF Answered, SaveSucceeds, SaveConflicts, SaveFails, SaveForbidden, SaveUnauthorized, ServerUnchanged
    <3>2. /\ reply' = NoReply /\ page'.version \in 1..Len(bodies)
          /\ UpToDate(page', (bodies[page'.version] \cap Remote) \ overwritten, overwritten)
      BY <2>2, AnsweredRemote
    <3> QED BY <1>2, <3>1, <3>2 DEF AnswerIsStored, RemoteEditsSurvive, Current
  <2>3. CASE Server
    BY <2>3, ServerRemote
  <2>4. ASSUME NEW r \in Remote, RemoteSaves(r) PROVE OK
    <3>1. page' = page /\ reply' = reply
      BY <2>4 DEF RemoteSaves
    <3> QED BY <1>2, <2>4, <3>1, RemoteSavesRemote
  <2>5. CASE SessionExpires \/ SessionReturns
    BY <1>2, <2>5 DEF SessionExpires, SessionReturns, AnswerIsStored, RemoteEditsSurvive, Current
  <2>6. CASE Reopen
    <3>1. bodies' = bodies /\ overwritten' = overwritten /\ reply' = reply
      BY <2>6 DEF Reopen, ServerUnchanged
    <3> QED BY <1>2, <2>6, <3>1, ReopenRemote DEF AnswerIsStored, RemoteEditsSurvive, Current
  <2>7. ASSUME reply' = reply, bodies' = bodies, overwritten' = overwritten, Keeps(page, page', K, overwritten)
        PROVE  OK
    <3>1. /\ page'.version = page.version /\ UpToDate(page', K, overwritten)
          /\ page.inflight # NoSave => page'.inflight = page.inflight
      BY <2>7 DEF Keeps, Undisturbed
    <3>2. AnswerIsStored'
      <4>1. reply.kind = "ok" => page.inflight # NoSave
        BY <1>2
      <4> QED BY <1>2, <2>7, <3>1, <4>1 DEF AnswerIsStored
    <3> QED BY <1>2, <2>7, <3>1, <3>2 DEF RemoteEditsSurvive, Current
  <2> HIDE DEF K, OK
  <2>8. CASE LoseLock
    BY <1>2, <2>7, <2>8, LoseLockRemote DEF LoseLock, ServerUnchanged
  <2>9. CASE MarkdownUpdated \/ DebounceFires \/ AgentRetryFires \/ SaveShortcut
    BY <1>2, <2>7, <2>9, TimerRemote
       DEF MarkdownUpdated, DebounceFires, AgentRetryFires, SaveShortcut, ServerUnchanged
  <2>10. CASE Type \/ ToggleAutoSave \/ \E op \in Ops : ApplyMarkdown(op)
    BY <1>2, <2>7, <2>10, EditRemote DEF Type, ToggleAutoSave, ApplyMarkdown, ServerUnchanged
  <2>11. CASE Unmount
    BY <1>2, <2>7, <2>11, UnmountRemote DEF Unmount, ServerUnchanged
  <2>12. CASE StartFlush \/ ContinueFlush
    BY <1>2, <2>7, <2>12, FlushRemote DEF StartFlush, ContinueFlush, ServerUnchanged
  <2> QED BY <2>1, <2>2, <2>3, <2>4, <2>5, <2>6, <2>8, <2>9, <2>10, <2>11, <2>12 DEF Next, User, World
<1> QED BY <1>1, <1>3
     DEF RemoteInv, AnswersARequest, UpToDate, RequestIsTracked, Numbered, Text, Carries, Holding, Sequenced,
         ArmedForAgent, Armed, BasedOnVersion

(***************************************************************************)
(* With a server that merges, what another writer saved stays in the       *)
(* document unless the server reported it as overwritten, whatever is      *)
(* typed, applied by the AI, retried, flushed, lost or refused: the base   *)
(* version never runs ahead of the body that is sent on it.                *)
(***************************************************************************)
THEOREM RemoteEditsSurviveTheorem == ~LegacyServer => (Spec => []RemoteEditsSurvive)
<1> SUFFICES ASSUME ~LegacyServer PROVE Spec => []RemoteEditsSurvive
  OBVIOUS
<1>1. RemoteInv /\ [Next]_vars => RemoteInv'
  BY NextRemoteInv
<1>2. RemoteInv => RemoteEditsSurvive
  BY DEF RemoteInv
<1> QED BY <1>1, <1>2, InitRemoteInv, PTL DEF Spec

-----------------------------------------------------------------------------
(***************************************************************************)
(* What keeps a lost lock lost: a block that no login lifts, under which   *)
(* no operator starts a request.                                           *)
(***************************************************************************)
Steady(p, q) ==
  /\ q.lock = p.lock /\ q.block = p.block
  /\ p.block = "lock-lost" => q.seq = p.seq /\ q.inflight \in {p.inflight, NoSave}

LEMMA StillSteady ==
  ASSUME NEW p, NEW q, q.lock = p.lock, q.block = p.block, q.seq = p.seq, q.inflight = p.inflight
  PROVE  Steady(p, q)
BY DEF Steady

LEMMA SteadyTwice ==
  ASSUME NEW p, NEW q, NEW r, Steady(p, q), Steady(q, r)
  PROVE  Steady(p, r)
BY DEF Steady

LEMMA UnblockedSteady ==
  ASSUME NEW p, Sound(p), p.block # "session-expired"
  PROVE  Unblocked(p) = p
BY DEF Unblocked

LEMMA TrackedSteady ==
  ASSUME NEW p, Sound(p), p.block # "session-expired", NEW c \in Candidate
  PROVE  Steady(p, TrackedFlushSave(p, c))
<1> DEFINE q == TrackedFlushSave(p, c)
<1>1. PICK save \in Candidate :
        /\ KeepsRest(p, q) /\ Blocking(p, q)
        /\ Refused(p, q) \/ Queued(p, q, save) \/ Sends(p, q, save)
  BY TrackedShape
<1> HIDE DEF q
<1>2. q.lock = p.lock /\ q.block = p.block
  BY <1>1 DEF KeepsRest, KeepsPage, Blocking
<1>3. p.block = "lock-lost" => q.seq = p.seq /\ q.inflight = p.inflight
  BY <1>1, <1>2 DEF Refused, Queued, Sends
<1> QED BY <1>2, <1>3 DEF Steady, q

LEMMA QueueSteady ==
  ASSUME NEW p, Sound(p), p.block # "session-expired",
         NEW body \in SUBSET Edits, NEW source \in Sources, NEW op \in Ops \cup {NoOp}
  PROVE  Steady(p, QueueSave(p, body, source, op))
<1> DEFINE q == QueueSave(p, body, source, op)
<1>1. \/ q = p /\ p.block # "none"
      \/ \E c \in Candidate :
           \/ Scheduled(p, q, c)
           \/ \E a : Sound(a) /\ Accepted(p, a, c) /\ a.scheduled = NoSave /\ q = TrackedFlushSave(a, c)
  BY QueueShape
<1> HIDE DEF q
<1>2. CASE q = p /\ p.block # "none"
  BY <1>2, StillSteady DEF q
<1>3. ASSUME NEW c, NEW a, Accepted(p, a, c)
      PROVE  Steady(p, a) /\ a.block = "none"
  BY <1>3 DEF Accepted, Blocking, Steady
<1>4. ASSUME NEW c \in Candidate, Scheduled(p, q, c)
      PROVE  Steady(p, q)
  BY <1>3, <1>4 DEF Scheduled
<1>5. ASSUME NEW c \in Candidate, NEW a, Sound(a), Accepted(p, a, c), q = TrackedFlushSave(a, c)
      PROVE  Steady(p, q)
  <2>1. Steady(p, a) /\ a.block = "none"
    BY <1>3, <1>5
  <2>2. Steady(a, q)
    BY <1>5, <2>1, TrackedSteady
  <2> QED BY <2>1, <2>2, SteadyTwice
<1> QED BY <1>1, <1>2, <1>4, <1>5 DEF q

LEMMA SaveNowSteady ==
  ASSUME NEW p, Sound(p), p.block # "session-expired", NEW body \in SUBSET Edits
  PROVE  Steady(p, SaveNow(p, body))
<1> DEFINE q == SaveNow(p, body)
<1>1. \/ q = p /\ p.block # "none"
      \/ \E c \in Candidate :
           \E a : Sound(a) /\ Accepted(p, a, c) /\ a.scheduled = NoSave /\ q = TrackedFlushSave(a, c)
  BY SaveNowShape
<1> HIDE DEF q
<1>2. CASE q = p /\ p.block # "none"
  BY <1>2, StillSteady DEF q
<1>3. ASSUME NEW c \in Candidate, NEW a, Sound(a), Accepted(p, a, c), q = TrackedFlushSave(a, c)
      PROVE  Steady(p, q)
  <2>1. Steady(p, a) /\ a.block = "none"
    BY <1>3 DEF Accepted, Blocking, Steady
  <2>2. Steady(a, q)
    BY <1>3, <2>1, TrackedSteady
  <2> QED BY <2>1, <2>2, SteadyTwice
<1> QED BY <1>1, <1>2, <1>3 DEF q

LEMMA BeforeFlushSteady ==
  ASSUME NEW p, Sound(p), p.block # "session-expired"
  PROVE  Steady(p, BeforeFlush(p))
<1> DEFINE m == [p EXCEPT !.bodyRef = p.editor]
<1>1. p.editor \in SUBSET Edits
  BY DEF Sound, Page
<1>2. /\ Sound(m) /\ m.inflight = p.inflight /\ m.seq = p.seq /\ m.lock = p.lock /\ m.block = p.block
  BY <1>1 DEF Sound, UnsavedIsNewest, Page
<1>3. BeforeFlush(p) = (IF p.mounted /\ p.editor # p.bodyRef THEN QueueSave(m, p.editor, "user", NoOp) ELSE p)
  BY DEF BeforeFlush
<1> HIDE DEF m
<1>4. Steady(p, m) /\ Steady(p, p)
  BY <1>2, StillSteady
<1>5. "user" \in Sources /\ NoOp \in Ops \cup {NoOp}
  BY DEF Sources
<1>6. Steady(m, QueueSave(m, p.editor, "user", NoOp))
  BY <1>1, <1>2, <1>5, QueueSteady
<1>7. Steady(p, QueueSave(m, p.editor, "user", NoOp))
  BY <1>4, <1>6, SteadyTwice
<1> QED BY <1>3, <1>4, <1>7

LEMMA ClearedSteady ==
  ASSUME NEW p, Sound(p)
  PROVE  Steady(p, ClearScheduledSave(p))
BY ClearScheduledShape, StillSteady DEF KeepsRequest

LEMMA FlushFieldSteady ==
  ASSUME NEW p, Sound(p), NEW f
  PROVE  Steady(p, [p EXCEPT !.flush = f])
<1>1. LET q == [p EXCEPT !.flush = f]
      IN  q.lock = p.lock /\ q.block = p.block /\ q.seq = p.seq /\ q.inflight = p.inflight
  BY DEF Sound, Page
<1> QED BY <1>1, StillSteady

LEMMA FlushRoundSteady ==
  ASSUME NEW p, Sound(p), p.block # "session-expired"
  PROVE  Steady(p, FlushRound(p))
<1> DEFINE synced  == BeforeFlush(p)
           cleared == ClearScheduledSave(synced)
           sent    == TrackedFlushSave(cleared, synced.unsaved)
           q       == FlushRound(p)
<1>1. Sound(synced) /\ Steady(p, synced)
  BY BeforeFlushSound, BeforeFlushSteady
<1>2. synced.block # "session-expired" /\ synced.unsaved \in Candidate
  BY <1>1 DEF Steady, Sound, Page
<1>3. Unblocked(synced) = synced
  BY <1>1, <1>2, UnblockedSteady
<1>4. \/ \E f : q = [synced EXCEPT !.flush = f]
      \/ \E f : q = [sent EXCEPT !.flush = f]
  BY <1>3 DEF FlushRound, EndFlush
<1> HIDE DEF q, synced
<1>5. Sound(cleared) /\ Steady(synced, cleared)
  BY <1>1, ClearScheduledSound, ClearedSteady
<1>6. cleared.block # "session-expired"
  BY <1>2, <1>5 DEF Steady
<1> HIDE DEF cleared
<1>7. Sound(sent) /\ Steady(cleared, sent)
  BY <1>2, <1>5, <1>6, TrackedFlushSound, TrackedSteady
<1> HIDE DEF sent
<1>8. Steady(p, sent)
  BY <1>1, <1>5, <1>7, SteadyTwice
<1>9. Steady(p, q)
  BY <1>1, <1>4, <1>7, <1>8, FlushFieldSteady, SteadyTwice
<1> QED BY <1>9 DEF q

LEMMA FinishSteady ==
  ASSUME NEW p, Sound(p), p.block # "session-expired", NEW saved \in BOOLEAN
  PROVE  Steady(p, FinishRequest(p, saved))
<1> DEFINE done == [p EXCEPT !.inflight = NoSave, !.pending = NoSave]
           next == IF p.pending # NoSave /\ p.block = "none"
                   THEN TrackedFlushSave(done, p.pending) ELSE done
           flush == IF next.flush.pc = "saving" /\ next.flush.own = p.seq
                    THEN [next.flush EXCEPT !.own = 0, !.saved = saved] ELSE next.flush
           saves == Settle(next.saves, p.seq, saved)
           q == FinishRequest(p, saved)
<1>1. p.pending \in Candidate
  BY DEF Sound, Page
<1>2. Sound(done) /\ done.lock = p.lock /\ done.block = p.block /\ done.seq = p.seq /\ done.inflight = NoSave
  BY NoSaveType DEF Sound, UnsavedIsNewest, Page
<1>3. q = [next EXCEPT !.saves = saves, !.flush = flush]
  BY DEF FinishRequest
<1> HIDE DEF done, saves, flush
<1>4. Steady(done, TrackedFlushSave(done, p.pending)) /\ Sound(TrackedFlushSave(done, p.pending))
  BY <1>1, <1>2, TrackedSteady, TrackedFlushSound
<1>5. Sound(next) /\ Steady(done, next)
  BY <1>2, <1>4, StillSteady
<1> HIDE DEF next
<1>6. q.lock = next.lock /\ q.block = next.block /\ q.seq = next.seq /\ q.inflight = next.inflight
  BY <1>3, <1>5 DEF Sound, Page
<1> HIDE DEF q
<1>7. Steady(p, q)
  BY <1>2, <1>5, <1>6 DEF Steady
<1> QED BY <1>7 DEF q

(* The steps. A step may also be the answer that forbids saving. *)

Locked(p, q) ==
  /\ q.lock = p.lock /\ q.block \in {p.block, "lock-lost"}
  /\ p.block = "lock-lost" => q.seq = p.seq /\ q.inflight \in {p.inflight, NoSave}

LEMMA SteadyLocked ==
  ASSUME NEW p, NEW q, Steady(p, q)
  PROVE  Locked(p, q)
BY DEF Steady, Locked

LEMMA FinishLocked ==
  ASSUME NEW p, NEW r, Sound(r), r.block # "session-expired", r.lock = p.lock, r.seq = p.seq,
         r.inflight = p.inflight, r.block \in {p.block, "lock-lost"}, NEW saved \in BOOLEAN
  PROVE  Locked(p, FinishRequest(r, saved))
<1>1. Steady(r, FinishRequest(r, saved))
  BY FinishSteady
<1> QED BY <1>1 DEF Steady, Locked

\* No login lifts the block: the login lasts, and no answer says otherwise.
LockInv ==
  /\ IInv /\ session = "live" /\ reply.kind # "session-expired"
  /\ page.block # "session-expired" /\ (page.lock = "lost" => page.block = "lock-lost")

LEMMA AnsweredLocked ==
  ASSUME LockInv, Answered
  PROVE  Locked(page, page')
<1>1. Sound(page) /\ BadgeIsTrue(page) /\ page.block # "session-expired" /\ reply \in Reply
  BY DEF LockInv, IInv, PageIsSound, RestTypeOK
<1>2. CASE SaveSucceeds
  <2>1. page' = OnSaved(page, reply)
    BY <1>2 DEF SaveSucceeds
  <2>2. PICK r : OnSaved(page, reply) = FinishRequest(r, TRUE) /\ Saves(page, r, reply)
    BY <1>1, SavedShape
  <2>3. /\ Sound(r) /\ r.lock = page.lock /\ r.seq = page.seq /\ r.inflight = page.inflight
        /\ r.block = page.block
    BY <1>1, <2>2 DEF Saves, Settles, QueuesAgain, Blocking
  <2> QED BY <1>1, <2>1, <2>2, <2>3, FinishLocked
<1>3. CASE SaveConflicts
  <2>1. PICK latest \in Nat : page' = OnConflict(page, latest)
    BY <1>1, <1>3 DEF SaveConflicts, Reply
  <2>2. PICK r : OnConflict(page, latest) = FinishRequest(r, FALSE) /\ Fails(page, r)
    BY <1>1, ConflictShape
  <2>3. /\ Sound(r) /\ r.lock = page.lock /\ r.seq = page.seq /\ r.inflight = page.inflight
        /\ r.block = page.block
    BY <2>2 DEF Fails, KeepsCall
  <2> QED BY <1>1, <2>1, <2>2, <2>3, FinishLocked
<1>4. CASE SaveFails
  <2>1. page' = OnFailed(page)
    BY <1>4 DEF SaveFails
  <2>2. PICK r : /\ OnFailed(page) = FinishRequest(r, FALSE)
                 /\ IF page.inflight.source = "agent" THEN AgentFails(page, r) ELSE Fails(page, r)
    BY <1>1, FailedShape
  <2>3. /\ Sound(r) /\ r.lock = page.lock /\ r.seq = page.seq /\ r.inflight = page.inflight
        /\ r.block = page.block
    BY <2>2 DEF Fails, AgentFails, KeepsCall
  <2> QED BY <1>1, <2>1, <2>2, <2>3, FinishLocked
<1>5. CASE SaveForbidden
  <2>1. page' = OnBlocked(page, "lock-lost")
    BY <1>5 DEF SaveForbidden
  <2>2. PICK r : OnBlocked(page, "lock-lost") = FinishRequest(r, FALSE) /\ Blocked(page, r, "lock-lost")
    BY <1>1, BlockedShape
  <2>3. /\ Sound(r) /\ r.lock = page.lock /\ r.seq = page.seq /\ r.inflight = page.inflight
        /\ r.block = "lock-lost"
    BY <2>2 DEF Blocked, KeepsCall
  <2> QED BY <2>1, <2>2, <2>3, FinishLocked
<1> QED BY <1>2, <1>3, <1>4, <1>5 DEF Answered, SaveUnauthorized, LockInv

LEMMA TimerLocked ==
  ASSUME LockInv, MarkdownUpdated \/ DebounceFires \/ AgentRetryFires \/ SaveShortcut
  PROVE  Locked(page, page')
<1>1. /\ Sound(page) /\ page.block # "session-expired"
      /\ page.editor \in SUBSET Edits /\ page.bodyRef \in SUBSET Edits
      /\ page.scheduled \in Candidate /\ page.retryTimer \in Candidate
  BY DEF LockInv, IInv, PageIsSound, Sound, Page
<1>2. CASE MarkdownUpdated
  <2>1. page' = BeforeFlush(page)
    BY <1>2 DEF MarkdownUpdated, BeforeFlush
  <2> QED BY <1>1, <2>1, BeforeFlushSteady, SteadyLocked
<1>3. CASE DebounceFires
  <2> DEFINE p == [page EXCEPT !.timer = "off", !.scheduled = NoSave]
  <2>1. Sound(p) /\ p.lock = page.lock /\ p.block = page.block /\ p.seq = page.seq /\ p.inflight = page.inflight
    BY <1>1, NoSaveType DEF Sound, UnsavedIsNewest, Page
  <2>2. page' \in {p, TrackedFlushSave(p, page.scheduled)}
    BY <1>3 DEF DebounceFires
  <2> HIDE DEF p
  <2>3. Steady(page, p) /\ Steady(p, TrackedFlushSave(p, page.scheduled))
    BY <1>1, <2>1, StillSteady, TrackedSteady
  <2> QED BY <2>2, <2>3, SteadyTwice, SteadyLocked
<1>4. CASE AgentRetryFires
  <2> DEFINE p == CancelAgentRetry(page)
  <2>1. Sound(p) /\ p.lock = page.lock /\ p.block = page.block /\ p.seq = page.seq /\ p.inflight = page.inflight
    BY <1>1, CancelSound, CancelShape DEF KeepsRequest
  <2>2. page' \in {p, TrackedFlushSave(p, page.retryTimer)}
    BY <1>4 DEF AgentRetryFires
  <2> HIDE DEF p
  <2>3. Steady(page, p) /\ Steady(p, TrackedFlushSave(p, page.retryTimer))
    BY <1>1, <2>1, StillSteady, TrackedSteady
  <2> QED BY <2>2, <2>3, SteadyTwice, SteadyLocked
<1>5. CASE SaveShortcut
  <2>1. page' = SaveNow(page, page.bodyRef)
    BY <1>5 DEF SaveShortcut
  <2> QED BY <1>1, <2>1, SaveNowSteady, SteadyLocked
<1> QED BY <1>2, <1>3, <1>4, <1>5

LEMMA EditLocked ==
  ASSUME LockInv, Type \/ ToggleAutoSave \/ \E op \in Ops : ApplyMarkdown(op)
  PROVE  Locked(page, page')
<1>1. Sound(page) /\ page.block # "session-expired" /\ page.editor \in SUBSET Edits
  BY DEF LockInv, IInv, PageIsSound, Sound, Page
<1>2. \A body : LET q == [page EXCEPT !.editor = body] IN Steady(page, q)
  BY <1>1 DEF Sound, Page, Steady
<1>3. \A on, timer : LET q == [page EXCEPT !.autoSave = on, !.timer = timer] IN Steady(page, q)
  BY <1>1 DEF Sound, Page, Steady
<1>4. CASE Type
  BY <1>2, <1>4, SteadyLocked DEF Type
<1>5. CASE ToggleAutoSave
  <2>1. PICK on, timer : page' = [page EXCEPT !.autoSave = on, !.timer = timer]
    BY <1>5 DEF ToggleAutoSave
  <2> QED BY <1>3, <2>1, SteadyLocked
<1>6. ASSUME NEW op \in Ops, ApplyMarkdown(op) PROVE Locked(page, page')
  <2> DEFINE body == page.editor \cup {NextEdit}
             m    == [page EXCEPT !.editor = body, !.bodyRef = body]
  <2>1. page' = QueueSave(m, body, "agent", op) /\ NextEdit \in LocalEdits
    BY <1>6 DEF ApplyMarkdown
  <2>2. body \in SUBSET Edits
    BY <1>1, <2>1, EditsAssumption
  <2> HIDE DEF body
  <2>3. Sound(m) /\ m.lock = page.lock /\ m.block = page.block /\ m.seq = page.seq /\ m.inflight = page.inflight
    BY <1>1, <2>2 DEF Sound, UnsavedIsNewest, Page
  <2> HIDE DEF m
  <2>4. "agent" \in Sources /\ op \in Ops \cup {NoOp}
    BY DEF Sources
  <2>5. Steady(page, m) /\ Steady(m, page')
    BY <1>1, <2>1, <2>2, <2>3, <2>4, StillSteady, QueueSteady
  <2> QED BY <2>5, SteadyTwice, SteadyLocked
<1> QED BY <1>4, <1>5, <1>6

LEMMA UnmountLocked ==
  ASSUME LockInv, Unmount
  PROVE  Locked(page, page')
<1> DEFINE waiting  == IF page.scheduled # NoSave THEN page.scheduled
                       ELSE IF page.inflight = NoSave THEN page.unsaved ELSE NoSave
           detached == SelectDetachedSaveCandidate(waiting, page.retryCandidate)
           away     == [page EXCEPT !.mounted = FALSE]
           cleared  == ClearScheduledSave(away)
           settled  == [cleared EXCEPT !.saves = TrackSettled(@, FALSE)]
<1>1. /\ Sound(page) /\ page.block # "session-expired"
      /\ page.scheduled \in Candidate /\ page.unsaved \in Candidate /\ page.retryCandidate \in Candidate
  BY DEF LockInv, IInv, PageIsSound, Sound, Page
<1>2. waiting \in Candidate
  BY <1>1, NoSaveType
<1> HIDE DEF waiting
<1>3. detached \in Candidate
  BY <1>1, <1>2, MergeType, NoSaveType DEF SelectDetachedSaveCandidate
<1> HIDE DEF detached
<1>4. /\ Sound(away) /\ away.lock = page.lock /\ away.block = page.block /\ away.seq = page.seq
      /\ away.inflight = page.inflight
  BY <1>1 DEF Sound, UnsavedIsNewest, Page
<1> HIDE DEF away
<1>5. Sound(cleared) /\ Steady(page, away) /\ Steady(away, cleared)
  BY <1>4, StillSteady, ClearScheduledSound, ClearedSteady
<1>6. Steady(page, cleared) /\ cleared.block # "session-expired"
  BY <1>1, <1>5, SteadyTwice DEF Steady
<1>7. Unblocked(cleared) = cleared
  BY <1>5, <1>6, UnblockedSteady
<1>8. page' \in {cleared, settled, TrackedFlushSave(cleared, detached)}
  BY <1>7 DEF Unmount, waiting, detached, away
<1> HIDE DEF cleared
<1>9. Steady(cleared, settled) /\ Steady(cleared, TrackedFlushSave(cleared, detached))
  <2>1. /\ settled.lock = cleared.lock /\ settled.block = cleared.block /\ settled.seq = cleared.seq
        /\ settled.inflight = cleared.inflight
    BY <1>5 DEF Sound, Page
  <2> QED BY <1>3, <1>5, <1>6, <2>1, StillSteady, TrackedSteady
<1> HIDE DEF settled
<1> QED BY <1>6, <1>8, <1>9, SteadyTwice, SteadyLocked

LEMMA FlushLocked ==
  ASSUME LockInv, StartFlush \/ ContinueFlush
  PROVE  Locked(page, page')
<1>1. Sound(page) /\ page.block # "session-expired"
  BY DEF LockInv, IInv, PageIsSound
<1>2. CASE StartFlush
  <2> DEFINE synced  == BeforeFlush(page)
             cleared == ClearScheduledSave(synced)
  <2>1. Sound(synced) /\ Steady(page, synced)
    BY <1>1, BeforeFlushSound, BeforeFlushSteady
  <2>2. \/ \E f : page' = [cleared EXCEPT !.flush = f]
        \/ \E f : page' = [page EXCEPT !.flush = f]
    BY <1>2 DEF StartFlush
  <2> HIDE DEF synced
  <2>3. Sound(cleared) /\ Steady(synced, cleared)
    BY <2>1, ClearScheduledSound, ClearedSteady
  <2> HIDE DEF cleared
  <2>4. Steady(page, cleared)
    BY <2>1, <2>3, SteadyTwice
  <2> QED BY <1>1, <2>2, <2>3, <2>4, FlushFieldSteady, SteadyTwice, SteadyLocked
<1>3. CASE ContinueFlush
  <2>1. page' = FlushRound(page) \/ \E f : page' = [page EXCEPT !.flush = f]
    BY <1>3 DEF ContinueFlush, EndFlush
  <2> QED BY <1>1, <2>1, FlushRoundSteady, FlushFieldSteady, SteadyLocked
<1> QED BY <1>2, <1>3

LEMMA NextLockInv ==
  ASSUME MaxExpiries = 0, LockInv, [Next]_vars
  PROVE  /\ LockInv'
         /\ page.lock = "lost" /\ page'.mounted = page.mounted => ~RequestStarts \/ UNCHANGED vars
<1> DEFINE Final == page.lock = "lost" /\ page'.mounted = page.mounted => ~RequestStarts \/ UNCHANGED vars
           Lasts == session' = "live" /\ reply'.kind # "session-expired"
           Held  == page'.block # "session-expired" /\ (page'.lock = "lost" => page'.block = "lock-lost")
<1>1. IInv'
  BY NextIInv DEF LockInv
<1>2. /\ session = "live" /\ reply.kind # "session-expired" /\ page.block # "session-expired"
      /\ page.lock = "lost" => page.block = "lock-lost"
      /\ NoReply.kind = "waiting" /\ Sound(page)
  BY DEF LockInv, NoReply, IInv, PageIsSound
<1>3. ~SessionExpires
  <2>1. budget.expiries = 0
    BY DEF LockInv, IInv, RestTypeOK, Budgets
  <2> QED BY <2>1 DEF SessionExpires, Spend
<1>4. ASSUME Locked(page, page') PROVE Final /\ Held
  BY <1>2, <1>4 DEF Locked, RequestStarts
<1>5. Final /\ Lasts /\ Held
  <2>1. CASE UNCHANGED vars
    BY <1>2, <2>1 DEF vars
  <2>2. CASE Answered
    <3>1. Lasts
      BY <1>2, <2>2 DEF Answered, SaveSucceeds, SaveConflicts, SaveFails, SaveForbidden, SaveUnauthorized,
                        ServerUnchanged
    <3> QED BY <1>4, <2>2, <3>1, AnsweredLocked
  <2>3. CASE Server
    <3>1. Lasts
      <4>1. CASE ServerCommits
        <5>1. \/ \E v, m, b : reply' = [kind |-> "ok", version |-> v, merge |-> m, body |-> b]
              \/ reply' = [NoReply EXCEPT !.kind = "failed"]
          BY <4>1 DEF ServerCommits
        <5>2. reply'.kind \in {"ok", "failed"}
          BY <5>1 DEF NoReply
        <5>3. session' = session
          BY <4>1 DEF ServerCommits
        <5> QED BY <1>2, <5>2, <5>3
      <4>2. CASE ~ServerCommits
        BY <1>2, <2>3, <4>2 DEF Server, ServerConflicts, RequestLost, ServerForbids, SessionRefuses, NoReply
      <4> QED BY <4>1, <4>2
    <3>2. page' = page
      BY <2>3 DEF Server, ServerCommits, ServerConflicts, RequestLost, ServerForbids, SessionRefuses
    <3> QED BY <1>2, <3>1, <3>2 DEF RequestStarts
  <2>4. CASE SessionReturns \/ \E r \in Remote : RemoteSaves(r)
    BY <1>2, <2>4 DEF SessionReturns, RemoteSaves, RequestStarts
  <2>5. CASE Reopen
    <3>1. page'.mounted # page.mounted /\ page'.block = "none" /\ page'.lock = "granted"
      BY <2>5 DEF Reopen, Opened
    <3> QED BY <1>2, <2>5, <3>1 DEF Reopen, ServerUnchanged
  <2>6. CASE LoseLock
    <3> DEFINE lost == [page EXCEPT !.lock = "lost"]
               b    == [lost EXCEPT !.block = "lock-lost", !.pending = NoSave]
               c    == ClearScheduledSave(b)
               s    == SetStatus(c, "lock-lost")
    <3>1. page' = (IF page.block = "lock-lost" THEN lost ELSE s) /\ page.lock = "granted"
      BY <2>6 DEF LoseLock
    <3>2. lost.block = page.block /\ Sound(b) /\ b.block = "lock-lost"
      BY <1>2, NoSaveType DEF Sound, UnsavedIsNewest, Page, Blocks
    <3> HIDE DEF lost, b
    <3>3. Sound(c) /\ c.block = "lock-lost"
      BY <3>2, ClearScheduledSound, ClearScheduledShape
    <3> HIDE DEF c
    <3>4. s.block = "lock-lost"
      BY <3>3, SetStatusShape
    <3> HIDE DEF s
    <3>5. page'.block = "lock-lost"
      BY <3>1, <3>2, <3>4
    <3> QED BY <1>2, <2>6, <3>1, <3>5 DEF LoseLock, ServerUnchanged
  <2> HIDE DEF Final, Held
  <2>7. CASE MarkdownUpdated \/ DebounceFires \/ AgentRetryFires \/ SaveShortcut
    BY <1>2, <1>4, <2>7, TimerLocked
       DEF MarkdownUpdated, DebounceFires, AgentRetryFires, SaveShortcut, ServerUnchanged
  <2>8. CASE Type \/ ToggleAutoSave \/ \E op \in Ops : ApplyMarkdown(op)
    BY <1>2, <1>4, <2>8, EditLocked DEF Type, ToggleAutoSave, ApplyMarkdown, ServerUnchanged
  <2>9. CASE Unmount
    BY <1>2, <1>4, <2>9, UnmountLocked DEF Unmount, ServerUnchanged
  <2>10. CASE StartFlush \/ ContinueFlush
    BY <1>2, <1>4, <2>10, FlushLocked DEF StartFlush, ContinueFlush, ServerUnchanged
  <2> QED BY <1>3, <2>1, <2>2, <2>3, <2>4, <2>5, <2>6, <2>7, <2>8, <2>9, <2>10 DEF Next, User, World
<1> QED BY <1>1, <1>5 DEF LockInv

(***************************************************************************)
(* As long as the login lasts, an editor that lost its lock sends no save  *)
(* any more: not from the debounce, the AI retry, Cmd/Ctrl+S, a flush, an  *)
(* AI edit, or a request that ends.                                        *)
(***************************************************************************)
THEOREM LockLossTheorem == MaxExpiries = 0 => (Spec => LockLossIsFinal)
<1> SUFFICES ASSUME MaxExpiries = 0 PROVE Spec => LockLossIsFinal
  OBVIOUS
<1>1. Init => LockInv
  BY InitIInv DEF Init, Opened, NoReply, LockInv
<1>2. LockInv /\ [Next]_vars => LockInv'
  BY NextLockInv
<1>3. LockInv /\ [Next]_vars
        => [page.lock = "lost" /\ page'.mounted = page.mounted => ~RequestStarts]_vars
  BY NextLockInv
<1> QED BY <1>1, <1>2, <1>3, PTL DEF Spec, LockLossIsFinal
=============================================================================
