-------------------------- MODULE NoteEdits_proofs --------------------------
(***************************************************************************)
(* Proofs about NoteAutosave that follow the edits of the user and of the  *)
(* AI from the editor to the server: typed text stays in the editor, a     *)
(* flush and an editor that is gone have saved what was accepted, and the  *)
(* AI's edits are saved as the agent's.                                    *)
(***************************************************************************)
EXTENDS NoteAutosave_proofs
-----------------------------------------------------------------------------
(***************************************************************************)
(* What keeps typed text in the editor while the server merges: no body on *)
(* its way and no saved version has local edits the editor does not have,  *)
(* and a body under the newest revision has every local edit the editor    *)
(* has notified. Only a blocked editor notifies text without a revision,   *)
(* and from a block no request leaves any more.                            *)
(***************************************************************************)
Local(body) == body \cap LocalEdits

\* A body on its way belongs to an editor that has notified body under revision n.
Belongs(c, body, n) ==
  c # NoSave =>
    /\ Local(c.body) \subseteq body /\ c.revision <= n
    /\ c.revision = n => Local(body) \subseteq c.body

BesideRequest(p) ==
  /\ Belongs(p.scheduled, p.bodyRef, p.revision) /\ Belongs(p.unsaved, p.bodyRef, p.revision)
  /\ Belongs(p.pending, p.bodyRef, p.revision)
  /\ Belongs(p.retryTimer, p.bodyRef, p.revision) /\ Belongs(p.retryCandidate, p.bodyRef, p.revision)

TextIsHeld(p) ==
  /\ RequestIsTracked(p)
  /\ Local(p.bodyRef) \subseteq p.editor
  /\ IF p.block = "none" THEN BesideRequest(p) /\ Belongs(p.inflight, p.bodyRef, p.revision)
                         ELSE p.inflight = NoSave

\* The editor has notified its text, and the text has no revision yet.
Behind(c, body, n) == c # NoSave => Local(c.body) \subseteq body /\ c.revision <= n

Draft(p) ==
  /\ RequestIsTracked(p)
  /\ Local(p.bodyRef) \subseteq p.editor
  /\ IF p.block = "none"
     THEN Behind(p.pending, p.bodyRef, p.revision) /\ Behind(p.inflight, p.bodyRef, p.revision)
     ELSE p.inflight = NoSave

\* No text goes, and a request in flight stays the one that is answered.
Grows(p, q) ==
  /\ q.block = p.block /\ (p.inflight # NoSave => q.inflight = p.inflight)
  /\ Local(p.bodyRef) \subseteq q.bodyRef /\ Local(p.editor) \subseteq q.editor

LEMMA GrowsTwice ==
  ASSUME NEW p, NEW q, NEW r, Grows(p, q), Grows(q, r)
  PROVE  Grows(p, r)
BY DEF Grows, Local

LEMMA StillGrows ==
  ASSUME NEW p, NEW q, q.block = p.block, q.inflight = p.inflight, q.bodyRef = p.bodyRef, q.editor = p.editor
  PROVE  Grows(p, q)
BY DEF Grows, Local

LEMMA HeldIsDraft ==
  ASSUME NEW p, TextIsHeld(p)
  PROVE  Draft(p)
BY DEF TextIsHeld, BesideRequest, Belongs, Draft, Behind

\* A step that drops bodies.
LEMMA StillHeld ==
  ASSUME NEW p, TextIsHeld(p), NEW q,
         q.editor = p.editor, q.bodyRef = p.bodyRef, q.revision = p.revision, q.block = p.block,
         q.unsaved = p.unsaved, q.inflight = p.inflight, q.pending = p.pending, q.seq = p.seq, q.saves = p.saves,
         q.scheduled \in {p.scheduled, NoSave},
         q.retryTimer \in {p.retryTimer, NoSave}, q.retryCandidate \in {p.retryCandidate, NoSave}
  PROVE  TextIsHeld(q) /\ Grows(p, q)
<1>1. RequestIsTracked(q)
  BY DEF TextIsHeld, RequestIsTracked
<1>2. \A body, n : Belongs(NoSave, body, n)
  BY DEF Belongs
<1>3. BesideRequest(p) => BesideRequest(q)
  BY <1>2 DEF BesideRequest
<1> QED BY <1>1, <1>3, StillGrows DEF TextIsHeld

LEMMA TrackedText ==
  ASSUME NEW p, Sound(p), p.block # "session-expired", TextIsHeld(p), NEW c \in Candidate,
         c # NoSave, p.block = "none" => Belongs(c, p.bodyRef, p.revision)
  PROVE  LET q == TrackedFlushSave(p, c)
         IN  TextIsHeld(q) /\ Grows(p, q)
<1> DEFINE q == TrackedFlushSave(p, c)
<1>1. PICK save \in Candidate :
        /\ save.revision = c.revision /\ save.body = c.body
        /\ KeepsRest(p, q) /\ Blocking(p, q)
        /\ Refused(p, q) \/ Queued(p, q, save) \/ Sends(p, q, save)
  BY TrackedShape
<1>2. RequestIsTracked(q)
  BY TrackedRequest DEF TextIsHeld
<1>3. p.pending \in Candidate
  BY DEF Sound, Page
<1>4. /\ q.editor = p.editor /\ q.bodyRef = p.bodyRef /\ q.block = p.block
      /\ q.revision = p.revision /\ q.scheduled = p.scheduled /\ q.unsaved = p.unsaved
      /\ q.retryTimer = p.retryTimer /\ q.retryCandidate = p.retryCandidate
  BY <1>1 DEF KeepsRest, KeepsPage, Blocking
<1>5. \A d : d.body = c.body /\ d.revision = c.revision /\ p.block = "none" => Belongs(d, p.bodyRef, p.revision)
  BY DEF Belongs
<1> HIDE DEF q
<1>6. ASSUME Refused(p, q) PROVE TextIsHeld(q) /\ Grows(p, q)
  <2>1. q.inflight = p.inflight /\ q.pending = p.pending
    BY <1>6 DEF Refused
  <2> QED BY <1>2, <1>4, <2>1, StillGrows DEF TextIsHeld, BesideRequest
<1>7. ASSUME Queued(p, q, save) PROVE TextIsHeld(q) /\ Grows(p, q)
  <2>1. q.inflight = p.inflight /\ q.block = "none" /\ q.pending = MergePendingNoteSave(p.pending, save)
    BY <1>7 DEF Queued
  <2>2. q.pending.revision = c.revision /\ q.pending.body = c.body
    <3>1. /\ MergePendingNoteSave(p.pending, save).revision = save.revision
          /\ MergePendingNoteSave(p.pending, save).body = save.body
      BY <1>3, MergeType, MergeBody
    <3> QED BY <1>1, <2>1, <3>1
  <2>3. Belongs(q.pending, p.bodyRef, p.revision)
    BY <1>4, <1>5, <2>1, <2>2
  <2> QED BY <1>2, <1>4, <2>1, <2>3, StillGrows DEF TextIsHeld, BesideRequest
<1>8. ASSUME Sends(p, q, save) PROVE TextIsHeld(q) /\ Grows(p, q)
  <2>1. q.inflight = save /\ q.pending = p.pending /\ p.inflight = NoSave /\ q.block = "none"
    BY <1>8 DEF Sends, Starts
  <2>2. Belongs(save, p.bodyRef, p.revision)
    BY <1>1, <1>4, <1>5, <2>1
  <2>3. Grows(p, q)
    BY <1>4, <2>1 DEF Grows, Local
  <2> QED BY <1>2, <1>4, <2>1, <2>2, <2>3 DEF TextIsHeld, BesideRequest
<1> QED BY <1>1, <1>6, <1>7, <1>8 DEF q

LEMMA AcceptedText ==
  ASSUME NEW p, Sound(p), p.block # "session-expired", Draft(p), NEW a, NEW c \in Candidate,
         Accepted(p, a, c), c.body = p.bodyRef, a.scheduled \in {NoSave, c}
  PROVE  TextIsHeld(a) /\ Grows(p, a) /\ a.block = "none" /\ Belongs(c, a.bodyRef, a.revision)
<1>1. /\ a.editor = p.editor /\ a.bodyRef = p.bodyRef
      /\ a.inflight = p.inflight /\ a.pending = p.pending /\ a.seq = p.seq /\ a.saves = p.saves
      /\ a.block = "none" /\ p.block = "none" /\ a.revision = p.revision + 1 /\ c.revision = a.revision
      /\ a.unsaved = c /\ a.retryTimer = NoSave /\ a.retryCandidate = NoSave
  BY DEF Accepted, KeepsRequest, Blocking
<1>2. RequestIsTracked(a)
  BY <1>1 DEF Draft, RequestIsTracked
<1>3. p.revision \in Nat /\ p.pending.revision \in Nat /\ p.inflight.revision \in Nat
  BY PageTypes
<1>4. Belongs(c, a.bodyRef, a.revision) /\ Belongs(NoSave, a.bodyRef, a.revision)
  BY <1>1, <1>3 DEF Belongs, Local
<1>5. Belongs(a.pending, a.bodyRef, a.revision) /\ Belongs(a.inflight, a.bodyRef, a.revision)
  BY <1>1, <1>3 DEF Draft, Behind, Belongs
<1>6. TextIsHeld(a)
  BY <1>1, <1>2, <1>4, <1>5 DEF Draft, TextIsHeld, BesideRequest
<1> QED BY <1>1, <1>4, <1>6, StillGrows

LEMMA QueueText ==
  ASSUME NEW p, Sound(p), p.block # "session-expired", Draft(p),
         NEW source \in Sources, NEW op \in Ops \cup {NoOp}
  PROVE  LET q == QueueSave(p, p.bodyRef, source, op)
         IN  TextIsHeld(q) /\ Grows(p, q)
<1> DEFINE q == QueueSave(p, p.bodyRef, source, op)
<1>1. p.bodyRef \in SUBSET Edits
  BY DEF Sound, Page
<1>2. \/ q = p /\ p.block # "none"
      \/ \E c \in Candidate :
           /\ c.body = p.bodyRef
           /\ \/ Scheduled(p, q, c)
              \/ \E a : Sound(a) /\ Accepted(p, a, c) /\ a.scheduled = NoSave /\ q = TrackedFlushSave(a, c)
  BY <1>1, QueueShape
<1> HIDE DEF q
<1>3. CASE q = p /\ p.block # "none"
  BY <1>3, StillGrows DEF Draft, TextIsHeld, q
<1>4. ASSUME NEW c \in Candidate, c.body = p.bodyRef, Scheduled(p, q, c)
      PROVE  TextIsHeld(q) /\ Grows(p, q)
  BY <1>4, AcceptedText DEF Scheduled
<1>5. ASSUME NEW c \in Candidate, c.body = p.bodyRef, NEW a, Sound(a), Accepted(p, a, c), a.scheduled = NoSave,
             q = TrackedFlushSave(a, c)
      PROVE  TextIsHeld(q) /\ Grows(p, q)
  <2>1. TextIsHeld(a) /\ Grows(p, a) /\ a.block = "none" /\ Belongs(c, a.bodyRef, a.revision) /\ c # NoSave
    BY <1>5, AcceptedText DEF Accepted
  <2>2. TextIsHeld(q) /\ Grows(a, q)
    BY <1>5, <2>1, TrackedText
  <2> QED BY <2>1, <2>2, GrowsTwice
<1> QED BY <1>2, <1>3, <1>4, <1>5 DEF q

LEMMA SaveNowText ==
  ASSUME NEW p, Sound(p), p.block # "session-expired", TextIsHeld(p)
  PROVE  LET q == SaveNow(p, p.bodyRef)
         IN  TextIsHeld(q) /\ Grows(p, q)
<1> DEFINE q == SaveNow(p, p.bodyRef)
<1>1. p.bodyRef \in SUBSET Edits
  BY DEF Sound, Page
<1>2. \/ q = p /\ p.block # "none"
      \/ \E c \in Candidate :
           /\ c.body = p.bodyRef
           /\ \E a : Sound(a) /\ Accepted(p, a, c) /\ a.scheduled = NoSave /\ q = TrackedFlushSave(a, c)
  BY <1>1, SaveNowShape
<1> HIDE DEF q
<1>3. CASE q = p /\ p.block # "none"
  BY <1>3, StillGrows DEF q
<1>4. ASSUME NEW c \in Candidate, c.body = p.bodyRef, NEW a, Sound(a), Accepted(p, a, c), a.scheduled = NoSave,
             q = TrackedFlushSave(a, c)
      PROVE  TextIsHeld(q) /\ Grows(p, q)
  <2>1. TextIsHeld(a) /\ Grows(p, a) /\ a.block = "none" /\ Belongs(c, a.bodyRef, a.revision) /\ c # NoSave
    BY <1>4, HeldIsDraft, AcceptedText DEF Accepted
  <2>2. TextIsHeld(q) /\ Grows(a, q)
    BY <1>4, <2>1, TrackedText
  <2> QED BY <2>1, <2>2, GrowsTwice
<1> QED BY <1>2, <1>3, <1>4 DEF q

LEMMA BeforeFlushText ==
  ASSUME NEW p, Sound(p), p.block # "session-expired", TextIsHeld(p)
  PROVE  LET q == BeforeFlush(p)
         IN  TextIsHeld(q) /\ Grows(p, q)
<1> DEFINE m == [p EXCEPT !.bodyRef = p.editor]
<1>1. p.editor \in SUBSET Edits
  BY DEF Sound, Page
<1>2. /\ Sound(m) /\ m.inflight = p.inflight /\ m.seq = p.seq /\ m.saves = p.saves
      /\ m.pending = p.pending /\ m.editor = p.editor /\ m.bodyRef = p.editor
      /\ m.revision = p.revision /\ m.block = p.block
  BY <1>1 DEF Sound, UnsavedIsNewest, Page
<1>3. BeforeFlush(p) = (IF p.mounted /\ p.editor # p.bodyRef THEN QueueSave(m, m.bodyRef, "user", NoOp) ELSE p)
  BY <1>2 DEF BeforeFlush
<1> HIDE DEF m
<1>4. Draft(m) /\ Grows(p, m)
  <2>1. Draft(p) /\ Local(p.bodyRef) \subseteq p.editor
    BY HeldIsDraft DEF Draft
  <2>2. RequestIsTracked(m)
    BY <1>2, <2>1 DEF Draft, RequestIsTracked
  <2>3. \A c, n : Behind(c, p.bodyRef, n) => Behind(c, p.editor, n)
    BY <2>1 DEF Behind, Local
  <2> QED BY <1>2, <2>1, <2>2, <2>3 DEF Draft, Grows, Local
<1>5. "user" \in Sources /\ NoOp \in Ops \cup {NoOp}
  BY DEF Sources
<1>6. TextIsHeld(QueueSave(m, m.bodyRef, "user", NoOp)) /\ Grows(m, QueueSave(m, m.bodyRef, "user", NoOp))
  BY <1>2, <1>4, <1>5, QueueText
<1> QED BY <1>3, <1>4, <1>6, GrowsTwice, StillGrows

LEMMA ClearedText ==
  ASSUME NEW p, Sound(p), TextIsHeld(p)
  PROVE  LET q == ClearScheduledSave(p)
         IN  TextIsHeld(q) /\ Grows(p, q) /\ q.unsaved = p.unsaved /\ q.bodyRef = p.bodyRef /\ q.revision = p.revision
BY ClearScheduledShape, StillHeld DEF KeepsRequest

LEMMA FlushFieldText ==
  ASSUME NEW p, Sound(p), TextIsHeld(p), NEW f
  PROVE  LET q == [p EXCEPT !.flush = f]
         IN  TextIsHeld(q) /\ Grows(p, q)
<1> DEFINE q == [p EXCEPT !.flush = f]
<1>1. /\ q.revision = p.revision /\ q.editor = p.editor /\ q.bodyRef = p.bodyRef
      /\ q.scheduled = p.scheduled /\ q.unsaved = p.unsaved
      /\ q.retryTimer = p.retryTimer /\ q.retryCandidate = p.retryCandidate
      /\ q.block = p.block /\ q.inflight = p.inflight /\ q.pending = p.pending /\ q.seq = p.seq /\ q.saves = p.saves
  BY DEF Sound, Page
<1> HIDE DEF q
<1> QED BY <1>1, StillHeld DEF q

LEMMA FlushRoundText ==
  ASSUME NEW p, Sound(p), p.block # "session-expired", TextIsHeld(p)
  PROVE  TextIsHeld(FlushRound(p)) /\ Grows(p, FlushRound(p))
<1> DEFINE synced  == BeforeFlush(p)
           cleared == ClearScheduledSave(synced)
           sent    == TrackedFlushSave(cleared, synced.unsaved)
           q       == FlushRound(p)
<1>1. Sound(synced) /\ TextIsHeld(synced) /\ Grows(p, synced)
  BY BeforeFlushSound, BeforeFlushText
<1>2. synced.block # "session-expired" /\ synced.unsaved \in Candidate
  BY <1>1 DEF Grows, Sound, Page
<1>3. Unblocked(synced) = synced
  BY <1>1, <1>2, UnblockedSteady
<1>4. \/ \E f : q = [synced EXCEPT !.flush = f]
      \/ synced.unsaved # NoSave /\ \E f : q = [sent EXCEPT !.flush = f]
  BY <1>3 DEF FlushRound, EndFlush
<1> HIDE DEF q, synced
<1>5. /\ Sound(cleared) /\ TextIsHeld(cleared) /\ Grows(synced, cleared) /\ cleared.block = synced.block
      /\ synced.block = "none" => Belongs(synced.unsaved, cleared.bodyRef, cleared.revision)
  BY <1>1, ClearScheduledSound, ClearedText DEF Grows, TextIsHeld, BesideRequest
<1> HIDE DEF cleared
<1>6. CASE \E f : q = [synced EXCEPT !.flush = f]
  BY <1>1, <1>6, FlushFieldText, GrowsTwice DEF q
<1>7. CASE synced.unsaved # NoSave /\ \E f : q = [sent EXCEPT !.flush = f]
  <2>1. Sound(sent) /\ TextIsHeld(sent) /\ Grows(cleared, sent)
    BY <1>2, <1>5, <1>7, TrackedFlushSound, TrackedText
  <2> HIDE DEF sent
  <2>2. TextIsHeld(q) /\ Grows(sent, q)
    BY <1>7, <2>1, FlushFieldText
  <2>3. Grows(p, cleared)
    BY <1>1, <1>5, GrowsTwice
  <2>4. Grows(p, sent)
    BY <2>1, <2>3, GrowsTwice
  <2>5. Grows(p, q)
    BY <2>2, <2>4, GrowsTwice
  <2> QED BY <2>2, <2>5 DEF q
<1> QED BY <1>4, <1>6, <1>7

(* What an answer does. *)

\* What the end of a request keeps.
KeepsText(p, q) == q.editor = p.editor /\ q.bodyRef = p.bodyRef

LEMMA FinishText ==
  ASSUME NEW p, Sound(p), NEW saved \in BOOLEAN,
         p.mounted /\ p.status = "saved" => p.unsaved = NoSave,
         p.inflight # NoSave, p.seq \in p.saves.pending, Numbered(p.saves),
         p.block # "session-expired", Local(p.bodyRef) \subseteq p.editor,
         p.block = "none" => BesideRequest(p)
  PROVE  TextIsHeld(FinishRequest(p, saved)) /\ KeepsText(p, FinishRequest(p, saved))
         /\ FinishRequest(p, saved).block = p.block
<1> DEFINE q == FinishRequest(p, saved)
<1>1. /\ KeepsPage(p, q) /\ q.pending = NoSave
      /\ RequestIsTracked(q)
      /\ \/ Ends(p, q)
         \/ \E save \in Candidate :
              /\ save.revision = p.pending.revision /\ save.body = p.pending.body
              /\ PassesOn(p, q, save)
  BY FinishShape
<1> HIDE DEF q
<1>2. /\ q.editor = p.editor /\ q.bodyRef = p.bodyRef
      /\ q.revision = p.revision /\ q.scheduled = p.scheduled /\ q.unsaved = p.unsaved
      /\ q.retryTimer = p.retryTimer /\ q.retryCandidate = p.retryCandidate
  BY <1>1 DEF KeepsPage
<1>3. Belongs(NoSave, p.bodyRef, p.revision)
  BY DEF Belongs
<1>4. ASSUME Ends(p, q) PROVE TextIsHeld(q) /\ q.block = p.block
  <2>1. q.inflight = NoSave /\ q.block = p.block
    BY <1>4 DEF Ends
  <2> QED BY <1>1, <1>2, <1>3, <2>1 DEF TextIsHeld, BesideRequest
<1>5. ASSUME NEW save \in Candidate, save.revision = p.pending.revision, save.body = p.pending.body,
             PassesOn(p, q, save)
      PROVE  TextIsHeld(q) /\ q.block = p.block
  <2>1. q.inflight = save /\ q.block = "none" /\ p.block = "none" /\ p.pending # NoSave
    BY <1>5 DEF PassesOn
  <2>2. Belongs(save, p.bodyRef, p.revision)
    BY <1>5, <2>1 DEF BesideRequest, Belongs
  <2> QED BY <1>1, <1>2, <1>3, <2>1, <2>2 DEF TextIsHeld, BesideRequest
<1> QED BY <1>1, <1>2, <1>4, <1>5 DEF q, KeepsText

\* No typed text goes.
TextStays(p, q) == Local(p.bodyRef) \subseteq q.bodyRef /\ Local(p.editor) \subseteq q.editor

LEMMA SavedText ==
  ASSUME NEW p, Sound(p), p.block # "session-expired", TextIsHeld(p), p.inflight # NoSave, NEW answer \in Reply,
         p.inflight.body \subseteq answer.body, Local(answer.body) \subseteq p.bodyRef
  PROVE  /\ TextIsHeld(OnSaved(p, answer)) /\ TextStays(p, OnSaved(p, answer))
         /\ OnSaved(p, answer).block = "none"
<1>1. PICK r : OnSaved(p, answer) = FinishRequest(r, TRUE) /\ Saves(p, r, answer)
  BY SavedShape
<1>2. /\ Sound(r) /\ (r.mounted /\ r.status = "saved" => r.unsaved = NoSave)
      /\ r.inflight = p.inflight /\ r.seq = p.seq /\ r.saves = p.saves /\ r.pending = p.pending
      /\ IF Merging(p, answer)
         THEN r.editor = answer.body \cup (p.editor \ p.bodyRef) /\ r.bodyRef = r.editor
         ELSE r.editor = p.editor /\ r.bodyRef = p.bodyRef
      /\ \/ Settles(p, r) /\ (Merging(p, answer) => p.editor \subseteq p.bodyRef \/ p.block # "none")
         \/ Merging(p, answer) /\ \E c \in Candidate : QueuesAgain(p, r, c)
  BY <1>1 DEF Saves
<1>3. r.inflight # NoSave /\ r.seq \in r.saves.pending /\ Numbered(r.saves)
  BY <1>2 DEF TextIsHeld, RequestIsTracked
<1>4. /\ p.block = "none" /\ BesideRequest(p) /\ Belongs(p.inflight, p.bodyRef, p.revision)
      /\ Local(p.bodyRef) \subseteq p.editor
  BY DEF TextIsHeld
<1>5. Merging(p, answer) => p.pending = NoSave /\ Local(p.bodyRef) \subseteq answer.body
  BY <1>4 DEF Merging, IsLatestEdit, Belongs
<1>6. TextStays(p, r) /\ Local(r.bodyRef) \subseteq r.editor
  <2>1. CASE Merging(p, answer)
    BY <1>2, <1>5, <2>1 DEF TextStays, Local
  <2>2. CASE ~Merging(p, answer)
    BY <1>2, <1>4, <2>2 DEF TextStays, Local
  <2> QED BY <2>1, <2>2
<1>7. \A body, n : Belongs(NoSave, body, n)
  BY DEF Belongs
<1>8. r.block = "none" /\ BesideRequest(r)
  <2>1. CASE Settles(p, r)
    <3>1. /\ r.revision = p.revision /\ r.scheduled = p.scheduled /\ r.block = p.block
          /\ r.unsaved \in {p.unsaved, NoSave}
          /\ r.retryTimer \in {p.retryTimer, NoSave} /\ r.retryCandidate \in {p.retryCandidate, NoSave}
      BY <2>1 DEF Settles
    <3>2. Local(r.bodyRef) = Local(p.bodyRef)
      <4>1. CASE Merging(p, answer)
        <5>1. p.editor \subseteq p.bodyRef \/ p.block # "none"
          <6>1. ~(\E c \in Candidate : QueuesAgain(p, r, c))
            BY <3>1, PageTypes DEF QueuesAgain
          <6> QED BY <1>2, <4>1, <6>1
        <5> QED BY <1>2, <1>4, <1>5, <4>1, <5>1 DEF Local
      <4>2. CASE ~Merging(p, answer)
        BY <1>2, <4>2
      <4> QED BY <4>1, <4>2
    <3>3. \A c, n : Belongs(c, p.bodyRef, n) => Belongs(c, r.bodyRef, n)
      BY <3>2 DEF Belongs, Local
    <3> QED BY <1>2, <1>4, <1>7, <3>1, <3>3 DEF BesideRequest
  <2>2. CASE Merging(p, answer) /\ \E c \in Candidate : QueuesAgain(p, r, c)
    <3>1. PICK c \in Candidate : QueuesAgain(p, r, c)
      BY <2>2
    <3>2. /\ c.body = r.bodyRef /\ r.revision = c.revision /\ r.scheduled = c /\ r.unsaved = c
          /\ r.retryTimer = NoSave /\ r.retryCandidate = NoSave /\ r.block = "none" /\ r.pending = NoSave
      BY <1>2, <1>5, <2>2, <3>1 DEF QueuesAgain
    <3>3. Belongs(c, r.bodyRef, r.revision)
      BY <1>2, <3>2, PageTypes DEF Belongs, Local
    <3> QED BY <1>7, <3>2, <3>3 DEF BesideRequest
  <2> QED BY <1>2, <2>1, <2>2
<1>9. TextIsHeld(FinishRequest(r, TRUE)) /\ KeepsText(r, FinishRequest(r, TRUE)) /\ FinishRequest(r, TRUE).block = "none"
  BY <1>2, <1>3, <1>6, <1>8, FinishText
<1> QED BY <1>1, <1>6, <1>9 DEF TextStays, KeepsText

LEMMA FailsText ==
  ASSUME NEW p, Sound(p), p.block # "session-expired", TextIsHeld(p), p.inflight # NoSave, NEW r,
         Sound(r), BadgeIsTrue(r), KeepsCall(p, r), r.block = p.block,
         \/ r.pending.revision = p.pending.revision /\ r.pending.body = p.pending.body
         \/ r.pending \in {NoSave, p.inflight},
         p.pending = NoSave => r.pending \in {NoSave, p.inflight},
         r.retryTimer \in {p.retryTimer, p.inflight, NoSave},
         r.retryCandidate \in {p.retryCandidate, p.inflight, NoSave}
  PROVE  /\ TextIsHeld(FinishRequest(r, FALSE)) /\ KeepsText(p, FinishRequest(r, FALSE))
         /\ FinishRequest(r, FALSE).block = p.block
<1>1. /\ p.block = "none" /\ BesideRequest(p) /\ Belongs(p.inflight, p.bodyRef, p.revision)
      /\ Local(p.bodyRef) \subseteq p.editor
  BY DEF TextIsHeld
<1>2. /\ r.editor = p.editor /\ r.bodyRef = p.bodyRef /\ r.revision = p.revision /\ r.scheduled = p.scheduled
      /\ r.unsaved = p.unsaved /\ r.inflight = p.inflight /\ r.seq = p.seq /\ r.saves = p.saves
  BY DEF KeepsCall
<1>3. r.inflight # NoSave /\ r.seq \in r.saves.pending /\ Numbered(r.saves)
  BY <1>2 DEF TextIsHeld, RequestIsTracked
<1>4. Belongs(NoSave, p.bodyRef, p.revision)
  BY DEF Belongs
<1>5. Belongs(r.pending, p.bodyRef, p.revision)
  <2>1. CASE r.pending \in {NoSave, p.inflight}
    BY <1>1, <1>4, <2>1
  <2>2. CASE r.pending \notin {NoSave, p.inflight}
    BY <1>1, <2>2 DEF BesideRequest, Belongs
  <2> QED BY <2>1, <2>2
<1>6. BesideRequest(r)
  BY <1>1, <1>2, <1>4, <1>5 DEF BesideRequest
<1>7. /\ TextIsHeld(FinishRequest(r, FALSE)) /\ KeepsText(r, FinishRequest(r, FALSE))
      /\ FinishRequest(r, FALSE).block = p.block
  BY <1>1, <1>2, <1>3, <1>6, FinishText DEF BadgeIsTrue
<1> QED BY <1>2, <1>7 DEF KeepsText

LEMMA ConflictText ==
  ASSUME NEW p, Sound(p), BadgeIsTrue(p), p.block # "session-expired", TextIsHeld(p), p.inflight # NoSave,
         NEW latest \in Nat
  PROVE  TextIsHeld(OnConflict(p, latest)) /\ KeepsText(p, OnConflict(p, latest)) /\ OnConflict(p, latest).block = p.block
<1>1. PICK r : OnConflict(p, latest) = FinishRequest(r, FALSE) /\ Fails(p, r)
  BY ConflictShape
<1>2. /\ Sound(r) /\ BadgeIsTrue(r) /\ KeepsCall(p, r) /\ r.block = p.block
      /\ r.retryTimer = p.retryTimer /\ r.retryCandidate = p.retryCandidate
      /\ r.pending = p.pending \/ (p.pending = NoSave /\ r.pending = p.inflight)
  BY <1>1 DEF Fails, KeepsRetry
<1> QED BY <1>1, <1>2, FailsText

LEMMA FailedText ==
  ASSUME NEW p, Sound(p), p.block # "session-expired", TextIsHeld(p), p.inflight # NoSave
  PROVE  TextIsHeld(OnFailed(p)) /\ KeepsText(p, OnFailed(p)) /\ OnFailed(p).block = p.block
<1>1. PICK r : /\ OnFailed(p) = FinishRequest(r, FALSE)
               /\ IF p.inflight.source = "agent" THEN AgentFails(p, r) ELSE Fails(p, r)
  BY FailedShape
<1>2. CASE p.inflight.source # "agent"
  <2>1. /\ Sound(r) /\ BadgeIsTrue(r) /\ KeepsCall(p, r) /\ r.block = p.block
        /\ r.retryTimer = p.retryTimer /\ r.retryCandidate = p.retryCandidate
        /\ r.pending = p.pending \/ (p.pending = NoSave /\ r.pending = p.inflight)
    BY <1>1, <1>2 DEF Fails, KeepsRetry
  <2> QED BY <1>1, <2>1, FailsText
<1>3. CASE p.inflight.source = "agent"
  <2>1. /\ Sound(r) /\ BadgeIsTrue(r) /\ KeepsCall(p, r) /\ r.block = p.block
        /\ r.pending = PromoteAfterAgentFailure(p.pending)
        /\ r.retryTimer \in {p.retryTimer, p.inflight}
        /\ r.retryCandidate \in {p.retryCandidate, p.inflight, NoSave}
    BY <1>1, <1>3 DEF AgentFails
  <2>2. p.pending \in Candidate
    BY DEF Sound, Page
  <2>3. IF p.pending = NoSave THEN r.pending = NoSave
        ELSE r.pending.revision = p.pending.revision /\ r.pending.body = p.pending.body
    BY <2>1, <2>2 DEF PromoteAfterAgentFailure, Candidate
  <2> QED BY <1>1, <2>1, <2>3, FailsText
<1> QED BY <1>2, <1>3

LEMMA BlockedText ==
  ASSUME NEW p, Sound(p), p.block # "session-expired", TextIsHeld(p), p.inflight # NoSave
  PROVE  /\ TextIsHeld(OnBlocked(p, "lock-lost")) /\ KeepsText(p, OnBlocked(p, "lock-lost"))
         /\ OnBlocked(p, "lock-lost").block = "lock-lost"
<1>1. PICK r : OnBlocked(p, "lock-lost") = FinishRequest(r, FALSE) /\ Blocked(p, r, "lock-lost")
  BY BlockedShape
<1>2. /\ Sound(r) /\ BadgeIsTrue(r) /\ r.editor = p.editor /\ r.bodyRef = p.bodyRef
      /\ r.inflight = p.inflight /\ r.seq = p.seq /\ r.saves = p.saves /\ r.block = "lock-lost"
  BY <1>1 DEF Blocked, KeepsCall
<1>3. r.inflight # NoSave /\ r.seq \in r.saves.pending /\ Numbered(r.saves) /\ Local(r.bodyRef) \subseteq r.editor
  BY <1>2 DEF TextIsHeld, RequestIsTracked
<1>4. /\ TextIsHeld(FinishRequest(r, FALSE)) /\ KeepsText(r, FinishRequest(r, FALSE))
      /\ FinishRequest(r, FALSE).block = "lock-lost"
  BY <1>2, <1>3, FinishText DEF BadgeIsTrue
<1> QED BY <1>1, <1>2, <1>4 DEF KeepsText

(* The steps. *)

TextInv ==
  /\ LockInv /\ AnswersARequest /\ TextIsHeld(page)
  /\ page.block = "none" => Local(Current) \subseteq page.bodyRef
  /\ reply.kind = "ok" => page.inflight.body \subseteq reply.body /\ Local(reply.body) \subseteq page.bodyRef

LEMMA TextPage ==
  ASSUME TextInv
  PROVE  Sound(page) /\ BadgeIsTrue(page) /\ page.block # "session-expired" /\ TextIsHeld(page) /\ reply \in Reply
BY DEF TextInv, LockInv, IInv, PageIsSound, RestTypeOK

LEMMA AnsweredText ==
  ASSUME TextInv, Answered
  PROVE  /\ TextIsHeld(page') /\ TextStays(page, page') /\ (page'.block = "none" => page.block = "none")
         /\ reply' = NoReply
<1>1. Sound(page) /\ BadgeIsTrue(page) /\ page.block # "session-expired" /\ TextIsHeld(page) /\ reply \in Reply
  BY TextPage
<1>2. page.inflight # NoSave /\ reply' = NoReply
  BY DEF TextInv, AnswersARequest, Answered, SaveSucceeds, SaveConflicts, SaveFails, SaveForbidden, SaveUnauthorized,
         NoReply
<1>3. page.block = "none"
  BY <1>1, <1>2 DEF TextIsHeld
<1>4. ASSUME KeepsText(page, page') PROVE TextStays(page, page')
  <2>1. Local(page.bodyRef) \subseteq page.bodyRef /\ Local(page.editor) \subseteq page.editor
    BY DEF Local
  <2> QED BY <1>4, <2>1 DEF KeepsText, TextStays
<1>5. CASE SaveSucceeds
  <2>1. /\ page' = OnSaved(page, reply) /\ page.inflight.body \subseteq reply.body
        /\ Local(reply.body) \subseteq page.bodyRef
    BY <1>5 DEF SaveSucceeds, TextInv
  <2> QED BY <1>1, <1>2, <1>3, <2>1, SavedText
<1>6. CASE SaveConflicts
  <2>1. PICK latest \in Nat : page' = OnConflict(page, latest)
    BY <1>1, <1>6 DEF SaveConflicts, Reply
  <2> QED BY <1>1, <1>2, <1>3, <1>4, <2>1, ConflictText
<1>7. CASE SaveFails
  <2>1. page' = OnFailed(page)
    BY <1>7 DEF SaveFails
  <2> QED BY <1>1, <1>2, <1>3, <1>4, <2>1, FailedText
<1>8. CASE SaveForbidden
  <2>1. page' = OnBlocked(page, "lock-lost")
    BY <1>8 DEF SaveForbidden
  <2> QED BY <1>1, <1>2, <1>3, <1>4, <2>1, BlockedText
<1> QED BY <1>5, <1>6, <1>7, <1>8 DEF Answered, SaveUnauthorized, TextInv, LockInv

LEMMA TimerText ==
  ASSUME Sound(page), page.block # "session-expired", TextIsHeld(page),
         MarkdownUpdated \/ DebounceFires \/ AgentRetryFires \/ SaveShortcut
  PROVE  TextIsHeld(page') /\ Grows(page, page')
<1>1. page.scheduled \in Candidate /\ page.retryTimer \in Candidate
  BY DEF Sound, Page
<1>2. CASE MarkdownUpdated
  <2>1. page' = BeforeFlush(page)
    BY <1>2 DEF MarkdownUpdated, BeforeFlush
  <2> QED BY <2>1, BeforeFlushText
<1>3. page.block = "none" => /\ Belongs(page.scheduled, page.bodyRef, page.revision)
                             /\ Belongs(page.retryTimer, page.bodyRef, page.revision)
  BY DEF TextIsHeld, BesideRequest
<1>4. CASE DebounceFires
  <2> DEFINE p == [page EXCEPT !.timer = "off", !.scheduled = NoSave]
  <2>1. /\ Sound(p) /\ p.editor = page.editor /\ p.bodyRef = page.bodyRef
        /\ p.revision = page.revision /\ p.scheduled = NoSave /\ p.unsaved = page.unsaved
        /\ p.retryTimer = page.retryTimer /\ p.retryCandidate = page.retryCandidate
        /\ p.block = page.block /\ KeepsRequest(page, p)
    BY NoSaveType DEF Sound, UnsavedIsNewest, Page, KeepsRequest
  <2>2. page' = (IF page.scheduled = NoSave THEN p ELSE TrackedFlushSave(p, page.scheduled))
    BY <1>4 DEF DebounceFires
  <2> HIDE DEF p
  <2>3. TextIsHeld(p) /\ Grows(page, p)
    BY <2>1, StillHeld DEF KeepsRequest
  <2>4. CASE page.scheduled # NoSave
    <3>1. TextIsHeld(page') /\ Grows(p, page')
      BY <1>1, <1>3, <2>1, <2>2, <2>3, <2>4, TrackedText
    <3> QED BY <2>3, <3>1, GrowsTwice
  <2> QED BY <2>2, <2>3, <2>4
<1>5. CASE AgentRetryFires
  <2> DEFINE p == CancelAgentRetry(page)
  <2>1. /\ Sound(p) /\ p.editor = page.editor /\ p.bodyRef = page.bodyRef
        /\ p.revision = page.revision /\ p.scheduled = page.scheduled /\ p.unsaved = page.unsaved
        /\ p.retryTimer = NoSave /\ p.retryCandidate = NoSave
        /\ p.block = page.block /\ KeepsRequest(page, p)
    BY CancelSound, CancelShape
  <2>2. page' = (IF p.block # "none" THEN p ELSE TrackedFlushSave(p, page.retryTimer)) /\ page.retryTimer # NoSave
    BY <1>5 DEF AgentRetryFires
  <2> HIDE DEF p
  <2>3. TextIsHeld(p) /\ Grows(page, p)
    BY <2>1, StillHeld DEF KeepsRequest
  <2>4. CASE p.block = "none"
    <3>1. TextIsHeld(page') /\ Grows(p, page')
      BY <1>1, <1>3, <2>1, <2>2, <2>3, <2>4, TrackedText
    <3> QED BY <2>3, <3>1, GrowsTwice
  <2> QED BY <2>2, <2>3, <2>4
<1>6. CASE SaveShortcut
  BY <1>6, SaveNowText DEF SaveShortcut
<1> QED BY <1>2, <1>4, <1>5, <1>6

LEMMA EditText ==
  ASSUME Sound(page), page.block # "session-expired", TextIsHeld(page),
         Type \/ ToggleAutoSave \/ \E op \in Ops : ApplyMarkdown(op)
  PROVE  TextIsHeld(page') /\ Grows(page, page')
<1>1. page.editor \in SUBSET Edits /\ Local(page.bodyRef) \subseteq page.editor
  BY DEF Sound, Page, TextIsHeld
<1>2. CASE Type
  <2> DEFINE body == page.editor \cup {NextEdit}
             q    == [page EXCEPT !.editor = body]
  <2>1. page' = q
    BY <1>2 DEF Type
  <2>2. page.editor \subseteq body
    OBVIOUS
  <2> HIDE DEF body
  <2>3. /\ q.editor = body /\ q.bodyRef = page.bodyRef /\ q.revision = page.revision
        /\ q.scheduled = page.scheduled /\ q.unsaved = page.unsaved
        /\ q.retryTimer = page.retryTimer /\ q.retryCandidate = page.retryCandidate
        /\ q.block = page.block /\ KeepsRequest(page, q)
    BY DEF Sound, Page, KeepsRequest
  <2> HIDE DEF q
  <2>4. RequestIsTracked(q)
    BY <2>3 DEF TextIsHeld, RequestIsTracked, KeepsRequest
  <2>5. TextIsHeld(q)
    BY <1>1, <2>2, <2>3, <2>4 DEF TextIsHeld, BesideRequest, KeepsRequest
  <2>6. Grows(page, q)
    BY <2>2, <2>3 DEF Grows, Local, KeepsRequest
  <2> QED BY <2>1, <2>5, <2>6
<1>3. CASE ToggleAutoSave
  <2>1. PICK on, timer : page' = [page EXCEPT !.autoSave = on, !.timer = timer]
    BY <1>3 DEF ToggleAutoSave
  <2> DEFINE q == [page EXCEPT !.autoSave = on, !.timer = timer]
  <2>2. /\ q.editor = page.editor /\ q.bodyRef = page.bodyRef /\ q.revision = page.revision
        /\ q.scheduled = page.scheduled /\ q.unsaved = page.unsaved
        /\ q.retryTimer = page.retryTimer /\ q.retryCandidate = page.retryCandidate
        /\ q.block = page.block /\ KeepsRequest(page, q)
    BY DEF Sound, Page, KeepsRequest
  <2> HIDE DEF q
  <2>3. TextIsHeld(q) /\ Grows(page, q)
    BY <2>2, StillHeld DEF KeepsRequest
  <2> QED BY <2>1, <2>3 DEF q
<1>4. ASSUME NEW op \in Ops, ApplyMarkdown(op) PROVE TextIsHeld(page') /\ Grows(page, page')
  <2> DEFINE body == page.editor \cup {NextEdit}
             m    == [page EXCEPT !.editor = body, !.bodyRef = body]
  <2>1. page' = QueueSave(m, body, "agent", op) /\ NextEdit \in LocalEdits
    BY <1>4 DEF ApplyMarkdown
  <2>2. body \in SUBSET Edits /\ page.editor \subseteq body
    BY <1>1, <2>1, EditsAssumption
  <2> HIDE DEF body
  <2>3. /\ Sound(m) /\ m.editor = body /\ m.bodyRef = body /\ m.revision = page.revision
        /\ m.block = page.block /\ KeepsRequest(page, m)
    BY <2>2 DEF Sound, UnsavedIsNewest, Page, KeepsRequest
  <2> HIDE DEF m
  <2>4. Draft(m) /\ Grows(page, m)
    <3>1. Draft(page)
      BY HeldIsDraft
    <3>2. RequestIsTracked(m)
      BY <2>3, <3>1 DEF Draft, RequestIsTracked, KeepsRequest
    <3>3. Local(page.bodyRef) \subseteq body /\ Local(body) \subseteq body /\ Local(page.editor) \subseteq body
      BY <1>1, <2>2 DEF Local
    <3>4. \A c, n : Behind(c, page.bodyRef, n) => Behind(c, body, n)
      BY <3>3 DEF Behind, Local
    <3> QED BY <2>3, <3>1, <3>2, <3>3, <3>4 DEF Draft, Grows, KeepsRequest
  <2>5. "agent" \in Sources /\ op \in Ops \cup {NoOp}
    BY DEF Sources
  <2>6. TextIsHeld(page') /\ Grows(m, page')
    BY <2>1, <2>3, <2>4, <2>5, QueueText
  <2> QED BY <2>4, <2>6, GrowsTwice
<1> QED BY <1>2, <1>3, <1>4

LEMMA DetachedBelongs ==
  ASSUME NEW c \in Candidate, NEW d \in Candidate, NEW body, NEW n, Belongs(c, body, n), Belongs(d, body, n)
  PROVE  LET x == SelectDetachedSaveCandidate(c, d)
         IN  x \in Candidate /\ Belongs(x, body, n)
<1> DEFINE x == SelectDetachedSaveCandidate(c, d)
<1>1. \/ x = c \/ x = d
      \/ x = MergePendingNoteSave(c, d) /\ d # NoSave
      \/ x = MergePendingNoteSave(d, c) /\ c # NoSave
  BY DEF SelectDetachedSaveCandidate
<1> HIDE DEF x
<1>2. CASE x = MergePendingNoteSave(c, d) /\ d # NoSave
  <2>1. /\ MergePendingNoteSave(c, d) \in Candidate /\ MergePendingNoteSave(c, d).revision = d.revision
        /\ MergePendingNoteSave(c, d).body = d.body
    BY MergeType, MergeBody
  <2> QED BY <1>2, <2>1 DEF Belongs, x
<1>3. CASE x = MergePendingNoteSave(d, c) /\ c # NoSave
  <2>1. /\ MergePendingNoteSave(d, c) \in Candidate /\ MergePendingNoteSave(d, c).revision = c.revision
        /\ MergePendingNoteSave(d, c).body = c.body
    BY MergeType, MergeBody
  <2> QED BY <1>3, <2>1 DEF Belongs, x
<1> QED BY <1>1, <1>2, <1>3 DEF x

\* A refusal tracked as a save that failed at once.
LEMMA SettledText ==
  ASSUME NEW p, Sound(p), TextIsHeld(p)
  PROVE  LET q == [p EXCEPT !.saves = TrackSettled(@, FALSE)]
         IN  TextIsHeld(q) /\ Grows(p, q)
<1> DEFINE q == [p EXCEPT !.saves = TrackSettled(@, FALSE)]
<1>1. /\ q.editor = p.editor /\ q.bodyRef = p.bodyRef /\ q.revision = p.revision
      /\ q.scheduled = p.scheduled /\ q.unsaved = p.unsaved
      /\ q.retryTimer = p.retryTimer /\ q.retryCandidate = p.retryCandidate
      /\ q.inflight = p.inflight /\ q.seq = p.seq /\ q.pending = p.pending /\ q.block = p.block
      /\ q.saves = TrackSettled(p.saves, FALSE)
  BY DEF Sound, Page
<1>2. p.saves \in DocumentSaveState /\ Numbered(p.saves)
  BY DEF Sound, Page, TextIsHeld, RequestIsTracked
<1>3. /\ Numbered(Track(p.saves)) /\ p.saves.pending \subseteq Track(p.saves).pending
      /\ Track(p.saves) \in DocumentSaveState /\ p.saves.sequence + 1 \in Nat
      /\ \A n \in p.saves.pending : n # p.saves.sequence + 1
  BY <1>2, TrackNumbered, TrackType DEF DocumentSaveState
<1>4. /\ Numbered(TrackSettled(p.saves, FALSE))
      /\ \A n \in Track(p.saves).pending : n # p.saves.sequence + 1 => n \in TrackSettled(p.saves, FALSE).pending
  BY <1>3, SettleNumbered DEF TrackSettled
<1> HIDE DEF q
<1>5. RequestIsTracked(q)
  BY <1>1, <1>3, <1>4 DEF TextIsHeld, RequestIsTracked
<1> QED BY <1>1, <1>5, StillGrows DEF TextIsHeld, BesideRequest, q

LEMMA UnmountText ==
  ASSUME Sound(page), page.block # "session-expired", TextIsHeld(page), Unmount
  PROVE  TextIsHeld(page') /\ Grows(page, page')
<1> DEFINE waiting  == IF page.scheduled # NoSave THEN page.scheduled
                       ELSE IF page.inflight = NoSave THEN page.unsaved ELSE NoSave
           detached == SelectDetachedSaveCandidate(waiting, page.retryCandidate)
           away     == [page EXCEPT !.mounted = FALSE]
           cleared  == ClearScheduledSave(away)
           settled  == [cleared EXCEPT !.saves = TrackSettled(@, FALSE)]
<1>1. page.scheduled \in Candidate /\ page.unsaved \in Candidate /\ page.retryCandidate \in Candidate
  BY DEF Sound, Page
<1>2. /\ waiting \in Candidate
      /\ page.block = "none" => Belongs(waiting, page.bodyRef, page.revision)
  BY <1>1, NoSaveType DEF TextIsHeld, BesideRequest, Belongs
<1> HIDE DEF waiting
<1>3. /\ detached \in Candidate
      /\ page.block = "none" => Belongs(detached, page.bodyRef, page.revision)
  <2>1. page.block = "none" => Belongs(page.retryCandidate, page.bodyRef, page.revision)
    BY DEF TextIsHeld, BesideRequest
  <2>2. detached \in Candidate
    BY <1>1, <1>2, MergeType, NoSaveType DEF SelectDetachedSaveCandidate
  <2> QED BY <1>1, <1>2, <2>1, <2>2, DetachedBelongs
<1> HIDE DEF detached
<1>4. /\ Sound(away) /\ KeepsRequest(page, away) /\ away.editor = page.editor /\ away.bodyRef = page.bodyRef
      /\ away.revision = page.revision /\ away.scheduled = page.scheduled /\ away.unsaved = page.unsaved
      /\ away.retryTimer = page.retryTimer /\ away.retryCandidate = page.retryCandidate /\ away.block = page.block
  BY DEF Sound, UnsavedIsNewest, Page, KeepsRequest
<1> HIDE DEF away
<1>5. TextIsHeld(away) /\ Grows(page, away)
  BY <1>4, StillHeld DEF KeepsRequest
<1>6. /\ Sound(cleared) /\ TextIsHeld(cleared) /\ Grows(page, cleared) /\ cleared.block = page.block
      /\ cleared.bodyRef = page.bodyRef /\ cleared.revision = page.revision
  BY <1>4, <1>5, ClearScheduledSound, ClearedText, GrowsTwice DEF Grows
<1>7. Unblocked(cleared) = cleared
  BY <1>6, UnblockedSteady
<1>8. \/ page' \in {cleared, settled}
      \/ page' = TrackedFlushSave(cleared, detached) /\ detached # NoSave
  BY <1>7 DEF Unmount, waiting, detached, away
<1> HIDE DEF cleared
<1>9. TextIsHeld(settled) /\ Grows(page, settled)
  BY <1>6, SettledText, GrowsTwice
<1> HIDE DEF settled
<1>10. ASSUME detached # NoSave
       PROVE  TextIsHeld(TrackedFlushSave(cleared, detached)) /\ Grows(page, TrackedFlushSave(cleared, detached))
  BY <1>3, <1>6, <1>10, TrackedText, GrowsTwice
<1> QED BY <1>6, <1>8, <1>9, <1>10

LEMMA FlushText ==
  ASSUME Sound(page), page.block # "session-expired", TextIsHeld(page), StartFlush \/ ContinueFlush
  PROVE  TextIsHeld(page') /\ Grows(page, page')
<1>1. CASE StartFlush
  <2> DEFINE synced  == BeforeFlush(page)
             cleared == ClearScheduledSave(synced)
  <2>1. Sound(synced) /\ TextIsHeld(synced) /\ Grows(page, synced)
    BY BeforeFlushSound, BeforeFlushText
  <2>2. \/ \E f : page' = [cleared EXCEPT !.flush = f]
        \/ \E f : page' = [page EXCEPT !.flush = f]
    BY <1>1 DEF StartFlush
  <2> HIDE DEF synced
  <2>3. Sound(cleared) /\ TextIsHeld(cleared) /\ Grows(page, cleared)
    BY <2>1, ClearScheduledSound, ClearedText, GrowsTwice
  <2> HIDE DEF cleared
  <2> QED BY <2>2, <2>3, FlushFieldText, GrowsTwice
<1>2. CASE ContinueFlush
  <2>1. page' = FlushRound(page) \/ \E f : page' = [page EXCEPT !.flush = f]
    BY <1>2 DEF ContinueFlush, EndFlush
  <2> QED BY <2>1, FlushRoundText, FlushFieldText
<1> QED BY <1>1, <1>2

\* What the server stores and answers holds no local edit the editor has not notified.
LEMMA ServerText ==
  ASSUME TextInv, Server
  PROVE  /\ page' = page
         /\ page'.block = "none" => Local(Current)' \subseteq page'.bodyRef
         /\ reply'.kind = "ok" =>
              page'.inflight.body \subseteq reply'.body /\ Local(reply'.body) \subseteq page'.bodyRef
<1>1. page' = page /\ page.inflight # NoSave
  BY DEF Server, ServerCommits, ServerConflicts, RequestLost, ServerForbids, SessionRefuses, Waiting
<1>2. /\ bodies \in Seq(SUBSET Edits) /\ Current \in SUBSET Edits /\ page.inflight.body \in SUBSET Edits
      /\ TextIsHeld(page)
  BY CurrentType DEF TextInv, LockInv, IInv, RestTypeOK, PageIsSound, Sound, Page, Candidate
<1>3. /\ page.block = "none" /\ Local(page.inflight.body) \subseteq page.bodyRef
      /\ Local(Current) \subseteq page.bodyRef
  BY <1>1, <1>2 DEF TextIsHeld, Belongs, TextInv
<1>4. CASE ServerCommits
  <2>1. PICK saved \in Commit(page.inflight.body, page.base) :
          /\ bodies' = Append(bodies, saved.body)
          /\ \/ reply' = [kind |-> "ok", version |-> Len(bodies) + 1,
                          merge |-> saved.merge, body |-> saved.body]
             \/ reply' = [NoReply EXCEPT !.kind = "failed"]
    BY <1>4 DEF ServerCommits
  <2>2. saved.body \in {page.inflight.body, page.inflight.body \cup (Current \ bodies[page.base])}
    BY <2>1 DEF Commit
  <2>3. /\ saved.body \in SUBSET Edits /\ page.inflight.body \subseteq saved.body
        /\ Local(saved.body) \subseteq page.bodyRef
    BY <1>2, <1>3, <2>2 DEF Local
  <2>4. Len(bodies') = Len(bodies) + 1 /\ bodies'[Len(bodies) + 1] = saved.body
    BY <1>2, <2>1, <2>3
  <2>5. Current' = saved.body
    BY <2>4 DEF Current
  <2>6. Local(Current)' = Local(saved.body)
    BY <2>5 DEF Local
  <2>7. reply'.kind = "ok" => reply'.body = saved.body
    BY <2>1 DEF NoReply
  <2> QED BY <1>1, <2>3, <2>6, <2>7
<1>5. CASE ~ServerCommits
  <2>1. bodies' = bodies /\ reply'.kind # "ok"
    BY <1>5 DEF Server, ServerConflicts, RequestLost, ServerForbids, SessionRefuses, NoReply
  <2>2. Local(Current)' = Local(Current)
    BY <2>1 DEF Local, Current
  <2> QED BY <1>1, <1>3, <2>1, <2>2
<1> QED BY <1>4, <1>5

LEMMA RemoteSavesText ==
  ASSUME TextInv, NEW r \in Remote, RemoteSaves(r)
  PROVE  Local(Current)' = Local(Current)
<1>1. bodies \in Seq(SUBSET Edits) /\ Current \in SUBSET Edits /\ r \in Edits /\ r \notin LocalEdits
  BY CurrentType, EditsAssumption DEF TextInv, LockInv, IInv, RestTypeOK
<1>2. bodies' = Append(bodies, Current \cup {r}) /\ Current \cup {r} \in SUBSET Edits
  BY <1>1 DEF RemoteSaves
<1>3. Len(bodies') = Len(bodies) + 1 /\ bodies'[Len(bodies) + 1] = Current \cup {r}
  BY <1>1, <1>2
<1>4. Current' = Current \cup {r}
  BY <1>3 DEF Current
<1> QED BY <1>1, <1>4 DEF Local

LEMMA ReopenText ==
  ASSUME TextInv, Reopen
  PROVE  TextIsHeld(page') /\ Local(Current) \subseteq page'.bodyRef /\ reply = NoReply
<1>1. /\ Numbered(page.saves) /\ page.inflight = NoSave
      /\ page' = Opened(Current, Len(bodies), page.saves)
  BY DEF TextInv, TextIsHeld, RequestIsTracked, Reopen, Drained
<1>2. reply = NoReply
  BY <1>1 DEF TextInv, AnswersARequest
<1>3. /\ page'.bodyRef = Current /\ page'.editor = Current /\ page'.block = "none"
      /\ page'.scheduled = NoSave /\ page'.unsaved = NoSave /\ page'.pending = NoSave
      /\ page'.retryTimer = NoSave /\ page'.retryCandidate = NoSave /\ page'.inflight = NoSave
      /\ page'.saves = page.saves
  BY <1>1 DEF Opened
<1>4. RequestIsTracked(page')
  BY <1>1, <1>3 DEF RequestIsTracked
<1>5. \A body, n : Belongs(NoSave, body, n)
  BY DEF Belongs
<1>6. TextIsHeld(page')
  BY <1>3, <1>4, <1>5 DEF TextIsHeld, BesideRequest, Local
<1> QED BY <1>2, <1>3, <1>6 DEF Local

LEMMA InitTextInv == Init => TextInv
<1> SUFFICES ASSUME Init PROVE TextInv
  OBVIOUS
<1>1. page = Opened({}, 1, Fresh) /\ bodies = <<{}>> /\ reply = NoReply
  BY DEF Init
<1>2. LockInv /\ AnswersARequest /\ reply.kind # "ok"
  BY <1>1, InitIInv DEF Init, Opened, NoReply, LockInv, AnswersARequest
<1>3. \A body, n : Belongs(NoSave, body, n)
  BY DEF Belongs
<1>4. RequestIsTracked(page)
  BY <1>1 DEF Opened, RequestIsTracked, Numbered, Fresh
<1>5. TextIsHeld(page)
  BY <1>1, <1>3, <1>4 DEF TextIsHeld, BesideRequest, Opened, Local
<1>6. Local(Current) = {}
  BY <1>1 DEF Current, Local
<1> QED BY <1>2, <1>5, <1>6 DEF TextInv

LEMMA NextTextInv ==
  ASSUME MaxExpiries = 0, ~CanLoseLock, TextInv, [Next]_vars
  PROVE  TextInv' /\ (page.mounted /\ page'.mounted => Local(page.editor) \subseteq page'.editor)
<1> DEFINE Stays  == page.mounted /\ page'.mounted => Local(page.editor) \subseteq page'.editor
           Stored == page'.block = "none" => Local(Current)' \subseteq page'.bodyRef
           Known  == reply'.kind = "ok" =>
                       page'.inflight.body \subseteq reply'.body /\ Local(reply'.body) \subseteq page'.bodyRef
           Good   == AnswersARequest' /\ TextIsHeld(page') /\ Stored /\ Known /\ Stays
<1>1. LockInv'
  BY NextLockInv DEF TextInv
<1>2. /\ Sound(page) /\ page.block # "session-expired" /\ TextIsHeld(page) /\ AnswersARequest
      /\ page.block = "none" => Local(Current) \subseteq page.bodyRef
      /\ reply.kind = "ok" => page.inflight.body \subseteq reply.body /\ Local(reply.body) \subseteq page.bodyRef
      /\ NoReply.kind # "ok"
  BY TextPage DEF TextInv, NoReply
<1>3. ~SessionExpires /\ ~LoseLock
  <2>1. budget.expiries = 0
    BY DEF TextInv, LockInv, IInv, RestTypeOK, Budgets
  <2> QED BY <2>1 DEF SessionExpires, Spend, LoseLock
<1>4. ASSUME TextIsHeld(page'), Grows(page, page'), bodies' = bodies, reply' = reply PROVE Good
  <2>1. Local(Current)' = Local(Current)
    BY <1>4 DEF Local, Current
  <2>2. AnswersARequest'
    BY <1>2, <1>4 DEF AnswersARequest, Grows
  <2>3. reply.kind = "ok" => page.inflight # NoSave
    BY <1>2 DEF AnswersARequest
  <2>4. Known
    BY <1>2, <1>4, <2>3 DEF Grows, Local
  <2>5. Stored
    BY <1>2, <1>4, <2>1 DEF Grows, Local
  <2>6. Stays
    BY <1>4 DEF Grows
  <2> QED BY <1>4, <2>2, <2>4, <2>5, <2>6
<1>5. Good
  <2>1. CASE UNCHANGED vars
    <3>1. page' = page /\ bodies' = bodies /\ reply' = reply
      BY <2>1 DEF vars
    <3> QED BY <1>2, <1>4, <3>1, StillGrows
  <2>2. CASE Answered
    <3>1. /\ TextIsHeld(page') /\ TextStays(page, page') /\ (page'.block = "none" => page.block = "none")
          /\ reply' = NoReply
      BY <2>2, AnsweredText
    <3>2. bodies' = bodies
      BY <2>2 DEF Answered, SaveSucceeds, SaveConflicts, SaveFails, SaveForbidden, SaveUnauthorized, ServerUnchanged
    <3>3. Local(Current)' = Local(Current)
      BY <3>2 DEF Local, Current
    <3>4. AnswersARequest'
      BY <3>1 DEF AnswersARequest
    <3>5. Stored
      BY <1>2, <3>1, <3>3 DEF TextStays, Local
    <3> QED BY <1>2, <3>1, <3>4, <3>5 DEF TextStays
  <2>3. CASE Server
    <3>1. page' = page /\ Stored /\ Known
      BY <2>3, ServerText
    <3>2. AnswersARequest'
      BY <2>3, <3>1 DEF AnswersARequest, Server, ServerCommits, ServerConflicts, RequestLost, ServerForbids,
                        SessionRefuses, Waiting
    <3>3. Stays
      BY <3>1 DEF Local
    <3> QED BY <1>2, <3>1, <3>2, <3>3
  <2>4. CASE SessionReturns
    <3>1. page' = page /\ bodies' = bodies /\ reply' = reply
      BY <2>4 DEF SessionReturns
    <3> QED BY <1>2, <1>4, <3>1, StillGrows
  <2>5. ASSUME NEW r \in Remote, RemoteSaves(r) PROVE Good
    <3>1. page' = page /\ reply' = reply /\ Local(Current)' = Local(Current)
      BY <2>5, RemoteSavesText DEF RemoteSaves
    <3>2. AnswersARequest' /\ Stays
      BY <1>2, <3>1 DEF AnswersARequest, Local
    <3> QED BY <1>2, <3>1, <3>2
  <2>6. CASE Reopen
    <3>1. TextIsHeld(page') /\ Local(Current) \subseteq page'.bodyRef /\ reply = NoReply
      BY <2>6, ReopenText
    <3>2. bodies' = bodies /\ reply' = reply /\ ~page.mounted
      BY <2>6 DEF Reopen, ServerUnchanged
    <3>3. Local(Current)' = Local(Current)
      BY <3>2 DEF Local, Current
    <3>4. AnswersARequest'
      BY <3>1, <3>2 DEF AnswersARequest
    <3> QED BY <1>2, <3>1, <3>2, <3>3, <3>4
  <2>7. CASE MarkdownUpdated \/ DebounceFires \/ AgentRetryFires \/ SaveShortcut
    <3>1. bodies' = bodies /\ reply' = reply
      BY <2>7 DEF MarkdownUpdated, DebounceFires, AgentRetryFires, SaveShortcut, ServerUnchanged
    <3> QED BY <1>2, <1>4, <2>7, <3>1, TimerText
  <2>8. CASE Type \/ ToggleAutoSave \/ \E op \in Ops : ApplyMarkdown(op)
    <3>1. bodies' = bodies /\ reply' = reply
      BY <2>8 DEF Type, ToggleAutoSave, ApplyMarkdown, ServerUnchanged
    <3> QED BY <1>2, <1>4, <2>8, <3>1, EditText
  <2>9. CASE Unmount
    <3>1. bodies' = bodies /\ reply' = reply
      BY <2>9 DEF Unmount, ServerUnchanged
    <3> QED BY <1>2, <1>4, <2>9, <3>1, UnmountText
  <2>10. CASE StartFlush \/ ContinueFlush
    <3>1. bodies' = bodies /\ reply' = reply
      BY <2>10 DEF StartFlush, ContinueFlush, ServerUnchanged
    <3> QED BY <1>2, <1>4, <2>10, <3>1, FlushText
  <2> HIDE DEF Good
  <2> QED BY <1>3, <2>1, <2>2, <2>3, <2>4, <2>5, <2>6, <2>7, <2>8, <2>9, <2>10 DEF Next, User, World
<1>6. TextInv'
  <2>1. Local(Current') = Local(Current)'
    BY DEF Local
  <2> QED BY <1>1, <1>5 DEF TextInv
<1> QED BY <1>5, <1>6

(***************************************************************************)
(* As long as the login and the edit lock last, nothing the user typed     *)
(* disappears from the open editor: the merged body of the server only     *)
(* replaces text that its own request carried, whatever was typed, applied *)
(* by the AI, retried, refused or lost in the meantime.                    *)
(***************************************************************************)
THEOREM TypedTextTheorem == MaxExpiries = 0 /\ ~CanLoseLock => (Spec => TypedTextStays)
<1> SUFFICES ASSUME MaxExpiries = 0, ~CanLoseLock PROVE Spec => TypedTextStays
  OBVIOUS
<1>1. TextInv /\ [Next]_vars => TextInv'
  BY NextTextInv
<1>2. TextInv /\ [Next]_vars
        => [page.mounted /\ page'.mounted => page.editor \cap LocalEdits \subseteq page'.editor]_vars
  BY NextTextInv DEF Local
<1> QED BY <1>1, <1>2, InitTextInv, PTL DEF Spec, TypedTextStays
-----------------------------------------------------------------------------
(***************************************************************************)
(* What a flush and the end of an editor may rely on, for a note the AI    *)
(* does not edit: the newest body carries every accepted edit, so with     *)
(* nothing unsaved the server has them all; and once the editor is gone,   *)
(* what is unsaved is still sent, or a flush sends it, or the barrier      *)
(* reports that it was not saved.                                          *)
(***************************************************************************)
\* What was accepted was notified, and what was notified is in the editor.
Drafted(p) == p.accepted \subseteq p.bodyRef /\ p.bodyRef \subseteq p.editor

\* A body of revision n has every accepted edit, an older one has no other.
Follows(c, A, n) ==
  c # NoSave => c.body \subseteq A /\ c.revision <= n /\ (c.revision = n => A \subseteq c.body)

\* What waits to be sent.
Waiters(p) ==
  /\ Follows(p.scheduled, p.accepted, p.revision) /\ Follows(p.unsaved, p.accepted, p.revision)
  /\ Follows(p.pending, p.accepted, p.revision)

\* With nothing unsaved the server, whose newest body is C, has every accepted edit.
Unowed(p, C) == p.unsaved = NoSave => p.accepted \subseteq C /\ p.sent = p.revision

\* The request in flight is the save the barrier started last, or the barrier has failed.
IsLastSave(p) == p.inflight # NoSave /\ p.saves.sequence # p.seq => ~p.saves.success

\* An editor that is gone: what it did not save is on its way, is sent by a flush, or the barrier has failed.
LeftWell(p) ==
  ~p.mounted =>
    /\ p.scheduled = NoSave
    /\ p.unsaved # NoSave =>
         \/ Carried(p)
         \/ p.flush.pc = "draining" /\ p.block = "none"
         \/ /\ ~p.saves.success
            /\ p.inflight = NoSave \/ (p.block # "none" /\ p.saves.sequence # p.seq)

FlushFits(f, mounted) == (f.pc = "settling" => ~mounted) /\ (f.pc # "idle" => f.result = "none")

\* What holds of a page whatever it was left with; C is the newest body of the server.
Booked(p, C) ==
  /\ Drafted(p) /\ Waiters(p) /\ Follows(p.inflight, p.accepted, p.revision) /\ Local(C) \subseteq p.accepted
  /\ Unowed(p, C) /\ IsLastSave(p) /\ FlushFits(p.flush, p.mounted)
  /\ p.block = "session-expired" => p.inflight = NoSave

Covered(p, C) == Booked(p, C) /\ LeftWell(p)

\* Where no session expires, an editor that may save has accepted all it notified.
Notified(p) ==
  MaxExpiries = 0 =>
    p.block # "session-expired" /\ (p.block = "none" => Local(p.bodyRef) \subseteq p.accepted)

Accounts(p, C) == Covered(p, C) /\ Notified(p)

\* A page that saves its newest body need not have been left well.
LEMMA TrackedAccounts ==
  ASSUME NEW p, Sound(p), PageInOrder(p), NEW C, Booked(p, C), Notified(p), NEW c \in Candidate,
         c # NoSave, c.source = "user", c.revision = p.revision, c.body = p.accepted,
         p.mounted \/ (p.block = "none" /\ p.scheduled = NoSave)
  PROVE  Accounts(TrackedFlushSave(p, c), C)
<1> DEFINE q == TrackedFlushSave(p, c)
<1>1. PICK save \in Candidate :
        /\ ~p.agentRequired => save = c
        /\ KeepsRest(p, q) /\ Blocking(p, q)
        /\ Refused(p, q) \/ Queued(p, q, save) \/ Sends(p, q, save)
  BY TrackedShape
<1>2. save = c
  BY <1>1 DEF PageInOrder, NoAgent
<1>3. PageInOrder(q) /\ (q.block = "none" => Carried(q))
  BY TrackedInOrder
<1>4. /\ p.revision \in Nat /\ p.sent \in Nat /\ p.pending \in Candidate
      /\ p.saves \in DocumentSaveState
  BY DEF Sound, Page
<1>5. MergePendingNoteSave(p.pending, c) = c
  BY DEF PageInOrder, NoAgent, MergePendingNoteSave
<1>6. /\ q.editor = p.editor /\ q.bodyRef = p.bodyRef /\ q.mounted = p.mounted /\ q.revision = p.revision
      /\ q.scheduled = p.scheduled /\ q.unsaved = p.unsaved /\ q.accepted = p.accepted /\ q.flush = p.flush
  BY <1>1 DEF KeepsRest, KeepsPage
<1>7. Follows(c, p.accepted, p.revision) /\ Follows(NoSave, p.accepted, p.revision)
  BY <1>4 DEF Follows
<1> HIDE DEF q
<1>8. LeftWell(q)
  BY <1>1, <1>3, <1>6 DEF Blocking, LeftWell, Accounts, Covered, Booked
<1>9. /\ Follows(q.pending, p.accepted, p.revision) /\ Follows(q.inflight, p.accepted, p.revision)
      /\ q.sent \in {p.revision, p.sent}
      /\ q.block = "session-expired" => q.inflight = NoSave
  <2>1. CASE Refused(p, q)
    BY <1>1, <2>1 DEF Refused, Blocking, Accounts, Covered, Booked, Waiters, IsLastSave
  <2>2. CASE Queued(p, q, save)
    BY <1>2, <1>5, <1>7, <2>2 DEF Queued, Accounts, Covered, Booked, Waiters, IsLastSave
  <2>3. CASE Sends(p, q, save)
    <3>1. /\ q.inflight = c /\ q.pending = p.pending /\ q.block = "none"
          /\ q.sent = (IF c.revision > p.sent THEN c.revision ELSE p.sent)
      BY <1>2, <2>3 DEF Sends, Starts
    <3>2. q.sent = p.revision
      BY <1>4, <3>1 DEF PageInOrder, InOrder
    <3> QED BY <1>7, <3>1, <3>2 DEF Accounts, Covered, Booked, Waiters
  <2> QED BY <1>1, <2>1, <2>2, <2>3
<1>10. IsLastSave(q)
  <2>1. CASE Sends(p, q, save)
    BY <1>4, <2>1, TrackNumbered DEF Sends, Starts, Track, IsLastSave
  <2>2. CASE Refused(p, q) \/ Queued(p, q, save)
    BY <2>2 DEF Refused, Queued, IsLastSave, Accounts, Covered, Booked
  <2> QED BY <1>1, <2>1, <2>2
<1>11. Notified(q)
  BY <1>1, <1>6 DEF Accounts, Notified, Blocking
<1> QED BY <1>6, <1>8, <1>9, <1>10, <1>11 DEF Accounts, Covered, Booked, Drafted, Waiters, Unowed, q

\* A page that accepts its body.
LEMMA AcceptedAccounts ==
  ASSUME NEW p, Sound(p), NEW C, Covered(p, C), p.mounted, NEW a, NEW c \in Candidate, Accepted(p, a, c),
         c.body = p.bodyRef, a.scheduled \in {NoSave, c}
  PROVE  Accounts(a, C) /\ c.body = a.accepted /\ a.mounted
<1>1. /\ a.editor = p.editor /\ a.bodyRef = p.bodyRef /\ a.mounted /\ a.flush = p.flush
      /\ a.inflight = p.inflight /\ a.pending = p.pending /\ a.seq = p.seq /\ a.saves = p.saves
      /\ a.block = "none" /\ a.revision = p.revision + 1 /\ c.revision = a.revision
      /\ a.unsaved = c /\ c # NoSave /\ a.accepted = p.accepted \cup c.body
  BY DEF Accepted, KeepsRequest
<1>2. p.revision \in Nat /\ p.pending.revision \in Nat /\ p.inflight.revision \in Nat
  BY PageTypes
<1>3. a.accepted = p.bodyRef
  BY <1>1 DEF Covered, Booked, Drafted
<1>4. Follows(c, a.accepted, a.revision) /\ Follows(NoSave, a.accepted, a.revision)
  BY <1>1, <1>2, <1>3 DEF Follows
<1>5. Follows(a.pending, a.accepted, a.revision) /\ Follows(a.inflight, a.accepted, a.revision)
  BY <1>1, <1>2 DEF Covered, Booked, Waiters, Follows
<1>6. Notified(a)
  BY <1>1, <1>3 DEF Notified, Local
<1> QED BY <1>1, <1>3, <1>4, <1>5, <1>6 DEF Accounts, Covered, Booked, Drafted, Waiters, Unowed, IsLastSave, LeftWell

LEMMA QueueAccounts ==
  ASSUME NEW p, Sound(p), NEW C, Covered(p, C), p.mounted, p.block # "none" => Notified(p)
  PROVE  Accounts(QueueSave(p, p.bodyRef, "user", NoOp), C)
<1> DEFINE q == QueueSave(p, p.bodyRef, "user", NoOp)
<1>1. p.bodyRef \in SUBSET Edits /\ "user" \in Sources /\ NoOp \in Ops \cup {NoOp}
  BY DEF Sound, Page, Sources
<1>2. \/ q = p /\ p.block # "none"
      \/ \E c \in Candidate : c.body = p.bodyRef /\ Scheduled(p, q, c)
  BY <1>1, QueueShape
<1> HIDE DEF q
<1>3. ASSUME NEW c \in Candidate, c.body = p.bodyRef, Scheduled(p, q, c)
      PROVE  Accounts(q, C)
  BY <1>3, AcceptedAccounts DEF Scheduled
<1> QED BY <1>2, <1>3 DEF Accounts, q

LEMMA SaveNowAccounts ==
  ASSUME NEW p, Sound(p), PageInOrder(p), NEW C, Accounts(p, C), p.mounted
  PROVE  Accounts(SaveNow(p, p.bodyRef), C) /\ SaveNow(p, p.bodyRef).flush = p.flush
<1> DEFINE q == SaveNow(p, p.bodyRef)
<1>1. p.bodyRef \in SUBSET Edits /\ ~p.agentRequired
  BY DEF Sound, Page, PageInOrder, NoAgent
<1>2. \/ q = p /\ p.block # "none"
      \/ \E c \in Candidate :
           /\ c.body = p.bodyRef /\ c.source = "user"
           /\ \E a : /\ Sound(a) /\ Accepted(p, a, c) /\ a.scheduled = NoSave /\ a.status = p.status
                     /\ q = TrackedFlushSave(a, c)
  BY <1>1, SaveNowShape
<1> HIDE DEF q
<1>3. ASSUME NEW c \in Candidate, c.body = p.bodyRef, c.source = "user", NEW a, Sound(a), Accepted(p, a, c),
             a.scheduled = NoSave, a.status = p.status, q = TrackedFlushSave(a, c)
      PROVE  Accounts(q, C) /\ q.flush = p.flush
  <2>1. Accounts(a, C) /\ c.body = a.accepted /\ a.mounted
    BY <1>3, AcceptedAccounts DEF Accounts
  <2>2. PageInOrder(a) /\ c # NoSave /\ c.revision = a.revision
    BY <1>3, AcceptedInOrder DEF Accepted
  <2>3. q.flush = p.flush
    <3>1. KeepsRest(a, q)
      BY <1>3, TrackedShape
    <3> QED BY <1>3, <3>1 DEF KeepsRest, Accepted
  <2> QED BY <1>3, <2>1, <2>2, <2>3, TrackedAccounts DEF Accounts, Covered
<1> QED BY <1>2, <1>3 DEF q

LEMMA BeforeFlushAccounts ==
  ASSUME NEW p, Sound(p), NEW C, Accounts(p, C)
  PROVE  LET q == BeforeFlush(p)
         IN  /\ Accounts(q, C) /\ q.mounted = p.mounted
             /\ q.unsaved = NoSave /\ q.mounted /\ q.block = "none" => q.editor = q.bodyRef
             /\ q.flush = p.flush /\ (q.block # p.block => q.block = "none")
<1> DEFINE m == [p EXCEPT !.bodyRef = p.editor]
           n == QueueSave(m, m.bodyRef, "user", NoOp)
<1>1. p.editor \in SUBSET Edits /\ "user" \in Sources /\ NoOp \in Ops \cup {NoOp}
  BY DEF Sound, Page, Sources
<1>2. /\ Sound(m) /\ KeepsRequest(p, m) /\ m.editor = p.editor /\ m.bodyRef = p.editor
      /\ m.mounted = p.mounted /\ m.revision = p.revision /\ m.block = p.block /\ m.accepted = p.accepted
      /\ m.scheduled = p.scheduled /\ m.unsaved = p.unsaved /\ m.flush = p.flush
  BY <1>1 DEF Sound, UnsavedIsNewest, Page, KeepsRequest
<1>3. BeforeFlush(p) = (IF p.mounted /\ p.editor # p.bodyRef THEN n ELSE p)
  BY <1>2 DEF BeforeFlush
<1> HIDE DEF m
<1>4. Covered(m, C) /\ (m.block # "none" => Notified(m))
  BY <1>2 DEF Accounts, Notified, Covered, Booked, Drafted, Waiters, Unowed, IsLastSave, LeftWell, Carried, KeepsRequest
<1>5. p.mounted => Accounts(n, C)
  BY <1>2, <1>4, QueueAccounts
<1>6. \/ n = m /\ m.block # "none"
      \/ \E c \in Candidate : Scheduled(m, n, c)
  BY <1>1, <1>2, QueueShape
<1> HIDE DEF n
<1>7. /\ n.mounted = m.mounted /\ n.flush = m.flush /\ (n.block # m.block => n.block = "none")
      /\ n.unsaved = NoSave /\ n.block = "none" => FALSE
  BY <1>6 DEF Scheduled, Accepted, Blocking
<1> QED BY <1>2, <1>3, <1>5, <1>7

\* A step that drops a scheduled body or changes the login.
LEMMA StillAccounts ==
  ASSUME NEW p, NEW C, Accounts(p, C), NEW q, KeepsRequest(p, q),
         q.editor = p.editor, q.bodyRef = p.bodyRef, q.mounted = p.mounted, q.revision = p.revision,
         q.accepted = p.accepted, q.unsaved = p.unsaved, q.flush = p.flush, q.scheduled \in {p.scheduled, NoSave},
         q.block \in {p.block, "none"}, q.block = p.block \/ p.block = "session-expired"
  PROVE  Accounts(q, C)
<1>1. Follows(NoSave, p.accepted, p.revision)
  BY DEF Follows
<1> QED BY <1>1 DEF Accounts, Covered, Booked, Notified, Drafted, Waiters, Unowed, IsLastSave, LeftWell, Carried,
                    KeepsRequest

LEMMA ClearedAccounts ==
  ASSUME NEW p, Sound(p), NEW C, Accounts(p, C)
  PROVE  Accounts(ClearScheduledSave(p), C)
BY ClearScheduledShape, StillAccounts

LEMMA UnblockedAccounts ==
  ASSUME NEW p, Sound(p), NEW C, Accounts(p, C)
  PROVE  Accounts(Unblocked(p), C)
BY UnblockedShape, StillAccounts DEF KeepsRest, KeepsPage, Blocking

LEMMA FlushFieldAccounts ==
  ASSUME NEW p, Sound(p), NEW C, Accounts(p, C), NEW f, FlushFits(f, p.mounted),
         \/ f.pc = "draining" \/ p.flush.pc # "draining"
         \/ p.mounted \/ p.block # "none" \/ p.unsaved = NoSave \/ Carried(p)
  PROVE  Accounts([p EXCEPT !.flush = f], C)
<1> DEFINE q == [p EXCEPT !.flush = f]
<1>1. /\ KeepsPage(p, q) /\ KeepsRequest(p, q) /\ q.block = p.block /\ q.flush = f
  BY DEF Sound, Page, KeepsPage, KeepsRequest
<1> HIDE DEF q
<1>2. LeftWell(q)
  BY <1>1 DEF Accounts, Covered, Booked, LeftWell, Carried, KeepsPage, KeepsRequest
<1> QED BY <1>1, <1>2 DEF Accounts, Covered, Booked, Notified, Drafted, Waiters, Unowed, IsLastSave, KeepsPage,
                         KeepsRequest, q

(* What the end of a request does. *)

LEMMA FinishSaves ==
  ASSUME NEW p, Sound(p), NEW saved \in BOOLEAN, ~p.agentRequired, p.seq \in p.saves.pending, Numbered(p.saves)
  PROVE  LET q == FinishRequest(p, saved)
         IN  /\ q.inflight # NoSave => q.saves.sequence = q.seq
             /\ q.inflight = NoSave => q.saves = Settle(p.saves, p.seq, saved)
             /\ q.flush.pc = p.flush.pc /\ q.flush.result = p.flush.result
<1> DEFINE done == [p EXCEPT !.inflight = NoSave, !.pending = NoSave]
           next == IF p.pending # NoSave /\ p.block = "none"
                   THEN TrackedFlushSave(done, p.pending) ELSE done
           flush == IF next.flush.pc = "saving" /\ next.flush.own = p.seq
                    THEN [next.flush EXCEPT !.own = 0, !.saved = saved] ELSE next.flush
           saves == Settle(next.saves, p.seq, saved)
           q == FinishRequest(p, saved)
<1>1. p.pending \in Candidate /\ p.saves \in DocumentSaveState /\ p.seq \in Nat
  BY DEF Sound, Page
<1>2. Sound(done)
  BY NoSaveType DEF Sound, UnsavedIsNewest, BadgeIsTrue, Page
<1>3. /\ done.block = p.block /\ done.saves = p.saves /\ done.flush = p.flush
      /\ done.inflight = NoSave /\ done.agentRequired = p.agentRequired
  BY DEF Sound, Page
<1> HIDE DEF done
<1>4. /\ Sound(next) /\ next.flush = p.flush
      /\ \/ next.inflight = NoSave /\ next.saves = p.saves
         \/ next.inflight # NoSave /\ next.saves = Track(p.saves) /\ next.seq = p.saves.sequence + 1
  <2>1. CASE ~(p.pending # NoSave /\ p.block = "none")
    BY <1>2, <1>3, <2>1
  <2>2. CASE p.pending # NoSave /\ p.block = "none"
    <3>1. Sound(TrackedFlushSave(done, p.pending)) /\ next = TrackedFlushSave(done, p.pending)
      BY <1>1, <1>2, <2>2, TrackedFlushSound
    <3>2. PICK save \in Candidate :
            /\ ~done.agentRequired => save = p.pending
            /\ KeepsRest(done, next) /\ Blocking(done, next)
            /\ Refused(done, next) \/ Queued(done, next, save) \/ Sends(done, next, save)
      BY <1>1, <1>2, <3>1, TrackedShape
    <3> HIDE DEF next
    <3>3. Sends(done, next, save) /\ save # NoSave
      BY <1>3, <2>2, <3>2 DEF Refused, Queued, Blocking
    <3> QED BY <1>3, <3>1, <3>2, <3>3 DEF Sends, Starts, KeepsRest
  <2> QED BY <2>1, <2>2
<1>5. q = [next EXCEPT !.saves = saves, !.flush = flush]
  BY DEF FinishRequest, next, done
<1> HIDE DEF next
<1>6. flush.pc = next.flush.pc /\ flush.result = next.flush.result
  BY <1>4 DEF Sound, Page, Flush
<1>7. next.inflight # NoSave => saves.sequence = next.seq
  <2>1. ASSUME next.inflight # NoSave PROVE saves.sequence = next.seq
    <3>1. next.saves = Track(p.saves) /\ next.seq = p.saves.sequence + 1
      BY <1>4, <2>1
    <3>2. next.seq \in next.saves.pending /\ next.seq # p.seq /\ next.saves.sequence = next.seq
      BY <1>1, <3>1, TrackNumbered
    <3>3. next.saves \in DocumentSaveState
      BY <1>4 DEF Sound, Page
    <3> QED BY <3>2, <3>3 DEF Settle, DocumentSaveState
  <2> QED BY <2>1
<1> HIDE DEF flush, saves
<1>8. /\ q.flush = flush /\ q.saves = saves /\ q.inflight = next.inflight /\ q.seq = next.seq
  BY <1>4, <1>5 DEF Sound, Page
<1> HIDE DEF q
<1> QED BY <1>4, <1>6, <1>7, <1>8 DEF saves, q

\* What must be so before the request ends, once the editor is gone.
LeavesWell(p, saved) ==
  ~p.mounted =>
    /\ p.scheduled = NoSave
    /\ p.unsaved # NoSave =>
         \/ p.pending # NoSave /\ p.block = "none" /\ p.pending.revision = p.revision
         \/ p.flush.pc = "draining" /\ p.block = "none"
         \/ /\ p.pending = NoSave \/ p.block # "none"
            /\ ~saved \/ (~p.saves.success /\ p.saves.sequence # p.seq)

LEMMA SettleFails ==
  ASSUME NEW s \in DocumentSaveState, NEW n \in Nat, NEW ok \in BOOLEAN,
         IF s.sequence = n THEN ~ok ELSE ~s.success
  PROVE  ~Settle(s, n, ok).success
BY DEF Settle, DocumentSaveState

LEMMA FinishAccounts ==
  ASSUME NEW p, Sound(p), NEW C, NEW saved \in BOOLEAN,
         p.mounted /\ p.status = "saved" => p.unsaved = NoSave,
         p.inflight # NoSave, p.seq \in p.saves.pending, Numbered(p.saves), ~p.agentRequired,
         p.sent <= p.revision, Drafted(p), Waiters(p), Unowed(p, C), IsLastSave(p), FlushFits(p.flush, p.mounted),
         LeavesWell(p, saved), Local(C) \subseteq p.accepted, Notified(p)
  PROVE  Accounts(FinishRequest(p, saved), C) /\ FinishRequest(p, saved).flush.pc = p.flush.pc
<1> DEFINE q == FinishRequest(p, saved)
<1>1. /\ KeepsPage(p, q) /\ q.pending = NoSave
      /\ \/ Ends(p, q)
         \/ PassesOn(p, q, p.pending)
  BY FinishShape
<1>2. /\ q.inflight # NoSave => q.saves.sequence = q.seq
      /\ q.inflight = NoSave => q.saves = Settle(p.saves, p.seq, saved)
      /\ q.flush.pc = p.flush.pc /\ q.flush.result = p.flush.result
  BY FinishSaves
<1> HIDE DEF q
<1>3. /\ q.editor = p.editor /\ q.bodyRef = p.bodyRef /\ q.mounted = p.mounted /\ q.revision = p.revision
      /\ q.scheduled = p.scheduled /\ q.unsaved = p.unsaved /\ q.accepted = p.accepted
  BY <1>1 DEF KeepsPage
<1>4. /\ p.revision \in Nat /\ p.sent \in Nat /\ p.pending.revision \in Nat
      /\ p.saves \in DocumentSaveState /\ p.seq \in Nat
  BY PageTypes DEF Sound, Page
<1>5. Follows(NoSave, p.accepted, p.revision)
  BY DEF Follows
<1>6. Drafted(q) /\ Waiters(q) /\ Follows(q.inflight, q.accepted, q.revision)
  BY <1>1, <1>3, <1>5 DEF Drafted, Waiters, Ends, PassesOn
<1>7. Unowed(q, C)
  BY <1>1, <1>3, <1>4 DEF Unowed, Ends, PassesOn, Waiters, Follows
<1>8. IsLastSave(q) /\ FlushFits(q.flush, q.mounted) /\ (q.block = "session-expired" => q.inflight = NoSave)
  BY <1>1, <1>2, <1>3 DEF IsLastSave, FlushFits, Ends, PassesOn
<1>9. LeftWell(q)
  <2>1. CASE PassesOn(p, q, p.pending)
    BY <1>2, <1>3, <2>1 DEF PassesOn, LeavesWell, LeftWell, Carried
  <2>2. CASE Ends(p, q)
    <3>1. ASSUME ~saved \/ (~p.saves.success /\ p.saves.sequence # p.seq)
          PROVE  ~q.saves.success
      <4>1. IF p.saves.sequence = p.seq THEN ~saved ELSE ~p.saves.success
        BY <3>1 DEF IsLastSave
      <4> QED BY <1>2, <1>4, <2>2, <4>1, SettleFails DEF Ends
    <3> QED BY <1>2, <1>3, <2>2, <3>1 DEF Ends, LeavesWell, LeftWell
  <2> QED BY <1>1, <2>1, <2>2
<1>10. Notified(q)
  BY <1>1, <1>3 DEF Notified, Ends, PassesOn
<1> QED BY <1>2, <1>3, <1>6, <1>7, <1>8, <1>9, <1>10 DEF Accounts, Covered, Booked, q

\* How a page may come by more accepted edits: the editor's body, under a new revision.
Accepting(p, q) ==
  /\ q.revision = p.revision => q.accepted = p.accepted
  /\ q.revision # p.revision => q.accepted = p.accepted \cup q.editor

LEMMA FinishKeeps ==
  ASSUME NEW p, Sound(p), NEW saved
  PROVE  LET q == FinishRequest(p, saved)
         IN  q.accepted = p.accepted /\ q.revision = p.revision /\ q.editor = p.editor
<1> DEFINE done == [p EXCEPT !.inflight = NoSave, !.pending = NoSave]
           next == IF p.pending # NoSave /\ p.block = "none"
                   THEN TrackedFlushSave(done, p.pending) ELSE done
<1>1. /\ Sound(done) /\ done.accepted = p.accepted /\ done.revision = p.revision /\ done.editor = p.editor
      /\ p.pending \in Candidate
  BY NoSaveType DEF Sound, UnsavedIsNewest, BadgeIsTrue, Page
<1> HIDE DEF done
<1>2. /\ Sound(next) /\ next.accepted = p.accepted /\ next.revision = p.revision /\ next.editor = p.editor
  <2> DEFINE sent == TrackedFlushSave(done, p.pending)
  <2>1. Sound(sent) /\ KeepsRest(done, sent)
    BY <1>1, TrackedShape, TrackedFlushSound
  <2>2. next \in {sent, done}
    OBVIOUS
  <2> HIDE DEF sent, next
  <2> QED BY <1>1, <2>1, <2>2 DEF KeepsRest, KeepsPage
<1>3. \E s, f : FinishRequest(p, saved) = [next EXCEPT !.saves = s, !.flush = f]
  BY DEF FinishRequest, done
<1> HIDE DEF next
<1> QED BY <1>2, <1>3 DEF Sound, Page

LEMMA MergeAccepts ==
  ASSUME NEW p, Sound(p), NEW next \in SUBSET Edits
  PROVE  Accepting(p, MergeEditorMarkdown(p, next))
<1> DEFINE typed  == p.editor \ p.bodyRef
           body   == next \cup typed
           merged == [p EXCEPT !.editor = body, !.bodyRef = body]
           q      == QueueSave(merged, body, "user", NoOp)
<1>1. body \in SUBSET Edits /\ "user" \in Sources /\ NoOp \in Ops \cup {NoOp} /\ p.revision \in Nat
  BY DEF Sound, Page, Sources
<1>2. /\ Sound(merged) /\ merged.accepted = p.accepted /\ merged.revision = p.revision /\ merged.editor = body
  BY <1>1 DEF Sound, UnsavedIsNewest, Page
<1>3. MergeEditorMarkdown(p, next) = (IF typed = {} THEN merged ELSE q)
  BY DEF MergeEditorMarkdown
<1> HIDE DEF merged, body
<1>4. Accepting(p, q)
  <2>1. \/ q = merged
        \/ \E c \in Candidate : c.body = body /\ Scheduled(merged, q, c)
    BY <1>1, <1>2, QueueShape
  <2>2. ASSUME NEW c \in Candidate, c.body = body, Scheduled(merged, q, c)
        PROVE  Accepting(p, q)
    BY <1>1, <1>2, <2>2 DEF Scheduled, Accepted, Accepting
  <2>3. ASSUME q = merged PROVE Accepting(p, q)
    BY <1>2, <2>3 DEF Accepting
  <2> QED BY <2>1, <2>2, <2>3
<1>5. Accepting(p, merged)
  BY <1>2 DEF Accepting
<1> QED BY <1>3, <1>4, <1>5

LEMMA SavedAccepts ==
  ASSUME NEW p, Sound(p), NEW answer \in Reply
  PROVE  Accepting(p, OnSaved(p, answer))
<1> DEFINE saved == p.inflight
           a == AdoptVersion(p, answer)
           m == ReportServerMerge(a, answer)
           d == ClearUnsaved(m, saved)
           e == IF saved.source = "agent" THEN AgentSaved(d) ELSE d
           status == IF saved.revision = e.revision THEN "saved" ELSE "dirty"
           r == SetStatus(e, status)
           Same(x, y) == y.accepted = x.accepted /\ y.revision = x.revision /\ y.editor = x.editor
<1>1. OnSaved(p, answer) = FinishRequest(r, TRUE)
  BY DEF OnSaved
<1>2. Sound(a) /\ Same(p, a)
  <2>1. \E x, y : a = [p EXCEPT !.version = x, !.legacyRetry = y]
    BY DEF AdoptVersion
  <2> QED BY <2>1, AdoptSound DEF Sound, Page
<1>3. Sound(m) /\ Accepting(a, m)
  <2>1. answer.body \in SUBSET Edits
    BY DEF Reply
  <2>2. m \in {a, MergeEditorMarkdown(a, answer.body)}
    BY DEF ReportServerMerge
  <2> HIDE DEF a
  <2>3. Accepting(a, a)
    BY DEF Accepting
  <2> QED BY <1>2, <2>1, <2>2, <2>3, MergeAccepts, ReportSound
<1> HIDE DEF a, m
<1>4. Sound(d) /\ Same(m, d)
  <2>1. \E x : d = [m EXCEPT !.unsaved = x]
    BY DEF ClearUnsaved
  <2> QED BY <1>3, <2>1, ClearUnsavedSound DEF Sound, Page
<1> HIDE DEF d
<1>5. Sound(e) /\ Same(d, e)
  <2> DEFINE x == [d EXCEPT !.agentOp = NoOp, !.agentRequired = FALSE, !.attempts = 0]
             y == [x EXCEPT !.retryTimer = NoSave, !.retryCandidate = NoSave]
  <2>1. x \in Page /\ Same(d, x)
    BY <1>4 DEF Sound, Page
  <2> HIDE DEF x
  <2>2. Same(x, y)
    BY <2>1 DEF Page
  <2>3. AgentSaved(d) = y
    BY DEF AgentSaved, CancelAgentRetry, x
  <2> HIDE DEF y
  <2>4. Sound(AgentSaved(d)) /\ Same(d, AgentSaved(d))
    BY <1>4, <2>1, <2>2, <2>3, AgentSavedSound
  <2> QED BY <1>4, <2>4
<1> HIDE DEF e
<1>6. Sound(r) /\ Same(e, r)
  <2>1. status \in Statuses
    BY DEF Statuses
  <2> HIDE DEF status
  <2> QED BY <1>5, <2>1, SetStatusSound, SetStatusShape DEF KeepsRest, KeepsPage
<1> HIDE DEF r
<1>7. Same(r, OnSaved(p, answer))
  <2>1. Same(r, FinishRequest(r, TRUE))
    BY <1>6, FinishKeeps
  <2> QED BY <1>1, <2>1
<1>8. Accepting(p, m)
  BY <1>2, <1>3 DEF Accepting
<1>9. Same(m, OnSaved(p, answer))
  BY <1>4, <1>5, <1>6, <1>7
<1> QED BY <1>8, <1>9 DEF Accepting

\* A failed request accepts nothing.
LEMMA FailureKeeps ==
  ASSUME NEW p, Sound(p), NEW latest \in Nat, NEW block \in {"lock-lost", "session-expired"}
  PROVE  /\ OnConflict(p, latest).accepted = p.accepted
         /\ p.inflight.source # "agent" => OnFailed(p).accepted = p.accepted
         /\ OnBlocked(p, block).accepted = p.accepted
<1>1. ASSUME NEW r, Sound(r), r.accepted = p.accepted PROVE FinishRequest(r, FALSE).accepted = p.accepted
  BY <1>1, FinishKeeps
<1>2. OnConflict(p, latest).accepted = p.accepted
  <2> DEFINE rebased == [p EXCEPT !.version = IF latest # 0 THEN latest ELSE @]
             again   == [rebased EXCEPT !.legacyRetry = TRUE,
                                        !.pending = IF @ = NoSave THEN p.inflight ELSE @]
             given   == [rebased EXCEPT !.legacyRetry = FALSE]
  <2>1. Sound(rebased) /\ rebased.accepted = p.accepted /\ p.inflight \in Candidate
    BY DEF Sound, UnsavedIsNewest, Page
  <2> HIDE DEF rebased
  <2>2. /\ Sound(again) /\ again.accepted = p.accepted
        /\ Sound(given) /\ given.accepted = p.accepted
    <3>1. Sound(again) /\ again.accepted = p.accepted
      <4> DEFINE waits == IF rebased.pending = NoSave THEN p.inflight ELSE rebased.pending
      <4>1. again = [rebased EXCEPT !.legacyRetry = TRUE, !.pending = waits]
        BY <2>1 DEF Sound, Page
      <4>2. waits \in Candidate
        BY <2>1 DEF Sound, Page
      <4> HIDE DEF waits, again
      <4> QED BY <2>1, <4>1, <4>2 DEF Sound, UnsavedIsNewest, Page
    <3>2. Sound(given) /\ given.accepted = p.accepted
      BY <2>1, ZenonT(40) DEF Sound, UnsavedIsNewest, Page
    <3> QED BY <3>1, <3>2
  <2>3. OnConflict(p, latest) \in {FinishRequest(again, FALSE), FinishRequest(SetStatus(given, "error"), FALSE)}
    BY DEF OnConflict, rebased
  <2> HIDE DEF again, given
  <2>4. Sound(SetStatus(given, "error")) /\ SetStatus(given, "error").accepted = p.accepted
    BY <2>2, SetStatusSound, SetStatusShape DEF Statuses, KeepsRest, KeepsPage
  <2> QED BY <1>1, <2>2, <2>3, <2>4
<1>3. ASSUME p.inflight.source # "agent" PROVE OnFailed(p).accepted = p.accepted
  <2>1. OnFailed(p) = FinishRequest(SetStatus(p, "error"), FALSE)
    BY <1>3 DEF OnFailed
  <2>2. Sound(SetStatus(p, "error")) /\ SetStatus(p, "error").accepted = p.accepted
    BY SetStatusSound, SetStatusShape DEF Statuses, KeepsRest, KeepsPage
  <2> QED BY <1>1, <2>1, <2>2
<1>4. OnBlocked(p, block).accepted = p.accepted
  <2> DEFINE named  == [p EXCEPT !.block = block]
             cancel == CancelAgentRetry(named)
             r      == SetStatus(cancel, block)
  <2>1. Sound(named) /\ named.accepted = p.accepted
    BY DEF Sound, UnsavedIsNewest, Page, Blocks
  <2> HIDE DEF named
  <2>2. Sound(cancel) /\ cancel.accepted = p.accepted
    BY <2>1, CancelSound, CancelShape
  <2> HIDE DEF cancel
  <2>3. Sound(r) /\ r.accepted = p.accepted
    BY <2>2, SetStatusSound, SetStatusShape DEF Statuses, KeepsRest, KeepsPage
  <2>4. OnBlocked(p, block) = FinishRequest(r, FALSE)
    BY DEF OnBlocked, named, cancel
  <2> QED BY <1>1, <2>3, <2>4
<1> QED BY <1>2, <1>3, <1>4

(* What an answer does. *)

LEMMA SavedAccounts ==
  ASSUME NEW p, Sound(p), PageInOrder(p), NEW C, Accounts(p, C), p.inflight # NoSave, NEW answer \in Reply,
         p.inflight.body \subseteq answer.body, answer.body \subseteq C
  PROVE  Accounts(OnSaved(p, answer), C) /\ OnSaved(p, answer).flush.pc = p.flush.pc
<1> DEFINE q == OnSaved(p, answer)
<1>1. PICK r : q = FinishRequest(r, TRUE) /\ Saves(p, r, answer)
  BY SavedShape
<1>2. Accepting(p, q)
  BY SavedAccepts
<1> HIDE DEF q
<1>3. /\ Sound(r) /\ (r.mounted /\ r.status = "saved" => r.unsaved = NoSave)
      /\ r.mounted = p.mounted /\ r.flush = p.flush
      /\ r.inflight = p.inflight /\ r.seq = p.seq /\ r.saves = p.saves /\ r.pending = p.pending /\ r.sent = p.sent
      /\ ~r.agentRequired
      /\ IF Merging(p, answer)
         THEN r.editor = answer.body \cup (p.editor \ p.bodyRef) /\ r.bodyRef = r.editor
         ELSE r.editor = p.editor /\ r.bodyRef = p.bodyRef
      /\ \/ Settles(p, r) /\ (Merging(p, answer) => p.editor \subseteq p.bodyRef \/ p.block # "none")
         \/ (Merging(p, answer) /\ \E c \in Candidate : QueuesAgain(p, r, c))
  BY <1>1 DEF Saves, PageInOrder, NoAgent
<1>4. r.accepted = q.accepted /\ r.revision = q.revision /\ r.editor = q.editor
  BY <1>1, <1>3, FinishKeeps
<1>5. r.inflight # NoSave /\ r.seq \in r.saves.pending /\ Numbered(r.saves)
  BY <1>3 DEF PageInOrder, RequestIsTracked
<1>6. /\ p.revision \in Nat /\ p.sent \in Nat /\ p.inflight.revision \in Nat /\ p.pending.revision \in Nat
      /\ p.sent <= p.revision /\ p.inflight.revision = p.sent
      /\ p.unsaved # NoSave => p.unsaved.revision = p.revision
      /\ p.pending # NoSave => p.block = "none"
  BY PageTypes DEF Sound, UnsavedIsNewest, Page, PageInOrder, InOrder, RequestIsTracked
<1>7. IsLastSave(r) /\ FlushFits(r.flush, r.mounted)
  BY <1>3 DEF Accounts, Covered, Booked, IsLastSave
<1>8. Merging(p, answer) => p.mounted /\ p.pending = NoSave /\ p.accepted \subseteq r.editor
  BY <1>3, <1>6 DEF Merging, IsLatestEdit, Accounts, Covered, Booked, Follows
<1>9. CASE Settles(p, r) /\ (Merging(p, answer) => p.editor \subseteq p.bodyRef \/ p.block # "none")
  <2>1. /\ r.revision = p.revision /\ r.scheduled = p.scheduled /\ r.block = p.block
        /\ r.unsaved = (IF p.unsaved.revision = p.inflight.revision THEN NoSave ELSE p.unsaved)
    BY <1>9 DEF Settles
  <2>2. r.accepted = p.accepted
    BY <1>2, <1>4, <2>1 DEF Accepting
  <2>3. Drafted(r)
    BY <1>3, <1>8, <2>2 DEF Drafted, Accounts, Covered, Booked
  <2>4. Waiters(r)
    <3>1. Follows(NoSave, p.accepted, p.revision)
      BY DEF Follows
    <3> QED BY <1>3, <2>1, <2>2, <3>1 DEF Waiters, Accounts, Covered, Booked
  <2>5. Unowed(r, C)
    <3>1. CASE p.unsaved = NoSave
      BY <1>3, <2>1, <2>2, <3>1 DEF Unowed, Accounts, Covered, Booked
    <3>2. CASE p.unsaved # NoSave
      BY <1>3, <1>6, <2>1, <2>2, <3>2 DEF Unowed, Accounts, Covered, Booked, Follows
    <3> QED BY <3>1, <3>2
  <2>6. LeavesWell(r, TRUE)
    <3> SUFFICES ASSUME ~p.mounted PROVE LeavesWell(r, TRUE)
      BY <1>3 DEF LeavesWell
    <3>1. p.unsaved # NoSave /\ r.unsaved # NoSave => p.inflight.revision # p.revision
      BY <1>6, <2>1
    <3>2. r.unsaved # NoSave => p.unsaved # NoSave
      BY <2>1
    <3> QED BY <1>3, <1>6, <2>1, <3>1, <3>2 DEF Accounts, Covered, Booked, LeftWell, LeavesWell, Carried
  <2>7. Local(C) \subseteq r.accepted
    BY <2>2 DEF Accounts, Covered, Booked
  <2>8. Notified(r)
    <3>1. Merging(p, answer) /\ r.block = "none" =>
            r.bodyRef = answer.body \cup (p.editor \ p.bodyRef) /\ p.editor \subseteq p.bodyRef
      BY <1>3, <1>9, <2>1
    <3> QED BY <1>3, <2>1, <2>2, <2>7, <3>1 DEF Accounts, Notified, Local
  <2> QED BY <1>1, <1>3, <1>5, <1>6, <1>7, <2>1, <2>3, <2>4, <2>5, <2>6, <2>7, <2>8, FinishAccounts DEF q
<1>10. CASE Merging(p, answer) /\ \E c \in Candidate : QueuesAgain(p, r, c)
  <2>1. PICK c \in Candidate : QueuesAgain(p, r, c)
    BY <1>10
  <2>2. /\ c # NoSave /\ c.revision = p.revision + 1 /\ c.body = r.editor
        /\ r.revision = c.revision /\ r.scheduled = c /\ r.unsaved = c
    BY <2>1 DEF QueuesAgain
  <2>3. r.accepted = r.editor /\ r.bodyRef = r.editor
    <3>1. q.revision # p.revision
      BY <1>4, <1>6, <2>2
    <3>2. r.accepted = p.accepted \cup r.editor
      BY <1>2, <1>4, <3>1 DEF Accepting
    <3> QED BY <1>3, <1>8, <1>10, <3>2
  <2>4. Drafted(r) /\ Waiters(r) /\ Unowed(r, C) /\ LeavesWell(r, TRUE)
    BY <1>3, <1>6, <1>8, <1>10, <2>2, <2>3 DEF Drafted, Waiters, Follows, Unowed, LeavesWell
  <2>5. r.sent <= r.revision
    BY <1>3, <1>6, <2>2
  <2>6. Local(C) \subseteq r.accepted /\ Notified(r)
    <3>1. p.accepted \subseteq r.accepted
      BY <1>8, <1>10, <2>3
    <3>2. p.block # "session-expired" => r.block # "session-expired"
      BY <2>1 DEF QueuesAgain
    <3> QED BY <2>3, <3>1, <3>2 DEF Accounts, Covered, Booked, Notified, Local
  <2> QED BY <1>1, <1>3, <1>5, <1>7, <2>4, <2>5, <2>6, FinishAccounts DEF q
<1> QED BY <1>3, <1>9, <1>10 DEF q

LEMMA FailsAccounts ==
  ASSUME NEW p, Sound(p), PageInOrder(p), NEW C, Accounts(p, C), p.inflight # NoSave,
         NEW r, Fails(p, r), FinishRequest(r, FALSE).accepted = p.accepted
  PROVE  Accounts(FinishRequest(r, FALSE), C) /\ FinishRequest(r, FALSE).flush.pc = p.flush.pc
<1>1. /\ Sound(r) /\ (r.mounted /\ r.status = "saved" => r.unsaved = NoSave)
      /\ r.editor = p.editor /\ r.bodyRef = p.bodyRef
      /\ r.inflight = p.inflight /\ r.seq = p.seq /\ r.saves = p.saves /\ r.sent = p.sent
      /\ r.mounted = p.mounted /\ r.flush = p.flush /\ r.block = p.block /\ r.unsaved = p.unsaved
      /\ r.scheduled = p.scheduled /\ r.revision = p.revision /\ ~r.agentRequired
      /\ r.pending = p.pending \/ (p.pending = NoSave /\ r.pending = p.inflight)
  BY DEF Fails, BadgeIsTrue, KeepsCall, PageInOrder, NoAgent
<1>2. r.accepted = p.accepted
  BY <1>1, FinishKeeps
<1>3. r.inflight # NoSave /\ r.seq \in r.saves.pending /\ Numbered(r.saves)
  BY <1>1 DEF PageInOrder, RequestIsTracked
<1>4. /\ p.revision \in Nat /\ p.sent \in Nat /\ p.pending.revision \in Nat
      /\ p.sent <= p.revision /\ p.inflight.revision = p.sent
      /\ p.pending # NoSave => p.block = "none" /\ p.sent <= p.pending.revision /\ p.pending.revision <= p.revision
  BY PageTypes DEF Sound, Page, PageInOrder, InOrder, RequestIsTracked
<1>5. /\ Drafted(r) /\ Waiters(r) /\ Unowed(r, C) /\ IsLastSave(r) /\ FlushFits(r.flush, r.mounted)
      /\ Local(C) \subseteq r.accepted /\ Notified(r)
  BY <1>1, <1>2 DEF Accounts, Covered, Booked, Drafted, Waiters, Unowed, IsLastSave, Notified
<1>6. LeavesWell(r, FALSE)
  BY <1>1, <1>4 DEF Accounts, Covered, Booked, LeftWell, LeavesWell, Carried
<1> QED BY <1>1, <1>3, <1>4, <1>5, <1>6, FinishAccounts

LEMMA BlockedAccounts ==
  ASSUME NEW p, Sound(p), PageInOrder(p), NEW C, Accounts(p, C), p.inflight # NoSave,
         NEW block \in {"lock-lost", "session-expired"}, MaxExpiries = 0 => block # "session-expired"
  PROVE  Accounts(OnBlocked(p, block), C) /\ OnBlocked(p, block).flush.pc = p.flush.pc
<1>1. PICK r : OnBlocked(p, block) = FinishRequest(r, FALSE) /\ Blocked(p, r, block)
  BY BlockedShape
<1>2. /\ Sound(r) /\ (r.mounted /\ r.status = "saved" => r.unsaved = NoSave)
      /\ r.editor = p.editor /\ r.bodyRef = p.bodyRef
      /\ r.inflight = p.inflight /\ r.seq = p.seq /\ r.saves = p.saves /\ r.sent = p.sent
      /\ r.mounted = p.mounted /\ r.flush = p.flush /\ r.block = block /\ r.unsaved = p.unsaved
      /\ r.scheduled = p.scheduled /\ r.revision = p.revision /\ ~r.agentRequired /\ r.pending = p.pending
  BY <1>1 DEF Blocked, BadgeIsTrue, KeepsCall, PageInOrder, NoAgent
<1>3. r.accepted = p.accepted
  <2>1. OnBlocked(p, block).accepted = p.accepted
    BY FailureKeeps
  <2>2. FinishRequest(r, FALSE).accepted = r.accepted
    BY <1>2, FinishKeeps
  <2> QED BY <1>1, <2>1, <2>2
<1>4. r.inflight # NoSave /\ r.seq \in r.saves.pending /\ Numbered(r.saves) /\ r.sent <= r.revision
  BY <1>2 DEF PageInOrder, RequestIsTracked, InOrder
<1>5. /\ Drafted(r) /\ Waiters(r) /\ Unowed(r, C) /\ IsLastSave(r) /\ FlushFits(r.flush, r.mounted)
      /\ Local(C) \subseteq r.accepted /\ Notified(r)
  BY <1>2, <1>3 DEF Accounts, Covered, Booked, Drafted, Waiters, Unowed, IsLastSave, Notified
<1>6. LeavesWell(r, FALSE)
  BY <1>2 DEF Accounts, Covered, Booked, LeftWell, LeavesWell
<1> QED BY <1>1, <1>2, <1>4, <1>5, <1>6, FinishAccounts

LEMMA AnsweredAccounts ==
  ASSUME NEW p, Sound(p), BadgeIsTrue(p), PageInOrder(p), NEW C, Accounts(p, C), p.inflight # NoSave
  PROVE  LET Good(q) == Accounts(q, C) /\ q.flush.pc = p.flush.pc
         IN  /\ \A latest \in Nat : Good(OnConflict(p, latest))
             /\ Good(OnFailed(p)) /\ Good(OnBlocked(p, "lock-lost"))
             /\ MaxExpiries # 0 => Good(OnBlocked(p, "session-expired"))
<1> DEFINE Good(q) == Accounts(q, C) /\ q.flush.pc = p.flush.pc
<1>1. p.inflight.source # "agent"
  BY DEF PageInOrder, NoAgent
<1>2. ASSUME NEW latest \in Nat PROVE Good(OnConflict(p, latest))
  <2>1. OnConflict(p, latest).accepted = p.accepted
    BY FailureKeeps
  <2>2. PICK r : OnConflict(p, latest) = FinishRequest(r, FALSE) /\ Fails(p, r)
    BY ConflictShape
  <2>3. FinishRequest(r, FALSE).accepted = p.accepted
    BY <2>1, <2>2
  <2>4. Good(FinishRequest(r, FALSE))
    BY <2>2, <2>3, FailsAccounts
  <2> QED BY <2>2, <2>4
<1>3. Good(OnFailed(p))
  <2>1. OnFailed(p).accepted = p.accepted
    BY <1>1, FailureKeeps
  <2>2. PICK r : OnFailed(p) = FinishRequest(r, FALSE) /\ Fails(p, r)
    BY <1>1, FailedShape
  <2>3. FinishRequest(r, FALSE).accepted = p.accepted
    BY <2>1, <2>2
  <2>4. Good(FinishRequest(r, FALSE))
    BY <2>2, <2>3, FailsAccounts
  <2> QED BY <2>2, <2>4
<1> QED BY <1>2, <1>3, BlockedAccounts

LEMMA FlushRoundAccounts ==
  ASSUME NEW p, Sound(p), PageInOrder(p), NEW C, Accounts(p, C)
  PROVE  LET q == FlushRound(p)
         IN  /\ Accounts(q, C)
             /\ q.flush.result = "ok" => /\ q.unsaved = NoSave
                                         /\ q.mounted /\ q.block = "none" => q.editor = q.bodyRef
<1> DEFINE synced  == BeforeFlush(p)
           open    == Unblocked(synced)
           cleared == ClearScheduledSave(open)
           sent    == TrackedFlushSave(cleared, open.unsaved)
           f       == [NoFlush EXCEPT !.pc = "saving", !.own = sent.seq]
           last    == [sent EXCEPT !.flush = f]
           q       == FlushRound(p)
           Done    == q.flush.result = "ok" => /\ q.unsaved = NoSave
                                               /\ q.mounted /\ q.block = "none" => q.editor = q.bodyRef
<1>1. /\ Sound(synced) /\ PageInOrder(synced) /\ Accounts(synced, C)
      /\ synced.unsaved = NoSave /\ synced.mounted /\ synced.block = "none" => synced.editor = synced.bodyRef
  BY BeforeFlushSound, BeforeFlushInOrder, BeforeFlushAccounts
<1> HIDE DEF synced
<1>2. /\ Sound(open) /\ PageInOrder(open) /\ Accounts(open, C)
      /\ open.unsaved = synced.unsaved
  BY <1>1, UnblockedSound, UnblockedInOrder, UnblockedAccounts, UnblockedShape DEF KeepsRest, KeepsPage
<1> HIDE DEF open
<1>3. q = (IF synced.unsaved = NoSave THEN EndFlush(synced, synced.saves.success)
           ELSE IF open.block # "none" THEN EndFlush(open, FALSE) ELSE last)
  BY DEF FlushRound, synced, open
<1>4. \A x, ok : /\ EndFlush(x, ok) = [x EXCEPT !.flush = [NoFlush EXCEPT !.result = IF ok THEN "ok" ELSE "failed"]]
                 /\ [NoFlush EXCEPT !.result = IF ok THEN "ok" ELSE "failed"].pc = "idle"
  BY DEF EndFlush, NoFlush
<1>5. CASE synced.unsaved = NoSave
  <2>1. PICK g : q = [synced EXCEPT !.flush = g] /\ g.pc = "idle"
    BY <1>3, <1>4, <1>5
  <2>2. /\ q.unsaved = synced.unsaved /\ q.mounted = synced.mounted /\ q.block = synced.block
        /\ q.editor = synced.editor /\ q.bodyRef = synced.bodyRef
    BY <1>1, <2>1 DEF Sound, Page
  <2>3. FlushFits(g, synced.mounted)
    BY <2>1 DEF FlushFits
  <2> HIDE DEF q
  <2>4. Accounts(q, C)
    BY <1>1, <1>5, <2>1, <2>3, FlushFieldAccounts
  <2> QED BY <1>1, <1>5, <2>2, <2>4 DEF q
<1>6. CASE synced.unsaved # NoSave /\ open.block # "none"
  <2>1. /\ q = [open EXCEPT !.flush = [NoFlush EXCEPT !.result = "failed"]]
        /\ [NoFlush EXCEPT !.result = "failed"].pc = "idle"
    BY <1>3, <1>4, <1>6 DEF EndFlush, NoFlush
  <2>2. q.flush.result = "failed"
    BY <1>2, <2>1 DEF Sound, Page, NoFlush
  <2>3. FlushFits([NoFlush EXCEPT !.result = "failed"], open.mounted)
    BY <2>1 DEF FlushFits
  <2> HIDE DEF q
  <2>4. Accounts(q, C)
    BY <1>2, <1>6, <2>1, <2>3, FlushFieldAccounts
  <2> QED BY <2>2, <2>4 DEF q
<1>7. CASE synced.unsaved # NoSave /\ open.block = "none"
  <2>1. /\ Sound(cleared) /\ PageInOrder(cleared) /\ Accounts(cleared, C) /\ cleared.revision = open.revision
        /\ cleared.accepted = open.accepted /\ cleared.block = "none" /\ cleared.scheduled = NoSave
    BY <1>2, <1>7, ClearScheduledSound, ClearedInOrder, ClearedAccounts, ClearScheduledShape
  <2> HIDE DEF cleared
  <2>2. /\ open.unsaved \in Candidate /\ open.unsaved # NoSave /\ open.unsaved.source = "user"
        /\ open.unsaved.revision = cleared.revision
    <3>1. open.unsaved \in Candidate
      BY <1>2 DEF Sound, Page
    <3>2. open.unsaved # NoSave /\ open.unsaved.revision = open.revision
      BY <1>2, <1>7 DEF Sound, UnsavedIsNewest
    <3> QED BY <1>2, <2>1, <3>1, <3>2 DEF PageInOrder, NoAgent
  <2>3. open.unsaved.body = cleared.accepted
    <3>1. Follows(open.unsaved, open.accepted, open.revision)
      BY <1>2 DEF Accounts, Covered, Booked, Waiters
    <3>2. open.unsaved.revision = open.revision
      BY <2>1, <2>2
    <3>3. open.unsaved.body = open.accepted
      BY <2>2, <3>1, <3>2 DEF Follows
    <3> QED BY <2>1, <3>3
  <2>4. Sound(sent) /\ (sent.block = "none" => Carried(sent)) /\ Accounts(sent, C)
    BY <2>1, <2>2, <2>3, TrackedFlushSound, TrackedInOrder, TrackedAccounts DEF Accounts, Covered
  <2> HIDE DEF sent
  <2>5. f.pc = "saving" /\ f.result = "none"
    BY DEF NoFlush
  <2> HIDE DEF f
  <2>6. FlushFits(f, sent.mounted)
    BY <2>5 DEF FlushFits
  <2>7. Accounts(last, C)
    BY <2>4, <2>6, FlushFieldAccounts
  <2>8. last.flush = f
    BY <2>4 DEF Sound, Page
  <2> HIDE DEF last
  <2>9. q = last
    BY <1>3, <1>7
  <2> HIDE DEF q
  <2>10. Done
    BY <2>5, <2>8, <2>9
  <2> QED BY <2>7, <2>9, <2>10 DEF q
<1> QED BY <1>5, <1>6, <1>7

(* The steps of the note. *)

\* What every step but the end of a flush has to show.
Accounted(p, q) == Accounts(q, Current) /\ (p.flush.pc # "idle" => q.flush.result # "ok")

LEMMA SameFlush ==
  ASSUME NEW p, NEW q, Accounts(q, Current), q.flush.pc = p.flush.pc
  PROVE  Accounted(p, q)
BY DEF Accounted, Accounts, Covered, Booked, FlushFits

LEMMA AnsweredSteps ==
  ASSUME OrderInv, Accounts(page, Current), MaxExpiries = 0 => LockInv, Answered,
         reply.kind = "ok" => page.inflight.body \subseteq reply.body /\ reply.body \subseteq Current
  PROVE  Accounted(page, page')
<1>1. /\ Sound(page) /\ BadgeIsTrue(page) /\ PageInOrder(page) /\ reply \in Reply /\ NoReply.kind = "waiting"
  BY DEF OrderInv, IInv, PageIsSound, RestTypeOK, NoReply
<1>2. page.inflight # NoSave
  BY <1>1 DEF OrderInv, AnswersARequest, Answered, SaveSucceeds, SaveConflicts, SaveFails, SaveForbidden,
              SaveUnauthorized
<1>3. CASE SaveSucceeds
  <2>1. /\ page' = OnSaved(page, reply) /\ page.inflight.body \subseteq reply.body /\ reply.body \subseteq Current
    BY <1>3 DEF SaveSucceeds
  <2>2. Accounts(page', Current) /\ page'.flush.pc = page.flush.pc
    BY <1>1, <1>2, <2>1, SavedAccounts
  <2> QED BY <2>2, SameFlush
<1>4. CASE SaveConflicts
  <2>1. PICK latest \in Nat : page' = OnConflict(page, latest)
    BY <1>1, <1>4 DEF SaveConflicts, Reply
  <2>2. Accounts(page', Current) /\ page'.flush.pc = page.flush.pc
    BY <1>1, <1>2, <2>1, AnsweredAccounts
  <2> QED BY <2>2, SameFlush
<1>5. CASE SaveFails
  <2>1. page' = OnFailed(page)
    BY <1>5 DEF SaveFails
  <2>2. Accounts(page', Current) /\ page'.flush.pc = page.flush.pc
    BY <1>1, <1>2, <2>1, AnsweredAccounts
  <2> QED BY <2>2, SameFlush
<1>6. CASE SaveForbidden
  <2>1. page' = OnBlocked(page, "lock-lost")
    BY <1>6 DEF SaveForbidden
  <2>2. Accounts(page', Current) /\ page'.flush.pc = page.flush.pc
    BY <1>1, <1>2, <2>1, AnsweredAccounts
  <2> QED BY <2>2, SameFlush
<1>7. CASE SaveUnauthorized
  <2>1. page' = OnBlocked(page, "session-expired") /\ MaxExpiries # 0
    BY <1>7 DEF SaveUnauthorized, LockInv
  <2>2. Accounts(page', Current) /\ page'.flush.pc = page.flush.pc
    BY <1>1, <1>2, <2>1, AnsweredAccounts
  <2> QED BY <2>2, SameFlush
<1> QED BY <1>3, <1>4, <1>5, <1>6, <1>7 DEF Answered

LEMMA TimerAccounts ==
  ASSUME OrderInv, Accounts(page, Current), MarkdownUpdated \/ DebounceFires \/ AgentRetryFires \/ SaveShortcut
  PROVE  Accounted(page, page')
<1>1. Sound(page) /\ PageInOrder(page) /\ page.scheduled \in Candidate
  BY DEF OrderInv, IInv, PageIsSound, Sound, Page
<1>2. CASE MarkdownUpdated
  <2>1. page' = BeforeFlush(page)
    BY <1>2 DEF MarkdownUpdated, BeforeFlush
  <2> QED BY <1>1, <2>1, BeforeFlushAccounts, SameFlush
<1>3. CASE DebounceFires
  <2> DEFINE p == [page EXCEPT !.timer = "off", !.scheduled = NoSave]
  <2>1. /\ p.mounted = page.mounted /\ p.revision = page.revision /\ p.scheduled = NoSave
        /\ p.editor = page.editor /\ p.bodyRef = page.bodyRef /\ p.accepted = page.accepted
        /\ p.unsaved = page.unsaved /\ p.agentRequired = page.agentRequired
        /\ p.retryTimer = page.retryTimer /\ p.retryCandidate = page.retryCandidate
        /\ p.status = page.status /\ p.block = page.block /\ p.flush = page.flush /\ KeepsRequest(page, p)
        /\ Sound(p)
    BY <1>1, NoSaveType DEF Sound, UnsavedIsNewest, Page, KeepsRequest
  <2>2. page' = (IF page.scheduled = NoSave THEN p ELSE TrackedFlushSave(p, page.scheduled))
    BY <1>3 DEF DebounceFires
  <2> HIDE DEF p
  <2>3. Accounts(p, Current)
    BY <2>1, StillAccounts
  <2>4. PageInOrder(p)
    BY <1>1, <2>1, UserDefault DEF PageInOrder, RequestIsTracked, NoAgent, InOrder, ErrorEnds, KeepsRequest
  <2>5. CASE page.scheduled # NoSave
    <3>1. page.scheduled.source = "user" /\ page.scheduled.revision = p.revision
      BY <1>1, <2>1, <2>5 DEF PageInOrder, NoAgent, InOrder
    <3>2. page.scheduled.body = p.accepted /\ page.mounted
      BY <2>1, <2>5, <3>1 DEF Accounts, Covered, Booked, Waiters, Follows, LeftWell
    <3>3. Accounts(page', Current)
      BY <1>1, <2>1, <2>2, <2>3, <2>4, <2>5, <3>1, <3>2, TrackedAccounts DEF Accounts, Covered
    <3>4. page'.flush = page.flush
      BY <1>1, <2>1, <2>2, <2>5, TrackedShape DEF KeepsRest
    <3> QED BY <3>3, <3>4, SameFlush
  <2> QED BY <2>1, <2>2, <2>3, <2>5, SameFlush
<1>4. CASE AgentRetryFires
  BY <1>1, <1>4 DEF AgentRetryFires, PageInOrder, NoAgent
<1>5. CASE SaveShortcut
  BY <1>1, <1>5, SaveNowAccounts, SameFlush DEF SaveShortcut
<1> QED BY <1>2, <1>3, <1>4, <1>5

LEMMA EditAccounts ==
  ASSUME OrderInv, Ops = {}, Accounts(page, Current), Type \/ ToggleAutoSave \/ \E op \in Ops : ApplyMarkdown(op)
  PROVE  Accounted(page, page')
<1>1. Sound(page)
  BY DEF OrderInv, IInv, PageIsSound
<1>2. CASE Type
  <2> DEFINE body == page.editor \cup {NextEdit}
             q    == [page EXCEPT !.editor = body]
  <2>1. page' = q
    BY <1>2 DEF Type
  <2>2. page.editor \subseteq body
    OBVIOUS
  <2> HIDE DEF body
  <2>3. /\ KeepsRequest(page, q)
        /\ q.editor = body /\ q.bodyRef = page.bodyRef /\ q.mounted = page.mounted /\ q.revision = page.revision
        /\ q.scheduled = page.scheduled /\ q.unsaved = page.unsaved /\ q.accepted = page.accepted
        /\ q.block = page.block /\ q.flush = page.flush
    BY <1>1 DEF Sound, Page, KeepsRequest
  <2> HIDE DEF q
  <2>4. Accounts(q, Current)
    BY <2>2, <2>3 DEF Accounts, Covered, Booked, Notified, Drafted, Waiters, Unowed, IsLastSave, LeftWell,
                      Carried, KeepsRequest
  <2> QED BY <2>1, <2>3, <2>4, SameFlush
<1>3. CASE ToggleAutoSave
  <2>1. PICK on, timer : page' = [page EXCEPT !.autoSave = on, !.timer = timer]
    BY <1>3 DEF ToggleAutoSave
  <2> DEFINE q == [page EXCEPT !.autoSave = on, !.timer = timer]
  <2>2. /\ KeepsRequest(page, q)
        /\ q.editor = page.editor /\ q.bodyRef = page.bodyRef /\ q.mounted = page.mounted
        /\ q.revision = page.revision /\ q.scheduled = page.scheduled /\ q.unsaved = page.unsaved
        /\ q.accepted = page.accepted /\ q.block = page.block /\ q.flush = page.flush
    BY <1>1 DEF Sound, Page, KeepsRequest
  <2> HIDE DEF q
  <2>3. Accounts(q, Current)
    BY <2>2, StillAccounts
  <2> QED BY <2>1, <2>2, <2>3, SameFlush DEF q
<1> QED BY <1>2, <1>3

LEMMA LoseLockAccounts ==
  ASSUME OrderInv, Accounts(page, Current), LoseLock
  PROVE  Accounted(page, page')
<1> DEFINE lost == [page EXCEPT !.lock = "lost"]
           b    == [lost EXCEPT !.block = "lock-lost", !.pending = NoSave]
           c    == ClearScheduledSave(b)
           s    == SetStatus(c, "lock-lost")
<1>1. Sound(page) /\ page.mounted
  BY DEF OrderInv, IInv, PageIsSound, LoseLock
<1>2. /\ Sound(lost) /\ KeepsRequest(page, lost)
      /\ lost.editor = page.editor /\ lost.bodyRef = page.bodyRef /\ lost.accepted = page.accepted
      /\ lost.mounted = page.mounted /\ lost.revision = page.revision /\ lost.scheduled = page.scheduled
      /\ lost.unsaved = page.unsaved /\ lost.block = page.block /\ lost.flush = page.flush
  BY <1>1 DEF Sound, UnsavedIsNewest, Page, KeepsRequest
<1>3. page' = (IF page.block = "lock-lost" THEN lost ELSE s)
  BY DEF LoseLock
<1> HIDE DEF lost
<1>4. CASE page.block = "lock-lost"
  <2>1. Accounts(lost, Current)
    BY <1>2, StillAccounts
  <2> QED BY <1>2, <1>3, <1>4, <2>1, SameFlush
<1>5. CASE page.block # "lock-lost"
  <2>1. /\ Sound(b) /\ b.inflight = lost.inflight /\ b.seq = lost.seq /\ b.saves = lost.saves
        /\ b.sent = lost.sent /\ b.pending = NoSave /\ b.block = "lock-lost"
        /\ b.editor = lost.editor /\ b.bodyRef = lost.bodyRef /\ b.accepted = lost.accepted
        /\ b.mounted = lost.mounted /\ b.revision = lost.revision /\ b.unsaved = lost.unsaved
        /\ b.flush = lost.flush
    BY <1>2, NoSaveType DEF Sound, UnsavedIsNewest, Page, Blocks
  <2> HIDE DEF b
  <2>2. /\ Sound(c) /\ KeepsRequest(b, c) /\ c.block = b.block /\ c.mounted = b.mounted /\ c.revision = b.revision
        /\ c.editor = b.editor /\ c.bodyRef = b.bodyRef /\ c.accepted = b.accepted
        /\ c.unsaved = b.unsaved /\ c.scheduled = NoSave /\ c.flush = b.flush
    BY <2>1, ClearScheduledSound, ClearScheduledShape
  <2> HIDE DEF c
  <2>3. KeepsRest(c, s) /\ KeepsRequest(c, s) /\ s.block = c.block
    BY <2>2, SetStatusShape
  <2> HIDE DEF s
  <2>4. /\ s.inflight = page.inflight /\ s.seq = page.seq /\ s.saves = page.saves
        /\ s.sent = page.sent /\ s.pending = NoSave /\ s.block = "lock-lost" /\ s.revision = page.revision
        /\ s.editor = page.editor /\ s.bodyRef = page.bodyRef /\ s.accepted = page.accepted
        /\ s.unsaved = page.unsaved /\ s.scheduled = NoSave /\ s.mounted /\ s.flush = page.flush
    BY <1>1, <1>2, <2>1, <2>2, <2>3 DEF KeepsRequest, KeepsRest, KeepsPage
  <2>5. Follows(NoSave, page.accepted, page.revision)
    BY DEF Follows
  <2>6. Accounts(s, Current)
    BY <1>1, <2>4, <2>5 DEF Accounts, Covered, Booked, Notified, Drafted, Waiters, Unowed, IsLastSave, LeftWell
  <2> QED BY <1>3, <1>5, <2>4, <2>6, SameFlush
<1> QED BY <1>4, <1>5

\* A refusal tracked as a save that failed at once.
LEMMA RefusalFails ==
  ASSUME NEW s \in DocumentSaveState, Numbered(s), NEW n \in Nat, n \in s.pending \/ n = s.sequence
  PROVE  ~TrackSettled(s, FALSE).success /\ TrackSettled(s, FALSE).sequence # n
<1>1. /\ s.sequence \in Nat /\ n <= s.sequence
      /\ Track(s) \in DocumentSaveState /\ Track(s).sequence = s.sequence + 1
  BY TrackType, TrackNumbered DEF DocumentSaveState, Numbered
<1> DEFINE t == Track(s)
<1>2. TrackSettled(s, FALSE) = [t EXCEPT !.success = FALSE, !.pending = t.pending \ {s.sequence + 1}]
  BY <1>1 DEF TrackSettled, Settle
<1> HIDE DEF t
<1>3. t.sequence = s.sequence + 1 /\ t \in DocumentSaveState
  BY <1>1 DEF t
<1>4. /\ [t EXCEPT !.success = FALSE, !.pending = t.pending \ {s.sequence + 1}].success = FALSE
      /\ [t EXCEPT !.success = FALSE, !.pending = t.pending \ {s.sequence + 1}].sequence = t.sequence
  BY <1>3 DEF DocumentSaveState
<1>5. n # s.sequence + 1
  BY <1>1
<1> QED BY <1>2, <1>3, <1>4, <1>5

LEMMA UnmountAccounts ==
  ASSUME OrderInv, Accounts(page, Current), Unmount
  PROVE  Accounted(page, page')
<1> DEFINE waiting  == IF page.scheduled # NoSave THEN page.scheduled
                       ELSE IF page.inflight = NoSave THEN page.unsaved ELSE NoSave
           detached == SelectDetachedSaveCandidate(waiting, page.retryCandidate)
           away     == [page EXCEPT !.mounted = FALSE]
           cleared  == ClearScheduledSave(away)
           gone     == Unblocked(cleared)
           settled  == [gone EXCEPT !.saves = TrackSettled(@, FALSE)]
<1>1. /\ Sound(page) /\ PageInOrder(page) /\ Holds(page) /\ page.mounted
      /\ page.scheduled \in Candidate /\ page.unsaved \in Candidate
      /\ page.flush.pc # "idle" => page.flush.result = "none"
      /\ page.flush.pc # "settling"
  BY DEF OrderInv, IInv, PageIsSound, Sound, Page, Unmount, Accounts, Covered, Booked, FlushFits
<1>2. detached = waiting
  BY <1>1 DEF SelectDetachedSaveCandidate, PageInOrder, NoAgent
<1>3. detached # NoSave => /\ detached \in Candidate /\ detached.source = "user"
                           /\ detached.revision = page.revision /\ detached.body = page.accepted
  BY <1>1, <1>2 DEF Sound, UnsavedIsNewest, PageInOrder, NoAgent, InOrder, Accounts, Covered, Booked, Waiters, Follows
<1>4. detached = NoSave /\ page.block # "lock-lost" /\ page.unsaved # NoSave =>
        page.flush.pc = "draining" \/ Carried(page)
  <2>1. SUFFICES ASSUME detached = NoSave, page.block # "lock-lost", page.unsaved # NoSave
                 PROVE  page.flush.pc = "draining" \/ Carried(page)
    OBVIOUS
  <2>2. page.scheduled = NoSave /\ page.inflight # NoSave
    BY <1>2, <2>1
  <2>3. page.block = "none"
    BY <1>1, <2>1, <2>2 DEF Accounts, Covered, Booked, Sound, Page, Blocks
  <2> QED BY <1>1, <2>1, <2>2, <2>3, HeldInRequest
<1> HIDE DEF detached, waiting
<1>5. /\ Sound(away) /\ KeepsRequest(page, away) /\ away.mounted = FALSE /\ away.revision = page.revision
      /\ away.editor = page.editor /\ away.bodyRef = page.bodyRef /\ away.accepted = page.accepted
      /\ away.scheduled = page.scheduled /\ away.unsaved = page.unsaved /\ away.agentRequired = page.agentRequired
      /\ away.retryTimer = page.retryTimer /\ away.retryCandidate = page.retryCandidate
      /\ away.block = page.block /\ away.flush = page.flush
  BY <1>1 DEF Sound, UnsavedIsNewest, Page, KeepsRequest
<1> HIDE DEF away
<1>6. PageInOrder(away)
  BY <1>1, <1>5 DEF PageInOrder, RequestIsTracked, NoAgent, InOrder, ErrorEnds, KeepsRequest
<1>7. /\ Sound(cleared) /\ PageInOrder(cleared) /\ KeepsRequest(page, cleared)
      /\ cleared.mounted = FALSE /\ cleared.revision = page.revision
      /\ cleared.editor = page.editor /\ cleared.bodyRef = page.bodyRef /\ cleared.accepted = page.accepted
      /\ cleared.scheduled = NoSave /\ cleared.unsaved = page.unsaved
      /\ cleared.block = page.block /\ cleared.flush = page.flush
  BY <1>5, <1>6, ClearScheduledSound, ClearedInOrder, ClearScheduledShape DEF KeepsRequest
<1> HIDE DEF cleared
<1>8. /\ Sound(gone) /\ PageInOrder(gone) /\ KeepsRequest(page, gone)
      /\ gone.mounted = FALSE /\ gone.revision = page.revision
      /\ gone.editor = page.editor /\ gone.bodyRef = page.bodyRef /\ gone.accepted = page.accepted
      /\ gone.scheduled = NoSave /\ gone.unsaved = page.unsaved /\ gone.flush = page.flush
      /\ gone.block = page.block \/ (page.block = "session-expired" /\ gone.block = "none")
  BY <1>7, UnblockedSound, UnblockedInOrder, UnblockedShape DEF KeepsRest, KeepsPage, KeepsRequest, Blocking
<1>9. page' = (IF gone.block # "none"
               THEN IF gone.unsaved # NoSave THEN settled ELSE gone
               ELSE IF detached # NoSave THEN TrackedFlushSave(gone, detached) ELSE gone)
  BY DEF Unmount, gone, cleared, away, detached, waiting
<1> HIDE DEF gone
<1>10. Booked(gone, Current) /\ Notified(gone)
  <2>1. Follows(NoSave, page.accepted, page.revision)
    BY DEF Follows
  <2> QED BY <1>1, <1>8, <2>1
          DEF Accounts, Covered, Booked, Notified, Drafted, Waiters, Unowed, IsLastSave, FlushFits, KeepsRequest
<1>11. CASE gone.block # "none" /\ gone.unsaved # NoSave
  <2>1. /\ settled.mounted = gone.mounted /\ settled.revision = gone.revision /\ settled.scheduled = gone.scheduled
        /\ settled.editor = gone.editor /\ settled.bodyRef = gone.bodyRef /\ settled.accepted = gone.accepted
        /\ settled.unsaved = gone.unsaved /\ settled.flush = gone.flush
        /\ settled.inflight = gone.inflight /\ settled.seq = gone.seq
        /\ settled.sent = gone.sent /\ settled.pending = gone.pending /\ settled.block = gone.block
        /\ settled.saves = TrackSettled(gone.saves, FALSE)
    BY <1>8 DEF Sound, Page
  <2>2. /\ gone.saves \in DocumentSaveState /\ Numbered(gone.saves) /\ gone.seq \in Nat /\ gone.saves.sequence \in Nat
        /\ gone.inflight # NoSave => gone.seq \in gone.saves.pending
    BY <1>8 DEF Sound, Page, PageInOrder, RequestIsTracked, DocumentSaveState
  <2>3. /\ ~settled.saves.success
        /\ settled.inflight # NoSave => settled.saves.sequence # settled.seq
    <3>1. ~TrackSettled(gone.saves, FALSE).success
      BY <2>2, RefusalFails
    <3>2. gone.seq \in gone.saves.pending => TrackSettled(gone.saves, FALSE).sequence # gone.seq
      BY <2>2, RefusalFails
    <3> QED BY <2>1, <2>2, <3>1, <3>2
  <2> HIDE DEF settled
  <2>4. LeftWell(settled)
    BY <1>8, <1>11, <2>1, <2>3 DEF LeftWell
  <2>5. Accounts(settled, Current)
    BY <1>10, <2>1, <2>3, <2>4
       DEF Accounts, Covered, Booked, Notified, Drafted, Waiters, Unowed, IsLastSave
  <2> QED BY <1>8, <1>9, <1>11, <2>1, <2>5, SameFlush
<1>12. CASE gone.block = "none" /\ detached # NoSave
  <2>1. Accounts(page', Current)
    BY <1>3, <1>8, <1>9, <1>10, <1>12, TrackedAccounts
  <2>2. page'.flush = gone.flush
    BY <1>3, <1>8, <1>9, <1>12, TrackedShape DEF KeepsRest
  <2> QED BY <1>8, <2>1, <2>2, SameFlush
<1>13. CASE page' = gone /\ (gone.unsaved = NoSave \/ (gone.block = "none" /\ detached = NoSave))
  <2>1. LeftWell(gone)
    BY <1>4, <1>8, <1>13 DEF LeftWell, Carried, KeepsRequest
  <2> QED BY <1>8, <1>10, <1>13, <2>1, SameFlush DEF Accounts, Covered
<1> QED BY <1>9, <1>11, <1>12, <1>13

LEMMA OpenedAccounts ==
  ASSUME NEW body, NEW version, NEW saves
  PROVE  Accounts(Opened(body, version, saves), body)
<1> DEFINE p == Opened(body, version, saves)
<1>1. /\ p.editor = body /\ p.bodyRef = body /\ p.mounted /\ p.revision = 0 /\ p.sent = 0 /\ p.block = "none"
      /\ p.scheduled = NoSave /\ p.unsaved = NoSave /\ p.pending = NoSave /\ p.inflight = NoSave
      /\ p.accepted = Local(body) /\ p.flush = NoFlush
  BY DEF Opened, Local
<1>2. \A A, n : Follows(NoSave, A, n)
  BY DEF Follows
<1>3. FlushFits(NoFlush, TRUE)
  BY DEF FlushFits, NoFlush
<1> HIDE DEF p
<1> QED BY <1>1, <1>2, <1>3
    DEF Accounts, Covered, Booked, Notified, Drafted, Waiters, Unowed, IsLastSave, LeftWell, FlushFits, Local, p

LEMMA ReopenAccounts ==
  ASSUME OrderInv, Reopen
  PROVE  Accounted(page, page')
<1>1. page' = Opened(Current, Len(bodies), page.saves) /\ page.flush.pc = "idle"
  BY DEF Reopen
<1> QED BY <1>1, OpenedAccounts DEF Accounted

LEMMA StartFlushAccounts ==
  ASSUME OrderInv, Accounts(page, Current), StartFlush
  PROVE  Accounted(page, page')
<1>1. Sound(page) /\ page.flush.pc = "idle"
  BY DEF OrderInv, IInv, PageIsSound, StartFlush
<1>2. CASE page.mounted
  <2> DEFINE synced  == BeforeFlush(page)
             cleared == ClearScheduledSave(synced)
             f       == [NoFlush EXCEPT !.pc = "draining"]
  <2>1. Sound(synced) /\ Accounts(synced, Current) /\ synced.mounted
    BY <1>1, <1>2, BeforeFlushSound, BeforeFlushAccounts
  <2>2. page' = [cleared EXCEPT !.flush = f]
    BY <1>2 DEF StartFlush
  <2> HIDE DEF synced
  <2>3. Sound(cleared) /\ Accounts(cleared, Current)
    BY <2>1, ClearScheduledSound, ClearedAccounts
  <2>4. f.pc = "draining" /\ FlushFits(f, cleared.mounted)
    BY DEF NoFlush, FlushFits
  <2> HIDE DEF cleared, f
  <2> QED BY <1>1, <2>2, <2>3, <2>4, FlushFieldAccounts DEF Accounted
<1>3. CASE ~page.mounted
  <2> DEFINE f == [NoFlush EXCEPT !.pc = "settling"]
  <2>1. page' = [page EXCEPT !.flush = f]
    BY <1>3 DEF StartFlush
  <2>2. FlushFits(f, page.mounted)
    BY <1>3 DEF NoFlush, FlushFits
  <2> HIDE DEF f
  <2> QED BY <1>1, <2>1, <2>2, FlushFieldAccounts DEF Accounted
<1> QED BY <1>2, <1>3

\* The end of a flush that succeeds: nothing accepted is missing on the server.
LEMMA ContinueFlushAccounts ==
  ASSUME OrderInv, Accounts(page, Current), ContinueFlush
  PROVE  /\ Accounts(page', Current)
         /\ page'.flush.result = "ok" =>
              /\ page'.accepted \subseteq Current
              /\ MaxExpiries = 0 /\ page'.mounted /\ page'.block = "none" => Local(page'.editor) \subseteq Current
<1>1. Sound(page) /\ PageInOrder(page) /\ page.inflight = NoSave /\ page.pending = NoSave
  BY DEF OrderInv, IInv, PageIsSound, PageInOrder, RequestIsTracked, ContinueFlush, FlushReady, Drained
<1>2. \A x, ok : /\ EndFlush(x, ok) = [x EXCEPT !.flush = [NoFlush EXCEPT !.result = IF ok THEN "ok" ELSE "failed"]]
                 /\ FlushFits([NoFlush EXCEPT !.result = IF ok THEN "ok" ELSE "failed"], x.mounted)
                 /\ [NoFlush EXCEPT !.result = IF ok THEN "ok" ELSE "failed"].result = "ok" => ok
  BY DEF EndFlush, NoFlush, FlushFits
<1>3. ASSUME NEW ok, page' = EndFlush(page, ok), page.flush.pc # "draining",
             ok => page.accepted \subseteq Current /\ ~page.mounted
      PROVE  /\ Accounts(page', Current)
             /\ page'.flush.result = "ok" => page'.accepted \subseteq Current /\ ~page'.mounted
  <2>1. PICK f : page' = [page EXCEPT !.flush = f] /\ FlushFits(f, page.mounted) /\ (f.result = "ok" => ok)
    BY <1>2, <1>3
  <2>2. page'.flush = f /\ page'.accepted = page.accepted /\ page'.mounted = page.mounted
    BY <1>1, <2>1 DEF Sound, Page
  <2>3. Accounts(page', Current)
    BY <1>1, <1>3, <2>1, FlushFieldAccounts
  <2> QED BY <1>3, <2>1, <2>2, <2>3
<1>4. CASE page.flush.pc = "settling"
  <2>1. page' = EndFlush(page, page.saves.success)
    BY <1>4 DEF ContinueFlush
  <2>2. ~page.mounted
    BY <1>4 DEF Accounts, Covered, Booked, FlushFits
  <2>3. page.saves.success => page.unsaved = NoSave
    BY <1>1, <1>4, <2>2 DEF Accounts, Covered, LeftWell, Carried
  <2>4. page.saves.success => page.accepted \subseteq Current
    BY <2>3 DEF Accounts, Covered, Booked, Unowed
  <2> QED BY <1>3, <1>4, <2>1, <2>2, <2>4
<1>5. CASE page.flush.pc = "saving" /\ ~page.flush.saved /\ page.unsaved # NoSave
  <2>1. page' = EndFlush(page, FALSE)
    BY <1>5 DEF ContinueFlush
  <2> QED BY <1>3, <1>5, <2>1
<1>6. CASE ~(page.flush.pc = "settling") /\ ~(page.flush.pc = "saving" /\ ~page.flush.saved /\ page.unsaved # NoSave)
  <2>1. page' = FlushRound(page)
    BY <1>6 DEF ContinueFlush
  <2>2. /\ Accounts(page', Current)
        /\ page'.flush.result = "ok" => /\ page'.unsaved = NoSave
                                        /\ page'.mounted /\ page'.block = "none" => page'.editor = page'.bodyRef
    BY <1>1, <2>1, FlushRoundAccounts
  <2>3. page'.unsaved = NoSave => page'.accepted \subseteq Current
    BY <2>2 DEF Accounts, Covered, Booked, Unowed
  <2>4. MaxExpiries = 0 /\ page'.block = "none" => Local(page'.bodyRef) \subseteq page'.accepted
    BY <2>2 DEF Accounts, Notified
  <2> QED BY <2>2, <2>3, <2>4
<1> QED BY <1>4, <1>5, <1>6

(***************************************************************************)
(* The inductive invariant: the page accounts for what it accepted, and an *)
(* answer on its way holds what was sent and nothing the server lost.      *)
(***************************************************************************)
AnswerCounts(p, answer, C) == answer.kind = "ok" => p.inflight.body \subseteq answer.body /\ answer.body \subseteq C

AccountsInv ==
  /\ OrderInv /\ (MaxExpiries = 0 => LockInv)
  /\ Accounts(page, Current) /\ AnswerCounts(page, reply, Current)

\* The server only ever adds the request to what it has, or replaces it by the request.
LEMMA ServerAccounts ==
  ASSUME AccountsInv, Server
  PROVE  page' = page /\ Accounts(page, Current') /\ AnswerCounts(page, reply', Current')
<1>1. page' = page /\ page.inflight # NoSave
  BY DEF Server, ServerCommits, ServerConflicts, RequestLost, ServerForbids, SessionRefuses, Waiting
<1>2. /\ bodies \in Seq(SUBSET Edits) /\ Current \in SUBSET Edits /\ page.inflight.body \in SUBSET Edits
      /\ Accounts(page, Current) /\ page.inflight.revision = page.sent
  BY <1>1, CurrentType DEF AccountsInv, OrderInv, IInv, RestTypeOK, PageIsSound, Sound, Page, Candidate,
                           PageInOrder, InOrder
<1>3. CASE ServerCommits
  <2>1. PICK saved \in Commit(page.inflight.body, page.base) :
          /\ bodies' = Append(bodies, saved.body)
          /\ \/ reply' = [kind |-> "ok", version |-> Len(bodies) + 1,
                          merge |-> saved.merge, body |-> saved.body]
             \/ reply' = [NoReply EXCEPT !.kind = "failed"]
    BY <1>3 DEF ServerCommits
  <2>2. saved.body \in {page.inflight.body, page.inflight.body \cup (Current \ bodies[page.base])}
    BY <2>1 DEF Commit
  <2>3. /\ saved.body \in SUBSET Edits /\ page.inflight.body \subseteq saved.body
        /\ saved.body \subseteq page.inflight.body \cup Current
    BY <1>2, <2>2
  <2>4. Len(bodies') = Len(bodies) + 1 /\ bodies'[Len(bodies) + 1] = saved.body
    BY <1>2, <2>1, <2>3
  <2>5. Current' = saved.body
    BY <2>4 DEF Current
  <2>6. reply'.kind = "ok" => reply'.body = saved.body
    BY <2>1 DEF NoReply
  <2>7. Local(saved.body) \subseteq page.accepted
    BY <1>1, <1>2, <2>3 DEF Local, Accounts, Covered, Booked, Follows
  <2>8. Unowed(page, saved.body)
    BY <1>1, <1>2, <2>3 DEF Accounts, Covered, Booked, Unowed, Follows
  <2>9. Accounts(page, saved.body)
    BY <1>2, <2>7, <2>8 DEF Accounts, Covered, Booked
  <2> QED BY <1>1, <2>3, <2>5, <2>6, <2>9 DEF AnswerCounts
<1>4. CASE ~ServerCommits
  <2>1. bodies' = bodies /\ reply'.kind # "ok"
    BY <1>4 DEF Server, ServerConflicts, RequestLost, ServerForbids, SessionRefuses, NoReply
  <2>2. Current' = Current
    BY <2>1 DEF Current
  <2> QED BY <1>1, <1>2, <2>1, <2>2 DEF AnswerCounts
<1> QED BY <1>3, <1>4

LEMMA RemoteSavesAccounts ==
  ASSUME AccountsInv, NEW r \in Remote, RemoteSaves(r)
  PROVE  page' = page /\ reply' = reply /\ Accounts(page, Current') /\ AnswerCounts(page, reply, Current')
<1>1. bodies \in Seq(SUBSET Edits) /\ Current \in SUBSET Edits /\ r \in Edits /\ r \notin LocalEdits
  BY CurrentType, EditsAssumption DEF AccountsInv, OrderInv, IInv, RestTypeOK
<1>2. bodies' = Append(bodies, Current \cup {r}) /\ page' = page /\ reply' = reply
  BY DEF RemoteSaves
<1>3. Len(bodies') = Len(bodies) + 1 /\ bodies'[Len(bodies) + 1] = Current \cup {r}
  BY <1>1, <1>2
<1>4. Current' = Current \cup {r}
  BY <1>3 DEF Current
<1>5. Current \subseteq Current' /\ Local(Current') = Local(Current)
  BY <1>1, <1>4 DEF Local
<1>6. Unowed(page, Current')
  BY <1>5 DEF AccountsInv, Accounts, Covered, Booked, Unowed
<1>7. Accounts(page, Current')
  BY <1>5, <1>6 DEF AccountsInv, Accounts, Covered, Booked
<1> QED BY <1>2, <1>5, <1>7 DEF AccountsInv, AnswerCounts

LEMMA InitAccountsInv == Init => AccountsInv
<1> SUFFICES ASSUME Init PROVE AccountsInv
  OBVIOUS
<1>1. page = Opened({}, 1, Fresh) /\ bodies = <<{}>> /\ reply = NoReply /\ session = "live"
  BY DEF Init
<1>2. OrderInv /\ IInv /\ reply.kind = "waiting" /\ page.block = "none" /\ page.lock = "granted"
  BY <1>1, InitOrderInv, InitIInv DEF NoReply, Opened
<1>3. Current = {}
  BY <1>1 DEF Current
<1>4. Accounts(page, Current)
  BY <1>1, <1>3, OpenedAccounts
<1> QED BY <1>1, <1>2, <1>4 DEF AccountsInv, LockInv, AnswerCounts

LEMMA NextAccountsInv ==
  ASSUME Ops = {}, AccountsInv, [Next]_vars
  PROVE  /\ AccountsInv'
         /\ FlushSucceeds => page'.accepted \subseteq Current \/ UNCHANGED vars
         /\ FlushSucceeds /\ MaxExpiries = 0 /\ page'.mounted /\ page'.block = "none"
              => page'.editor \cap LocalEdits \subseteq Current \/ UNCHANGED vars
<1> DEFINE Good == Accounts(page', Current') /\ AnswerCounts(page', reply', Current')
           Flushed == FlushSucceeds => page'.accepted \subseteq Current \/ UNCHANGED vars
           Typed == FlushSucceeds /\ MaxExpiries = 0 /\ page'.mounted /\ page'.block = "none"
                      => page'.editor \cap LocalEdits \subseteq Current \/ UNCHANGED vars
<1>1. OrderInv' /\ (MaxExpiries = 0 => LockInv')
  BY NextOrderInv, NextLockInv DEF AccountsInv
<1>2. /\ OrderInv /\ (MaxExpiries = 0 => LockInv) /\ Accounts(page, Current) /\ AnswerCounts(page, reply, Current)
      /\ reply # NoReply => page.inflight # NoSave
      /\ NoReply.kind # "ok"
      /\ page.flush.pc # "idle" => page.flush.result # "ok"
  BY DEF AccountsInv, OrderInv, AnswersARequest, Accounts, Covered, Booked, FlushFits, NoReply
<1>3. ASSUME Accounted(page, page'), bodies' = bodies, AnswerCounts(page', reply', Current)
      PROVE  Good /\ Flushed /\ Typed
  <2>1. Current' = Current
    BY <1>3 DEF Current
  <2> QED BY <1>3, <2>1 DEF Accounted, FlushSucceeds
<1>4. ASSUME Accounted(page, page'), bodies' = bodies, reply' = reply, Ordered(page, page')
      PROVE  Good /\ Flushed /\ Typed
  <2>1. AnswerCounts(page', reply', Current)
    BY <1>2, <1>4 DEF AnswerCounts, Ordered, Undisturbed
  <2> HIDE DEF Good, Flushed, Typed
  <2> QED BY <1>3, <1>4, <2>1
<1>5. ASSUME page' = page, Good PROVE Good /\ Flushed /\ Typed
  BY <1>2, <1>5 DEF FlushSucceeds
<1>6. Good /\ Flushed /\ Typed
  <2> HIDE DEF Good, Flushed, Typed
  <2>1. CASE UNCHANGED vars
    <3>1. page' = page /\ reply' = reply /\ Current' = Current
      BY <2>1 DEF vars, Current
    <3>2. Good
      BY <1>2, <3>1 DEF Good
    <3> QED BY <1>5, <3>1, <3>2
  <2>2. CASE Answered
    <3>1. Accounted(page, page')
      BY <1>2, <2>2, AnsweredSteps DEF AnswerCounts
    <3>2. bodies' = bodies /\ reply' = NoReply
      BY <2>2 DEF Answered, SaveSucceeds, SaveConflicts, SaveFails, SaveForbidden, SaveUnauthorized, ServerUnchanged
    <3>3. AnswerCounts(page', reply', Current)
      BY <1>2, <3>2 DEF AnswerCounts
    <3> QED BY <1>3, <3>1, <3>2, <3>3
  <2>3. CASE Server
    <3>1. page' = page /\ Good
      BY <2>3, ServerAccounts DEF Good
    <3> QED BY <1>5, <3>1
  <2>4. CASE SessionExpires \/ SessionReturns
    <3>1. page' = page /\ reply' = reply /\ Current' = Current
      BY <2>4 DEF SessionExpires, SessionReturns, Current
    <3>2. Good
      BY <1>2, <3>1 DEF Good
    <3> QED BY <1>5, <3>1, <3>2
  <2>5. ASSUME NEW r \in Remote, RemoteSaves(r) PROVE Good /\ Flushed /\ Typed
    <3>1. page' = page /\ Good
      BY <2>5, RemoteSavesAccounts DEF Good
    <3> QED BY <1>5, <3>1
  <2>6. CASE LoseLock
    <3>1. bodies' = bodies /\ reply' = reply
      BY <2>6 DEF LoseLock, ServerUnchanged
    <3> QED BY <1>2, <1>4, <2>6, <3>1, LoseLockAccounts, LoseLockOrder
  <2>7. CASE MarkdownUpdated \/ DebounceFires \/ AgentRetryFires \/ SaveShortcut
    <3>1. bodies' = bodies /\ reply' = reply
      BY <2>7 DEF MarkdownUpdated, DebounceFires, AgentRetryFires, SaveShortcut, ServerUnchanged
    <3> QED BY <1>2, <1>4, <2>7, <3>1, TimerAccounts, TimerOrder
  <2>8. CASE Type \/ ToggleAutoSave \/ \E op \in Ops : ApplyMarkdown(op)
    <3>1. bodies' = bodies /\ reply' = reply
      BY <2>8 DEF Type, ToggleAutoSave, ApplyMarkdown, ServerUnchanged
    <3> QED BY <1>2, <1>4, <2>8, <3>1, EditAccounts, EditOrder
  <2>9. CASE Unmount
    <3>1. bodies' = bodies /\ reply' = reply
      BY <2>9 DEF Unmount, ServerUnchanged
    <3> QED BY <1>2, <1>4, <2>9, <3>1, UnmountAccounts, UnmountOrder
  <2>10. CASE Reopen
    <3>1. bodies' = bodies /\ reply' = reply
      BY <2>10 DEF Reopen, ServerUnchanged
    <3> QED BY <1>2, <1>4, <2>10, <3>1, ReopenAccounts, ReopenOrder
  <2>11. CASE StartFlush
    <3>1. bodies' = bodies /\ reply' = reply
      BY <2>11 DEF StartFlush, ServerUnchanged
    <3> QED BY <1>2, <1>4, <2>11, <3>1, StartFlushAccounts, FlushOrder
  <2>12. CASE ContinueFlush
    <3>1. /\ Accounts(page', Current)
          /\ page'.flush.result = "ok" =>
               /\ page'.accepted \subseteq Current
               /\ MaxExpiries = 0 /\ page'.mounted /\ page'.block = "none" => Local(page'.editor) \subseteq Current
      BY <1>2, <2>12, ContinueFlushAccounts
    <3>2. reply' = reply /\ Current' = Current
      BY <2>12 DEF ContinueFlush, ServerUnchanged, Current
    <3>3. Undisturbed(page, page')
      BY <1>2, <2>12, FlushOrder DEF Ordered
    <3>4. AnswerCounts(page', reply', Current')
      BY <1>2, <3>2, <3>3 DEF AnswerCounts, Undisturbed
    <3>5. Good
      BY <3>1, <3>2, <3>4 DEF Good
    <3>6. Flushed /\ Typed
      BY <3>1 DEF Flushed, Typed, FlushSucceeds, Local
    <3> QED BY <3>5, <3>6
  <2> QED BY <2>1, <2>2, <2>3, <2>4, <2>5, <2>6, <2>7, <2>8, <2>9, <2>10, <2>11, <2>12 DEF Next, User, World
<1>7. AccountsInv'
  BY <1>1, <1>6 DEF AccountsInv, Accounts, Covered, Booked, Notified, Drafted, Waiters, Follows, Unowed, IsLastSave,
                    LeftWell, Carried, FlushFits, Local, AnswerCounts
<1> QED BY <1>6, <1>7

LEMMA AccountsInvImplies == AccountsInv => DetachedEditsAreSaved
<1> SUFFICES ASSUME AccountsInv, ~page.mounted, page.flush.pc = "idle", Drained(page.saves), page.saves.success
             PROVE  page.accepted \subseteq Current
  BY DEF DetachedEditsAreSaved
<1>1. page.inflight = NoSave /\ page.pending = NoSave
  BY DEF AccountsInv, OrderInv, PageInOrder, RequestIsTracked, Drained
<1>2. page.unsaved = NoSave
  BY <1>1 DEF AccountsInv, Accounts, Covered, LeftWell, Carried
<1> QED BY <1>2 DEF AccountsInv, Accounts, Covered, Booked, Unowed

(***************************************************************************)
(* In a note the AI does not edit: once the editor is gone and its saves   *)
(* are drained, a barrier that reports success means that whoever loads    *)
(* the document finds every edit made before, whatever was refused, lost,  *)
(* merged or left by an expired session or a lost lock.                    *)
(***************************************************************************)
THEOREM DetachedEditsTheorem == Ops = {} => (Spec => []DetachedEditsAreSaved)
<1> SUFFICES ASSUME Ops = {} PROVE Spec => []DetachedEditsAreSaved
  OBVIOUS
<1>1. AccountsInv /\ [Next]_vars => AccountsInv'
  BY NextAccountsInv
<1> QED BY <1>1, InitAccountsInv, AccountsInvImplies, PTL DEF Spec

(***************************************************************************)
(* In such a note a flush that lets wiki ingestion start has put every     *)
(* accepted edit on the server, even when sessions expire.                 *)
(***************************************************************************)
THEOREM FlushSavesAcceptedTheorem == Ops = {} => (Spec => FlushSavesAccepted)
<1> SUFFICES ASSUME Ops = {} PROVE Spec => FlushSavesAccepted
  OBVIOUS
<1>1. AccountsInv /\ [Next]_vars => AccountsInv'
  BY NextAccountsInv
<1>2. AccountsInv /\ [Next]_vars => [FlushSucceeds => page'.accepted \subseteq Current]_vars
  BY NextAccountsInv
<1> QED BY <1>1, <1>2, InitAccountsInv, PTL DEF Spec, FlushSavesAccepted

(***************************************************************************)
(* In such a note, while the login lasts, a flush that lets wiki ingestion *)
(* start has saved what was accepted and, unless saving is blocked, what   *)
(* was typed in the open editor, notified or not.                          *)
(***************************************************************************)
THEOREM FlushSavesTheorem == Ops = {} /\ MaxExpiries = 0 => (Spec => FlushSaves)
<1> SUFFICES ASSUME Ops = {}, MaxExpiries = 0 PROVE Spec => FlushSaves
  OBVIOUS
<1>1. AccountsInv /\ [Next]_vars => AccountsInv'
  BY NextAccountsInv
<1>2. AccountsInv /\ [Next]_vars
        => [FlushSucceeds /\ page'.mounted /\ page'.block = "none"
              => page'.editor \cap LocalEdits \subseteq Current]_vars
  BY NextAccountsInv
<1>3. Spec => FlushSavesTyped
  BY <1>1, <1>2, InitAccountsInv, PTL DEF Spec, FlushSavesTyped
<1> QED BY <1>3, FlushSavesAcceptedTheorem DEF FlushSaves
-----------------------------------------------------------------------------
(***************************************************************************)
(* What keeps an AI edit the agent's until it is saved. N are the AI edits *)
(* no saved version has, S all edits made so far. While saving is not      *)
(* blocked every body that waits has the same of them, K, as the editor;   *)
(* a request that has one of them comes from the agent, and the page owes  *)
(* K to the agent: in the request, behind it, or in the next save.         *)
(***************************************************************************)
Bears(body, K, N, S) == body \cap N = K /\ body \subseteq S

Bearing(c, K, N, S) == c # NoSave => Bears(c.body, K, N, S)

Signed(p, N, S) ==
  p.inflight # NoSave =>
    /\ p.inflight.body \subseteq S
    /\ p.agentRequired \/ p.inflight.body \cap N # {} => p.inflight.source = "agent"

Owed(p, K) ==
  IF p.inflight = NoSave THEN p.agentRequired
  ELSE \/ p.inflight.source = "agent" /\ K \subseteq p.inflight.body
       \/ p.pending # NoSave /\ p.pending.source = "agent"

\* What the page holds apart from the request and what waits behind it.
Drafts(p, K, N, S) ==
  /\ Bears(p.editor, K, N, S) /\ Bears(p.bodyRef, K, N, S)
  /\ Bearing(p.scheduled, K, N, S) /\ Bearing(p.unsaved, K, N, S)
  /\ Bearing(p.retryTimer, K, N, S) /\ Bearing(p.retryCandidate, K, N, S)

Sourced(p, K, N, S) ==
  /\ RequestIsTracked(p) /\ p.block # "session-expired" /\ Signed(p, N, S)
  /\ p.block = "none" =>
       /\ Drafts(p, K, N, S) /\ Bearing(p.pending, K, N, S)
       /\ p.inflight # NoSave => p.inflight.body \cap N \subseteq K
       /\ K # {} => Owed(p, K)

\* The page as it is just before a body c is sent: K may have an edit that only c owes.
ReadyFor(p, c, K, N, S) ==
  /\ RequestIsTracked(p) /\ p.block # "session-expired" /\ Signed(p, N, S)
  /\ p.block = "none" =>
       /\ Drafts(p, K, N, S) /\ c # NoSave /\ Bears(c.body, K, N, S)
       /\ p.inflight # NoSave => p.inflight.body \cap N \subseteq K
       /\ K # {} => Owed(p, K) \/ c.source = "agent"

LEMMA MergeSource ==
  ASSUME NEW c \in Candidate, NEW d \in Candidate
  PROVE  /\ MergePendingNoteSave(c, d).body = d.body
         /\ c.source = "agent" \/ d.source = "agent" => MergePendingNoteSave(c, d).source = "agent"
BY DEF MergePendingNoteSave, Candidate

LEMMA TrackedSourced ==
  ASSUME NEW p, Sound(p), NEW K, NEW N, NEW S, NEW c \in Candidate, ReadyFor(p, c, K, N, S)
  PROVE  LET q == TrackedFlushSave(p, c)
         IN  Sourced(q, K, N, S) /\ Undisturbed(p, q)
<1> DEFINE q == TrackedFlushSave(p, c)
<1>1. PICK save \in Candidate :
        /\ save.revision = c.revision /\ save.body = c.body
        /\ p.agentRequired => save.source = "agent"
        /\ ~p.agentRequired => save = c
        /\ KeepsRest(p, q) /\ Blocking(p, q)
        /\ Refused(p, q) \/ Queued(p, q, save) \/ Sends(p, q, save)
  BY TrackedShape
<1>2. RequestIsTracked(q) /\ RequestIsTracked(p) /\ p.block # "session-expired" /\ Signed(p, N, S)
  BY TrackedRequest DEF ReadyFor
<1>3. /\ q.editor = p.editor /\ q.bodyRef = p.bodyRef /\ q.block = p.block
      /\ q.scheduled = p.scheduled /\ q.unsaved = p.unsaved
      /\ q.retryTimer = p.retryTimer /\ q.retryCandidate = p.retryCandidate /\ q.agentRequired = p.agentRequired
  BY <1>1, <1>2 DEF KeepsRest, KeepsPage, Blocking
<1>4. p.pending \in Candidate
  BY DEF Sound, Page
<1>5. c.source = "agent" => save.source = "agent"
  BY <1>1
<1> HIDE DEF q
<1>6. ASSUME Refused(p, q) PROVE Sourced(q, K, N, S) /\ Undisturbed(p, q)
  <2>1. q.inflight = p.inflight /\ q.base = p.base /\ q.block # "none"
    BY <1>6 DEF Refused
  <2> QED BY <1>2, <1>3, <2>1 DEF Sourced, Signed, Undisturbed
<1>7. ASSUME Queued(p, q, save) PROVE Sourced(q, K, N, S) /\ Undisturbed(p, q)
  <2>1. /\ q.inflight = p.inflight /\ q.base = p.base /\ p.inflight # NoSave /\ q.block = "none"
        /\ q.pending = MergePendingNoteSave(p.pending, save)
    BY <1>7 DEF Queued
  <2>2. /\ q.pending.body = c.body
        /\ p.pending.source = "agent" \/ save.source = "agent" => q.pending.source = "agent"
    BY <1>1, <1>4, <2>1, MergeSource
  <2>3. /\ Drafts(p, K, N, S) /\ Bears(c.body, K, N, S) /\ p.inflight.body \cap N \subseteq K
        /\ K # {} => Owed(p, K) \/ c.source = "agent"
    BY <1>3, <2>1 DEF ReadyFor
  <2>4. Drafts(q, K, N, S) /\ Bearing(q.pending, K, N, S)
    BY <1>3, <2>2, <2>3 DEF Drafts, Bearing
  <2>5. q.pending.source = "agent" => q.pending # NoSave
    BY DEF NoSave
  <2>6. K # {} => Owed(q, K)
    BY <1>5, <2>1, <2>2, <2>3, <2>5 DEF Owed
  <2>7. Signed(q, N, S)
    BY <1>2, <1>3, <2>1 DEF Signed
  <2> QED BY <1>2, <1>3, <2>1, <2>3, <2>4, <2>6, <2>7 DEF Sourced, Undisturbed
<1>8. ASSUME Sends(p, q, save) PROVE Sourced(q, K, N, S) /\ Undisturbed(p, q)
  <2>1. q.inflight = save /\ q.pending = p.pending /\ p.inflight = NoSave /\ q.block = "none"
    BY <1>8 DEF Sends, Starts
  <2>2. q.pending = NoSave
    BY <1>2, <2>1 DEF RequestIsTracked
  <2>3. /\ Drafts(p, K, N, S) /\ Bears(save.body, K, N, S)
        /\ K # {} => p.agentRequired \/ c.source = "agent"
    BY <1>1, <1>3, <2>1 DEF ReadyFor, Owed
  <2>4. K # {} => save.source = "agent"
    BY <1>1, <1>5, <2>3
  <2>5. Drafts(q, K, N, S) /\ Bearing(q.pending, K, N, S)
    BY <1>3, <2>2, <2>3 DEF Drafts, Bearing
  <2>6. Signed(q, N, S)
    BY <1>1, <1>3, <2>1, <2>3, <2>4 DEF Signed, Bears
  <2>7. q.inflight.body \cap N \subseteq K /\ (K # {} => Owed(q, K))
    <3>1. save.source = "agent" => save # NoSave
      BY DEF NoSave
    <3>2. save.body \cap N = K
      BY <2>3 DEF Bears
    <3>3. K \subseteq save.body
      BY <3>2
    <3> QED BY <2>1, <2>4, <3>1, <3>2, <3>3 DEF Owed
  <2> QED BY <1>2, <1>3, <2>1, <2>5, <2>6, <2>7 DEF Sourced, Undisturbed
<1> QED BY <1>1, <1>6, <1>7, <1>8 DEF q

\* A body under a new revision replaces what the page held, except the request.
Renews(p, body, K, N, S) ==
  /\ RequestIsTracked(p) /\ p.block # "session-expired" /\ Signed(p, N, S)
  /\ p.block = "none" =>
       /\ Bears(p.editor, K, N, S) /\ Bears(p.bodyRef, K, N, S) /\ Bears(body, K, N, S)
       /\ p.inflight # NoSave => p.inflight.body \cap N \subseteq K

LEMMA AcceptedSourced ==
  ASSUME NEW p, Sound(p), NEW K, NEW N, NEW S, NEW a, NEW c \in Candidate, Accepted(p, a, c),
         Renews(p, c.body, K, N, S), a.scheduled \in {NoSave, c}
  PROVE  /\ Undisturbed(p, a)
         /\ (K # {} => Owed(p, K) \/ c.source = "agent") => ReadyFor(a, c, K, N, S)
         /\ Bearing(p.pending, K, N, S) /\ (K # {} => Owed(p, K)) => Sourced(a, K, N, S)
<1>1. /\ a.editor = p.editor /\ a.bodyRef = p.bodyRef /\ a.inflight = p.inflight /\ a.base = p.base
      /\ a.pending = p.pending /\ a.seq = p.seq /\ a.saves = p.saves /\ a.agentRequired = p.agentRequired
      /\ a.block = "none" /\ a.unsaved = c /\ c # NoSave /\ a.retryTimer = NoSave /\ a.retryCandidate = NoSave
  BY DEF Accepted, KeepsRequest
<1>2. p.block = "none"
  BY <1>1 DEF Accepted, Blocking, Renews
<1>3. RequestIsTracked(a) /\ Signed(a, N, S)
  BY <1>1, <1>2 DEF Renews, RequestIsTracked, Signed
<1>4. Drafts(a, K, N, S) /\ Bears(c.body, K, N, S) /\ (a.inflight # NoSave => a.inflight.body \cap N \subseteq K)
  BY <1>1, <1>2 DEF Renews, Drafts, Bearing
<1>5. Owed(a, K) <=> Owed(p, K)
  BY <1>1 DEF Owed
<1> QED BY <1>1, <1>3, <1>4, <1>5 DEF ReadyFor, Sourced, Undisturbed

LEMMA QueueSourced ==
  ASSUME NEW p, Sound(p), NEW K, NEW N, NEW S,
         NEW body \in SUBSET Edits, NEW source \in Sources, NEW op \in Ops \cup {NoOp}, Renews(p, body, K, N, S),
         source # "agent" /\ p.block = "none" => Bearing(p.pending, K, N, S) /\ (K # {} => Owed(p, K))
  PROVE  LET q == QueueSave(p, body, source, op)
         IN  Sourced(q, K, N, S) /\ Undisturbed(p, q)
<1> DEFINE q == QueueSave(p, body, source, op)
<1>1. \/ q = p /\ p.block # "none"
      \/ \E c \in Candidate :
           /\ c.body = body /\ c.source = (IF source = "agent" \/ p.agentRequired THEN "agent" ELSE "user")
           /\ \/ source # "agent" /\ Scheduled(p, q, c)
              \/ /\ source = "agent"
                 /\ \E a : Sound(a) /\ Accepted(p, a, c) /\ a.scheduled = NoSave /\ q = TrackedFlushSave(a, c)
  BY QueueShape
<1> HIDE DEF q
<1>2. CASE q = p /\ p.block # "none"
  BY <1>2 DEF Renews, Sourced, Undisturbed, q
<1>3. ASSUME NEW c \in Candidate, c.body = body, source # "agent", Scheduled(p, q, c)
      PROVE  Sourced(q, K, N, S) /\ Undisturbed(p, q)
  <2>1. Accepted(p, q, c) /\ q.scheduled = c
    BY <1>3 DEF Scheduled
  <2>2. p.block = "none"
    BY <2>1 DEF Accepted, Blocking, Renews
  <2> QED BY <1>3, <2>1, <2>2, AcceptedSourced
<1>4. ASSUME NEW c \in Candidate, c.body = body, c.source = "agent", NEW a, Sound(a), Accepted(p, a, c),
             a.scheduled = NoSave, q = TrackedFlushSave(a, c)
      PROVE  Sourced(q, K, N, S) /\ Undisturbed(p, q)
  <2>1. ReadyFor(a, c, K, N, S) /\ Undisturbed(p, a)
    BY <1>4, AcceptedSourced
  <2>2. Sourced(q, K, N, S) /\ Undisturbed(a, q)
    BY <1>4, <2>1, TrackedSourced
  <2> QED BY <2>1, <2>2 DEF Undisturbed
<1> QED BY <1>1, <1>2, <1>3, <1>4 DEF q

LEMMA SourcedRenews ==
  ASSUME NEW p, NEW K, NEW N, NEW S, Sourced(p, K, N, S), NEW body, Bears(body, K, N, S)
  PROVE  Renews(p, body, K, N, S)
BY DEF Sourced, Renews, Drafts

LEMMA SaveNowSourced ==
  ASSUME NEW p, Sound(p), NEW K, NEW N, NEW S, Sourced(p, K, N, S)
  PROVE  LET q == SaveNow(p, p.bodyRef)
         IN  Sourced(q, K, N, S) /\ Undisturbed(p, q)
<1> DEFINE q == SaveNow(p, p.bodyRef)
<1>1. p.bodyRef \in SUBSET Edits
  BY DEF Sound, Page
<1>2. \/ q = p /\ p.block # "none"
      \/ \E c \in Candidate :
           /\ c.body = p.bodyRef
           /\ \E a : Sound(a) /\ Accepted(p, a, c) /\ a.scheduled = NoSave /\ q = TrackedFlushSave(a, c)
  BY <1>1, SaveNowShape
<1> HIDE DEF q
<1>3. CASE q = p /\ p.block # "none"
  BY <1>3 DEF Undisturbed, q
<1>4. ASSUME NEW c \in Candidate, c.body = p.bodyRef, NEW a, Sound(a), Accepted(p, a, c), a.scheduled = NoSave,
             q = TrackedFlushSave(a, c)
      PROVE  Sourced(q, K, N, S) /\ Undisturbed(p, q)
  <2>1. p.block = "none"
    BY <1>4 DEF Accepted, Blocking, Sourced
  <2>2. Bears(c.body, K, N, S) /\ (K # {} => Owed(p, K))
    BY <1>4, <2>1 DEF Sourced, Drafts
  <2>3. ReadyFor(a, c, K, N, S) /\ Undisturbed(p, a)
    BY <1>4, <2>2, SourcedRenews, AcceptedSourced
  <2>4. Sourced(q, K, N, S) /\ Undisturbed(a, q)
    BY <1>4, <2>3, TrackedSourced
  <2> QED BY <2>3, <2>4 DEF Undisturbed
<1> QED BY <1>2, <1>3, <1>4 DEF q

\* A step that drops bodies, and changes the editor at most to one that holds the same AI edits.
LEMMA StillSourced ==
  ASSUME NEW p, NEW K, NEW N, NEW S, Sourced(p, K, N, S), NEW q,
         q.block = "none" => Bears(q.editor, K, N, S) /\ Bears(q.bodyRef, K, N, S),
         q.unsaved = p.unsaved, q.agentRequired = p.agentRequired, q.inflight = p.inflight, q.base = p.base,
         q.seq = p.seq, q.saves = p.saves,
         \/ q.block = p.block /\ q.pending = p.pending
         \/ q.block = "lock-lost" /\ q.pending = NoSave,
         q.scheduled \in {p.scheduled, NoSave},
         q.retryTimer \in {p.retryTimer, NoSave}, q.retryCandidate \in {p.retryCandidate, NoSave}
  PROVE  Sourced(q, K, N, S) /\ Undisturbed(p, q)
<1>1. RequestIsTracked(q) /\ Signed(q, N, S) /\ q.block # "session-expired"
  BY DEF Sourced, RequestIsTracked, Signed
<1>2. ASSUME q.block = "none"
      PROVE  /\ Drafts(q, K, N, S) /\ Bearing(q.pending, K, N, S)
             /\ q.inflight # NoSave => q.inflight.body \cap N \subseteq K
             /\ K # {} => Owed(q, K)
  BY <1>2 DEF Sourced, Drafts, Bearing, Owed
<1> QED BY <1>1, <1>2 DEF Sourced, Undisturbed

LEMMA BeforeFlushSourced ==
  ASSUME NEW p, Sound(p), NEW K, NEW N, NEW S, Sourced(p, K, N, S)
  PROVE  LET q == BeforeFlush(p)
         IN  Sourced(q, K, N, S) /\ Undisturbed(p, q)
<1> DEFINE m == [p EXCEPT !.bodyRef = p.editor]
<1>1. p.editor \in SUBSET Edits
  BY DEF Sound, Page
<1>2. /\ Sound(m) /\ m.inflight = p.inflight /\ m.base = p.base /\ m.seq = p.seq /\ m.saves = p.saves
      /\ m.pending = p.pending /\ m.editor = p.editor /\ m.bodyRef = p.editor
      /\ m.mounted = p.mounted /\ m.scheduled = p.scheduled /\ m.unsaved = p.unsaved
      /\ m.agentRequired = p.agentRequired /\ m.retryTimer = p.retryTimer /\ m.retryCandidate = p.retryCandidate
      /\ m.block = p.block
  BY <1>1 DEF Sound, UnsavedIsNewest, Page
<1>3. BeforeFlush(p) = (IF p.mounted /\ p.editor # p.bodyRef THEN QueueSave(m, p.editor, "user", NoOp) ELSE p)
  BY DEF BeforeFlush
<1> HIDE DEF m
<1>4. p.block = "none" => Bears(p.editor, K, N, S)
  BY DEF Sourced, Drafts
<1>5. Sourced(m, K, N, S) /\ Undisturbed(p, m)
  BY <1>2, <1>4, StillSourced
<1>6. CASE p.mounted /\ p.editor # p.bodyRef
  <2> DEFINE q == QueueSave(m, p.editor, "user", NoOp)
  <2>1. Renews(m, p.editor, K, N, S)
    BY <1>2, <1>4, <1>5 DEF Sourced, Renews, Drafts
  <2>2. m.block = "none" => Bearing(m.pending, K, N, S) /\ (K # {} => Owed(m, K))
    BY <1>5 DEF Sourced
  <2>3. "user" \in Sources /\ NoOp \in Ops \cup {NoOp}
    BY DEF Sources
  <2>4. Sourced(q, K, N, S) /\ Undisturbed(m, q)
    BY <1>1, <1>2, <2>1, <2>2, <2>3, QueueSourced
  <2> HIDE DEF q
  <2>5. Undisturbed(p, q)
    BY <1>5, <2>4 DEF Undisturbed
  <2>6. BeforeFlush(p) = q
    BY <1>3, <1>6 DEF q
  <2> QED BY <2>4, <2>5, <2>6
<1>7. CASE ~(p.mounted /\ p.editor # p.bodyRef)
  BY <1>3, <1>7 DEF Undisturbed
<1> QED BY <1>6, <1>7

LEMMA ClearedSourced ==
  ASSUME NEW p, Sound(p), NEW K, NEW N, NEW S, Sourced(p, K, N, S)
  PROVE  LET q == ClearScheduledSave(p)
         IN  Sourced(q, K, N, S) /\ Undisturbed(p, q)
<1> DEFINE q == ClearScheduledSave(p)
<1>1. /\ q.editor = p.editor /\ q.bodyRef = p.bodyRef
      /\ q.scheduled = NoSave /\ q.unsaved = p.unsaved /\ q.agentRequired = p.agentRequired
      /\ q.retryTimer = NoSave /\ q.retryCandidate = NoSave /\ q.block = p.block /\ KeepsRequest(p, q)
  BY ClearScheduledShape
<1> HIDE DEF q
<1>2. q.block = "none" => Bears(q.editor, K, N, S) /\ Bears(q.bodyRef, K, N, S)
  BY <1>1 DEF Sourced, Drafts
<1>3. Sourced(q, K, N, S) /\ Undisturbed(p, q)
  BY <1>1, <1>2, StillSourced DEF KeepsRequest
<1> QED BY <1>3 DEF q

LEMMA FlushFieldSourced ==
  ASSUME NEW p, Sound(p), NEW K, NEW N, NEW S, Sourced(p, K, N, S), NEW f
  PROVE  LET q == [p EXCEPT !.flush = f]
         IN  Sourced(q, K, N, S) /\ Undisturbed(p, q)
<1> DEFINE q == [p EXCEPT !.flush = f]
<1>1. /\ q.editor = p.editor /\ q.bodyRef = p.bodyRef
      /\ q.scheduled = p.scheduled /\ q.unsaved = p.unsaved /\ q.agentRequired = p.agentRequired
      /\ q.retryTimer = p.retryTimer /\ q.retryCandidate = p.retryCandidate
      /\ q.block = p.block /\ KeepsRequest(p, q)
  BY DEF Sound, Page, KeepsRequest
<1> HIDE DEF q
<1>2. q.block = "none" => Bears(q.editor, K, N, S) /\ Bears(q.bodyRef, K, N, S)
  BY <1>1 DEF Sourced, Drafts
<1>3. Sourced(q, K, N, S) /\ Undisturbed(p, q)
  BY <1>1, <1>2, StillSourced DEF KeepsRequest
<1> QED BY <1>3 DEF q

\* A body the page already holds is sent.
LEMMA HeldReady ==
  ASSUME NEW p, NEW K, NEW N, NEW S, Sourced(p, K, N, S), NEW c, c # NoSave,
         p.block = "none" => Bearing(c, K, N, S)
  PROVE  ReadyFor(p, c, K, N, S)
BY DEF Sourced, ReadyFor, Bearing

LEMMA FlushRoundSourced ==
  ASSUME NEW p, Sound(p), NEW K, NEW N, NEW S, Sourced(p, K, N, S)
  PROVE  LET q == FlushRound(p)
         IN  Sourced(q, K, N, S) /\ Undisturbed(p, q)
<1> DEFINE synced  == BeforeFlush(p)
           cleared == ClearScheduledSave(synced)
           sent    == TrackedFlushSave(cleared, synced.unsaved)
           f       == [NoFlush EXCEPT !.pc = "saving", !.own = sent.seq]
           last    == [sent EXCEPT !.flush = f]
           q       == FlushRound(p)
<1>1. Sound(synced) /\ Sourced(synced, K, N, S) /\ Undisturbed(p, synced)
  BY BeforeFlushSound, BeforeFlushSourced
<1>2. Unblocked(synced) = synced
  BY <1>1, UnblockedSteady DEF Sourced
<1>3. q = (IF synced.unsaved = NoSave THEN EndFlush(synced, synced.saves.success)
           ELSE IF synced.block # "none" THEN EndFlush(synced, FALSE) ELSE last)
  BY <1>2 DEF FlushRound
<1> HIDE DEF synced
<1>4. CASE synced.unsaved = NoSave \/ synced.block # "none"
  <2>1. PICK g : q = [synced EXCEPT !.flush = g]
    BY <1>3, <1>4 DEF EndFlush
  <2> HIDE DEF q
  <2>2. Sourced(q, K, N, S) /\ Undisturbed(synced, q)
    BY <1>1, <2>1, FlushFieldSourced
  <2> QED BY <1>1, <2>2 DEF Undisturbed, q
<1>5. CASE synced.unsaved # NoSave /\ synced.block = "none"
  <2>1. Sound(cleared) /\ Sourced(cleared, K, N, S) /\ Undisturbed(synced, cleared)
    BY <1>1, ClearScheduledSound, ClearedSourced
  <2> HIDE DEF cleared
  <2>2. synced.unsaved \in Candidate /\ Bearing(synced.unsaved, K, N, S)
    BY <1>1, <1>5 DEF Sound, Page, Sourced, Drafts
  <2>3. ReadyFor(cleared, synced.unsaved, K, N, S)
    BY <1>5, <2>1, <2>2, HeldReady
  <2>4. Sourced(sent, K, N, S) /\ Undisturbed(cleared, sent)
    BY <2>1, <2>2, <2>3, TrackedSourced
  <2>5. Sound(sent)
    BY <2>1, <2>2, TrackedFlushSound
  <2> HIDE DEF sent, f
  <2>6. Sourced(last, K, N, S) /\ Undisturbed(sent, last)
    BY <2>4, <2>5, FlushFieldSourced
  <2> HIDE DEF last
  <2>7. q = last
    BY <1>3, <1>5
  <2> HIDE DEF q
  <2> QED BY <1>1, <2>1, <2>4, <2>6, <2>7 DEF Undisturbed, q
<1> QED BY <1>4, <1>5

\* The page before its request ends: what waits behind it, or the next save, owes K to the agent.
Leaves(p, K, N, S) ==
  /\ p.block # "session-expired"
  /\ p.block = "none" =>
       /\ Drafts(p, K, N, S) /\ Bearing(p.pending, K, N, S)
       /\ K # {} => p.agentRequired \/ (p.pending # NoSave /\ p.pending.source = "agent")

LEMMA FinishSourced ==
  ASSUME NEW p, Sound(p), NEW K, NEW N, NEW S, NEW saved \in BOOLEAN,
         p.mounted /\ p.status = "saved" => p.unsaved = NoSave,
         p.inflight # NoSave, p.seq \in p.saves.pending, Numbered(p.saves), Leaves(p, K, N, S)
  PROVE  Sourced(FinishRequest(p, saved), K, N, S)
<1> DEFINE q == FinishRequest(p, saved)
<1>1. /\ KeepsPage(p, q) /\ q.pending = NoSave
      /\ RequestIsTracked(q)
      /\ \/ Ends(p, q)
         \/ \E save \in Candidate :
              /\ save.revision = p.pending.revision /\ save.body = p.pending.body
              /\ p.agentRequired => save.source = "agent"
              /\ ~p.agentRequired => save = p.pending
              /\ PassesOn(p, q, save)
  BY FinishShape
<1> HIDE DEF q
<1>2. /\ q.editor = p.editor /\ q.bodyRef = p.bodyRef
      /\ q.scheduled = p.scheduled /\ q.unsaved = p.unsaved
      /\ q.retryTimer = p.retryTimer /\ q.retryCandidate = p.retryCandidate /\ q.agentRequired = p.agentRequired
  BY <1>1 DEF KeepsPage
<1>3. Bearing(q.pending, K, N, S)
  BY <1>1 DEF Bearing
<1>4. p.block = "none" => Drafts(q, K, N, S)
  BY <1>2 DEF Leaves, Drafts
<1>5. ASSUME Ends(p, q) PROVE Sourced(q, K, N, S)
  <2>1. q.inflight = NoSave /\ q.block = p.block /\ (p.pending = NoSave \/ p.block # "none")
    BY <1>5 DEF Ends
  <2>2. q.block = "none" /\ K # {} => Owed(q, K)
    BY <1>2, <2>1 DEF Leaves, Owed
  <2> QED BY <1>1, <1>3, <1>4, <2>1, <2>2 DEF Leaves, Sourced, Signed
<1>6. ASSUME NEW save \in Candidate, save.body = p.pending.body, p.agentRequired => save.source = "agent",
             ~p.agentRequired => save = p.pending, PassesOn(p, q, save)
      PROVE  Sourced(q, K, N, S)
  <2>1. q.inflight = save /\ p.pending # NoSave /\ p.block = "none" /\ q.block = "none"
    BY <1>6 DEF PassesOn
  <2>2. Bears(save.body, K, N, S)
    BY <1>6, <2>1 DEF Leaves, Bearing
  <2>3. K # {} => save.source = "agent"
    BY <1>6, <2>1 DEF Leaves
  <2>4. save.body \cap N = K /\ K \subseteq save.body /\ save.body \subseteq S
    BY <2>2 DEF Bears
  <2>5. Signed(q, N, S)
    BY <1>2, <1>6, <2>1, <2>3, <2>4 DEF Signed
  <2>6. K # {} => Owed(q, K)
    <3>1. save.source = "agent" => save # NoSave
      BY DEF NoSave
    <3> QED BY <2>1, <2>3, <2>4, <3>1 DEF Owed
  <2> QED BY <1>1, <1>3, <1>4, <2>1, <2>4, <2>5, <2>6 DEF Sourced
<1> QED BY <1>1, <1>5, <1>6 DEF q

LEMMA SavedSourced ==
  ASSUME NEW p, Sound(p), NEW K, NEW N, NEW S, Sourced(p, K, N, S), p.inflight # NoSave,
         p.inflight.body \cap N = {}, NEW answer \in Reply, answer.body \cap N = {}, answer.body \subseteq S
  PROVE  Sourced(OnSaved(p, answer), K, N, S)
<1>1. PICK r : OnSaved(p, answer) = FinishRequest(r, TRUE) /\ Saves(p, r, answer)
  BY SavedShape
<1>2. /\ Sound(r) /\ (r.mounted /\ r.status = "saved" => r.unsaved = NoSave)
      /\ r.inflight = p.inflight /\ r.seq = p.seq /\ r.saves = p.saves /\ r.pending = p.pending
      /\ Settles(p, r) \/ \E c \in Candidate : QueuesAgain(p, r, c)
  BY <1>1 DEF Saves
<1>3. r.inflight # NoSave /\ r.seq \in r.saves.pending /\ Numbered(r.saves)
  BY <1>2 DEF Sourced, RequestIsTracked
<1>4. r.block = p.block
  BY <1>2 DEF Settles, QueuesAgain, Blocking, Sourced
<1>5. ASSUME r.block = "none"
      PROVE  /\ Drafts(r, K, N, S) /\ Bearing(r.pending, K, N, S)
             /\ K # {} => r.pending # NoSave /\ r.pending.source = "agent"
  <2>1. /\ Drafts(p, K, N, S) /\ Bearing(p.pending, K, N, S) /\ (K # {} => Owed(p, K))
        /\ Bears(p.editor, K, N, S) /\ Bears(p.bodyRef, K, N, S)
    BY <1>4, <1>5 DEF Sourced, Drafts
  <2>2. K # {} => p.pending # NoSave /\ p.pending.source = "agent"
    <3>1. K \subseteq N
      BY <2>1 DEF Bears
    <3>2. K # {} => ~(K \subseteq p.inflight.body)
      BY <3>1
    <3> QED BY <2>1, <3>2 DEF Owed
  <2>3. Bears(r.editor, K, N, S) /\ Bears(r.bodyRef, K, N, S)
    <3>1. CASE Merging(p, answer)
      <4>1. r.editor = answer.body \cup (p.editor \ p.bodyRef) /\ r.bodyRef = r.editor
        BY <1>1, <3>1 DEF Saves
      <4>2. K = {}
        BY <2>2, <3>1 DEF Merging, IsLatestEdit
      <4>3. p.editor \cap N = K /\ p.editor \subseteq S
        BY <2>1 DEF Bears
      <4>4. r.editor \cap N = K /\ r.editor \subseteq S
        BY <4>1, <4>2, <4>3
      <4> QED BY <4>1, <4>4 DEF Bears
    <3>2. CASE ~Merging(p, answer)
      <4>1. r.editor = p.editor /\ r.bodyRef = p.bodyRef
        BY <1>1, <3>2 DEF Saves
      <4> QED BY <2>1, <4>1
    <3> QED BY <3>1, <3>2
  <2>4. CASE Settles(p, r)
    <3>1. /\ r.scheduled = p.scheduled /\ r.unsaved \in {p.unsaved, NoSave}
          /\ r.retryTimer \in {p.retryTimer, NoSave} /\ r.retryCandidate \in {p.retryCandidate, NoSave}
      BY <2>4 DEF Settles
    <3>2. Drafts(r, K, N, S)
      BY <2>1, <2>3, <3>1 DEF Drafts, Bearing
    <3> QED BY <1>2, <2>1, <2>2, <3>2
  <2>5. CASE \E c \in Candidate : QueuesAgain(p, r, c)
    <3>1. PICK c \in Candidate : QueuesAgain(p, r, c)
      BY <2>5
    <3>2. /\ c.body = r.editor /\ r.scheduled = c /\ r.unsaved = c
          /\ r.retryTimer = NoSave /\ r.retryCandidate = NoSave
      BY <3>1 DEF QueuesAgain
    <3>3. Drafts(r, K, N, S)
      BY <2>3, <3>2 DEF Drafts, Bearing
    <3> QED BY <1>2, <2>1, <2>2, <3>3
  <2> QED BY <1>2, <2>4, <2>5
<1>6. Leaves(r, K, N, S)
  BY <1>4, <1>5 DEF Leaves, Sourced
<1> QED BY <1>1, <1>2, <1>3, <1>6, FinishSourced

LEMMA FailedSourced ==
  ASSUME NEW p, Sound(p), NEW K, NEW N, NEW S, Sourced(p, K, N, S), p.inflight # NoSave
  PROVE  Sourced(OnFailed(p), K, N, S)
<1>1. PICK r : /\ OnFailed(p) = FinishRequest(r, FALSE)
               /\ IF p.inflight.source = "agent" THEN AgentFails(p, r) ELSE Fails(p, r)
  BY FailedShape
<1>2. Sound(r) /\ BadgeIsTrue(r) /\ KeepsCall(p, r) /\ r.block = p.block
  BY <1>1 DEF AgentFails, Fails
<1>3. r.inflight # NoSave /\ r.seq \in r.saves.pending /\ Numbered(r.saves)
  BY <1>2 DEF Sourced, RequestIsTracked, KeepsCall
<1>4. p.pending \in Candidate
  BY DEF Sound, Page
<1>5. ASSUME r.block = "none"
      PROVE  /\ Drafts(r, K, N, S) /\ Bearing(r.pending, K, N, S)
             /\ K # {} => r.agentRequired \/ (r.pending # NoSave /\ r.pending.source = "agent")
  <2>1. /\ Drafts(p, K, N, S) /\ Bearing(p.pending, K, N, S) /\ (K # {} => Owed(p, K))
        /\ p.inflight.body \cap N \subseteq K /\ p.inflight.body \subseteq S
    BY <1>2, <1>5 DEF Sourced, Signed
  <2>2. /\ Bears(r.editor, K, N, S) /\ Bears(r.bodyRef, K, N, S)
        /\ Bearing(r.scheduled, K, N, S) /\ Bearing(r.unsaved, K, N, S)
    BY <1>2, <2>1 DEF KeepsCall, Drafts
  <2>3. K = {} \/ (K \subseteq p.inflight.body /\ K \subseteq N) => Bears(p.inflight.body, K, N, S)
    BY <2>1 DEF Bears
  <2>4. K \subseteq N
    BY <2>1 DEF Drafts, Bears
  <2>5. p.pending = NoSave => Bears(p.inflight.body, K, N, S)
    BY <2>1, <2>3, <2>4 DEF Owed
  <2>6. CASE p.inflight.source = "agent"
    <3>1. /\ r.pending = PromoteAfterAgentFailure(p.pending)
          /\ r.agentRequired <=> p.pending = NoSave
          /\ r.retryTimer \in {p.retryTimer, p.inflight}
          /\ r.retryCandidate \in {p.retryCandidate, p.inflight, NoSave}
          /\ p.pending # NoSave => r.retryTimer = p.retryTimer /\ r.retryCandidate \in {p.retryCandidate, NoSave}
      BY <1>1, <2>6 DEF AgentFails
    <3>2. p.pending # NoSave => r.pending.body = p.pending.body /\ r.pending.source = "agent"
      BY <1>4, <3>1 DEF PromoteAfterAgentFailure, Candidate
    <3>3. p.pending # NoSave => r.pending # NoSave
      BY <3>2 DEF NoSave
    <3>4. p.pending = NoSave => r.pending = NoSave
      BY <3>1 DEF PromoteAfterAgentFailure
    <3>5. Bearing(r.pending, K, N, S)
      BY <2>1, <3>2, <3>4 DEF Bearing
    <3>6. Bearing(r.retryTimer, K, N, S) /\ Bearing(r.retryCandidate, K, N, S)
      BY <2>1, <2>5, <3>1 DEF Drafts, Bearing
    <3> QED BY <2>2, <3>1, <3>2, <3>3, <3>5, <3>6 DEF Drafts
  <2>7. CASE p.inflight.source # "agent"
    <3>1. /\ KeepsRetry(p, r)
          /\ r.pending = p.pending \/ (p.pending = NoSave /\ r.pending = p.inflight)
      BY <1>1, <2>7 DEF Fails
    <3>2. K # {} => p.pending # NoSave /\ p.pending.source = "agent"
      BY <2>1, <2>7 DEF Owed
    <3>3. Bearing(r.pending, K, N, S)
      BY <2>1, <2>5, <3>1 DEF Bearing
    <3>4. Drafts(r, K, N, S)
      BY <2>1, <2>2, <3>1 DEF Drafts, KeepsRetry
    <3> QED BY <3>1, <3>2, <3>3, <3>4
  <2> QED BY <2>6, <2>7
<1>6. Leaves(r, K, N, S)
  BY <1>2, <1>5 DEF Leaves, Sourced
<1> QED BY <1>1, <1>2, <1>3, <1>6, FinishSourced DEF BadgeIsTrue

LEMMA ForbiddenSourced ==
  ASSUME NEW p, Sound(p), NEW K, NEW N, NEW S, Sourced(p, K, N, S), p.inflight # NoSave
  PROVE  Sourced(OnBlocked(p, "lock-lost"), K, N, S)
<1>1. PICK r : OnBlocked(p, "lock-lost") = FinishRequest(r, FALSE) /\ Blocked(p, r, "lock-lost")
  BY BlockedShape
<1>2. Sound(r) /\ BadgeIsTrue(r) /\ KeepsCall(p, r) /\ r.block = "lock-lost"
  BY <1>1 DEF Blocked
<1>3. r.inflight # NoSave /\ r.seq \in r.saves.pending /\ Numbered(r.saves)
  BY <1>2 DEF Sourced, RequestIsTracked, KeepsCall
<1>4. Leaves(r, K, N, S)
  BY <1>2 DEF Leaves
<1> QED BY <1>1, <1>2, <1>3, <1>4, FinishSourced DEF BadgeIsTrue

\* Some of the AI edits are saved, some edits are made.
LEMMA SourcedLater ==
  ASSUME NEW p, NEW K, NEW N, NEW S, Sourced(p, K, N, S), NEW M, M \subseteq N, NEW T, S \subseteq T
  PROVE  Sourced(p, K \cap M, M, T)
<1> DEFINE L == K \cap M
<1>1. \A body : Bears(body, K, N, S) => Bears(body, L, M, T)
  BY DEF Bears
<1>2. \A c : Bearing(c, K, N, S) => Bearing(c, L, M, T)
  BY <1>1 DEF Bearing
<1>3. Drafts(p, K, N, S) => Drafts(p, L, M, T)
  BY <1>1, <1>2 DEF Drafts
<1>4. Signed(p, M, T)
  <2>1. p.inflight.body \cap M # {} => p.inflight.body \cap N # {}
    OBVIOUS
  <2>2. p.inflight.body \subseteq S => p.inflight.body \subseteq T
    OBVIOUS
  <2> QED BY <2>1, <2>2 DEF Sourced, Signed
<1>5. Owed(p, K) => Owed(p, L)
  BY DEF Owed
<1>6. p.inflight.body \cap N \subseteq K => p.inflight.body \cap M \subseteq L
  OBVIOUS
<1>7. L # {} => K # {}
  OBVIOUS
<1> HIDE DEF L
<1>8. Sourced(p, L, M, T)
  BY <1>2, <1>3, <1>4, <1>5, <1>6, <1>7 DEF Sourced
<1> QED BY <1>8 DEF L

\* What the steps of the page have to show.
Marks(p, q, K, N, S) == Sourced(q, K, N, S) /\ Undisturbed(p, q)

LEMMA TimerSourced ==
  ASSUME Sound(page), NEW K, NEW N, NEW S, Sourced(page, K, N, S),
         MarkdownUpdated \/ DebounceFires \/ AgentRetryFires \/ SaveShortcut
  PROVE  Marks(page, page', K, N, S)
<1>1. page.scheduled \in Candidate /\ page.retryTimer \in Candidate
  BY DEF Sound, Page
<1>2. CASE MarkdownUpdated
  <2>1. page' = BeforeFlush(page)
    BY <1>2 DEF MarkdownUpdated, BeforeFlush
  <2> QED BY <2>1, BeforeFlushSourced DEF Marks
<1>3. page.block = "none" =>
        /\ Bears(page.editor, K, N, S) /\ Bears(page.bodyRef, K, N, S)
        /\ Bearing(page.scheduled, K, N, S) /\ Bearing(page.retryTimer, K, N, S)
  BY DEF Sourced, Drafts
<1>4. CASE DebounceFires
  <2> DEFINE p == [page EXCEPT !.timer = "off", !.scheduled = NoSave]
  <2>1. /\ Sound(p) /\ p.editor = page.editor /\ p.bodyRef = page.bodyRef /\ p.scheduled = NoSave
        /\ p.unsaved = page.unsaved /\ p.agentRequired = page.agentRequired
        /\ p.retryTimer = page.retryTimer /\ p.retryCandidate = page.retryCandidate
        /\ p.block = page.block /\ KeepsRequest(page, p)
    BY NoSaveType DEF Sound, UnsavedIsNewest, Page, KeepsRequest
  <2>2. page' = (IF page.scheduled = NoSave THEN p ELSE TrackedFlushSave(p, page.scheduled))
    BY <1>4 DEF DebounceFires
  <2> HIDE DEF p
  <2>3. Marks(page, p, K, N, S)
    BY <1>3, <2>1, StillSourced DEF KeepsRequest, Marks
  <2>4. CASE page.scheduled # NoSave
    <3>1. ReadyFor(p, page.scheduled, K, N, S)
      BY <1>3, <2>1, <2>3, <2>4, HeldReady DEF Marks
    <3>2. Marks(p, page', K, N, S)
      BY <1>1, <2>1, <2>2, <2>4, <3>1, TrackedSourced DEF Marks
    <3> QED BY <2>3, <3>2 DEF Marks, Undisturbed
  <2> QED BY <2>2, <2>3, <2>4
<1>5. CASE AgentRetryFires
  <2> DEFINE p == CancelAgentRetry(page)
  <2>1. /\ Sound(p) /\ p.editor = page.editor /\ p.bodyRef = page.bodyRef /\ p.scheduled = page.scheduled
        /\ p.unsaved = page.unsaved /\ p.agentRequired = page.agentRequired
        /\ p.retryTimer = NoSave /\ p.retryCandidate = NoSave
        /\ p.block = page.block /\ KeepsRequest(page, p)
    BY CancelSound, CancelShape
  <2>2. page' = (IF p.block # "none" THEN p ELSE TrackedFlushSave(p, page.retryTimer)) /\ page.retryTimer # NoSave
    BY <1>5 DEF AgentRetryFires
  <2> HIDE DEF p
  <2>3. Marks(page, p, K, N, S)
    BY <1>3, <2>1, StillSourced DEF KeepsRequest, Marks
  <2>4. CASE p.block = "none"
    <3>1. ReadyFor(p, page.retryTimer, K, N, S)
      BY <1>3, <2>1, <2>2, <2>3, HeldReady DEF Marks
    <3>2. Marks(p, page', K, N, S)
      BY <1>1, <2>1, <2>2, <2>4, <3>1, TrackedSourced DEF Marks
    <3> QED BY <2>3, <3>2 DEF Marks, Undisturbed
  <2> QED BY <2>2, <2>3, <2>4
<1>6. CASE SaveShortcut
  <2>1. page' = SaveNow(page, page.bodyRef)
    BY <1>6 DEF SaveShortcut
  <2> QED BY <2>1, SaveNowSourced DEF Marks
<1> QED BY <1>2, <1>4, <1>5, <1>6

\* Typing n, which is no AI edit.
LEMMA TypeSourced ==
  ASSUME Sound(page), NEW K, NEW N, NEW S, Sourced(page, K, N, S), Type, NextEdit \in S, NextEdit \notin N
  PROVE  Marks(page, page', K, N, S)
<1> DEFINE body == page.editor \cup {NextEdit}
           q    == [page EXCEPT !.editor = body]
<1>1. page' = q
  BY DEF Type
<1>2. page.block = "none" => Bears(body, K, N, S) /\ Bears(page.bodyRef, K, N, S)
  BY DEF Sourced, Drafts, Bears
<1> HIDE DEF body
<1>3. /\ q.editor = body /\ q.bodyRef = page.bodyRef /\ q.scheduled = page.scheduled
      /\ q.unsaved = page.unsaved /\ q.agentRequired = page.agentRequired
      /\ q.retryTimer = page.retryTimer /\ q.retryCandidate = page.retryCandidate
      /\ q.block = page.block /\ KeepsRequest(page, q)
  BY DEF Sound, Page, KeepsRequest
<1> HIDE DEF q
<1> QED BY <1>1, <1>2, <1>3, StillSourced DEF KeepsRequest, Marks

LEMMA ToggleSourced ==
  ASSUME Sound(page), NEW K, NEW N, NEW S, Sourced(page, K, N, S), ToggleAutoSave
  PROVE  Marks(page, page', K, N, S)
<1>1. PICK on, timer : page' = [page EXCEPT !.autoSave = on, !.timer = timer]
  BY DEF ToggleAutoSave
<1> DEFINE q == [page EXCEPT !.autoSave = on, !.timer = timer]
<1>2. /\ q.editor = page.editor /\ q.bodyRef = page.bodyRef /\ q.scheduled = page.scheduled
      /\ q.unsaved = page.unsaved /\ q.agentRequired = page.agentRequired
      /\ q.retryTimer = page.retryTimer /\ q.retryCandidate = page.retryCandidate
      /\ q.block = page.block /\ KeepsRequest(page, q)
  BY DEF Sound, Page, KeepsRequest
<1> HIDE DEF q
<1>3. q.block = "none" => Bears(q.editor, K, N, S) /\ Bears(q.bodyRef, K, N, S)
  BY <1>2 DEF Sourced, Drafts
<1>4. Marks(page, q, K, N, S)
  BY <1>2, <1>3, StillSourced DEF KeepsRequest, Marks
<1> QED BY <1>1, <1>4 DEF q

\* An AI edit is applied: its own save owes it.
LEMMA ApplySourced ==
  ASSUME Sound(page), NEW K, NEW N, NEW S, Sourced(page, K, N, S), NextEdit \notin S,
         NEW op \in Ops, ApplyMarkdown(op)
  PROVE  Marks(page, page', K \cup {NextEdit}, N \cup {NextEdit}, S \cup {NextEdit})
<1> DEFINE n    == NextEdit
           body == page.editor \cup {n}
           m    == [page EXCEPT !.editor = body, !.bodyRef = body]
           L    == K \cup {n}
           M    == N \cup {n}
           T    == S \cup {n}
<1>1. page' = QueueSave(m, body, "agent", op) /\ n \in LocalEdits
  BY DEF ApplyMarkdown
<1>2. body \in SUBSET Edits
  BY <1>1, EditsAssumption DEF Sound, Page
<1>3. /\ RequestIsTracked(page) /\ page.block # "session-expired" /\ Signed(page, N, S)
      /\ page.block = "none" => /\ Bears(page.editor, K, N, S)
                                /\ page.inflight # NoSave => page.inflight.body \cap N \subseteq K
  BY DEF Sourced, Drafts
<1>4. page.block = "none" => Bears(body, L, M, T)
  BY <1>3 DEF Bears
<1>5. page.inflight # NoSave => /\ page.inflight.body \cap M = page.inflight.body \cap N
                                /\ page.inflight.body \subseteq T
  BY <1>3 DEF Signed
<1>6. page.block = "none" /\ page.inflight # NoSave => page.inflight.body \cap M \subseteq L
  BY <1>3, <1>5
<1> HIDE DEF body, n, L, M, T
<1>7. /\ Sound(m) /\ m.editor = body /\ m.bodyRef = body /\ m.agentRequired = page.agentRequired
      /\ m.block = page.block /\ KeepsRequest(page, m)
  BY <1>2 DEF Sound, UnsavedIsNewest, Page, KeepsRequest
<1> HIDE DEF m
<1>8. RequestIsTracked(m) /\ Signed(m, M, T) /\ Undisturbed(page, m)
  BY <1>3, <1>5, <1>7 DEF RequestIsTracked, Signed, KeepsRequest, Undisturbed
<1>9. Renews(m, body, L, M, T)
  BY <1>3, <1>4, <1>6, <1>7, <1>8 DEF Renews, KeepsRequest
<1>10. "agent" \in Sources /\ op \in Ops \cup {NoOp}
  BY DEF Sources
<1>11. Marks(m, page', L, M, T)
  BY <1>1, <1>2, <1>7, <1>9, <1>10, QueueSourced DEF Marks
<1>12. Marks(page, page', L, M, T)
  BY <1>8, <1>11 DEF Marks, Undisturbed
<1> QED BY <1>12 DEF L, M, T, n

LEMMA LoseLockSourced ==
  ASSUME Sound(page), NEW K, NEW N, NEW S, Sourced(page, K, N, S), LoseLock
  PROVE  Marks(page, page', K, N, S)
<1> DEFINE lost == [page EXCEPT !.lock = "lost"]
           b    == [lost EXCEPT !.block = "lock-lost", !.pending = NoSave]
           c    == ClearScheduledSave(b)
           s    == SetStatus(c, "lock-lost")
<1>1. /\ Sound(lost) /\ KeepsRequest(page, lost)
      /\ lost.editor = page.editor /\ lost.bodyRef = page.bodyRef /\ lost.scheduled = page.scheduled
      /\ lost.unsaved = page.unsaved /\ lost.agentRequired = page.agentRequired
      /\ lost.retryTimer = page.retryTimer /\ lost.retryCandidate = page.retryCandidate /\ lost.block = page.block
  BY DEF Sound, UnsavedIsNewest, Page, KeepsRequest
<1>2. page' = (IF page.block = "lock-lost" THEN lost ELSE s)
  BY DEF LoseLock
<1> HIDE DEF lost
<1>3. CASE page.block = "lock-lost"
  BY <1>1, <1>2, <1>3, StillSourced DEF KeepsRequest, Marks
<1>4. CASE page.block # "lock-lost"
  <2>1. /\ Sound(b) /\ b.inflight = lost.inflight /\ b.base = lost.base /\ b.seq = lost.seq /\ b.saves = lost.saves
        /\ b.pending = NoSave /\ b.block = "lock-lost" /\ b.unsaved = lost.unsaved
        /\ b.agentRequired = lost.agentRequired
    BY <1>1, NoSaveType DEF Sound, UnsavedIsNewest, Page, Blocks
  <2> HIDE DEF b
  <2>2. /\ Sound(c) /\ KeepsRequest(b, c) /\ c.block = b.block /\ c.unsaved = b.unsaved
        /\ c.agentRequired = b.agentRequired /\ c.scheduled = NoSave
        /\ c.retryTimer = NoSave /\ c.retryCandidate = NoSave
    BY <2>1, ClearScheduledSound, ClearScheduledShape
  <2> HIDE DEF c
  <2>3. KeepsRest(c, s) /\ KeepsRequest(c, s) /\ s.block = c.block
    BY <2>2, SetStatusShape
  <2> HIDE DEF s
  <2>4. /\ s.inflight = page.inflight /\ s.base = page.base /\ s.seq = page.seq /\ s.saves = page.saves
        /\ s.pending = NoSave /\ s.block = "lock-lost"
        /\ s.unsaved = page.unsaved /\ s.agentRequired = page.agentRequired /\ s.scheduled = NoSave
        /\ s.retryTimer = NoSave /\ s.retryCandidate = NoSave
    BY <1>1, <2>1, <2>2, <2>3 DEF KeepsRequest, KeepsRest, KeepsPage
  <2>5. Marks(page, s, K, N, S)
    BY <2>4, StillSourced DEF Marks
  <2> QED BY <1>2, <1>4, <2>5
<1> QED BY <1>3, <1>4

LEMMA DetachedBears ==
  ASSUME NEW c \in Candidate, NEW d \in Candidate, NEW K, NEW N, NEW S,
         Bearing(c, K, N, S), Bearing(d, K, N, S)
  PROVE  Bearing(SelectDetachedSaveCandidate(c, d), K, N, S)
<1> DEFINE x == SelectDetachedSaveCandidate(c, d)
<1>1. \/ x = c \/ x = d
      \/ x = MergePendingNoteSave(c, d) /\ d # NoSave
      \/ x = MergePendingNoteSave(d, c) /\ c # NoSave
  BY DEF SelectDetachedSaveCandidate
<1> HIDE DEF x
<1>2. CASE x = MergePendingNoteSave(c, d) /\ d # NoSave
  <2>1. x.body = d.body
    BY <1>2, MergeSource
  <2>2. Bearing(x, K, N, S)
    BY <1>2, <2>1 DEF Bearing
  <2> QED BY <2>2 DEF x
<1>3. CASE x = MergePendingNoteSave(d, c) /\ c # NoSave
  <2>1. x.body = c.body
    BY <1>3, MergeSource
  <2>2. Bearing(x, K, N, S)
    BY <1>3, <2>1 DEF Bearing
  <2> QED BY <2>2 DEF x
<1> QED BY <1>1, <1>2, <1>3 DEF x

LEMMA UnmountSourced ==
  ASSUME Sound(page), NEW K, NEW N, NEW S, Sourced(page, K, N, S), Unmount
  PROVE  Marks(page, page', K, N, S)
<1> DEFINE waiting  == IF page.scheduled # NoSave THEN page.scheduled
                       ELSE IF page.inflight = NoSave THEN page.unsaved ELSE NoSave
           detached == SelectDetachedSaveCandidate(waiting, page.retryCandidate)
           away     == [page EXCEPT !.mounted = FALSE]
           cleared  == ClearScheduledSave(away)
           settled  == [cleared EXCEPT !.saves = TrackSettled(@, FALSE)]
<1>1. /\ page.scheduled \in Candidate /\ page.unsaved \in Candidate /\ page.retryCandidate \in Candidate
      /\ NoSave \in Candidate /\ Bearing(NoSave, K, N, S)
  BY NoSaveType DEF Sound, Page, Bearing
<1>2. waiting \in Candidate /\ (page.block = "none" => Bearing(waiting, K, N, S))
  BY <1>1 DEF Sourced, Drafts
<1> HIDE DEF waiting
<1>3. detached \in Candidate
  BY <1>1, <1>2, MergeType DEF SelectDetachedSaveCandidate
<1>4. page.block = "none" => Bearing(detached, K, N, S)
  BY <1>1, <1>2, DetachedBears DEF Sourced, Drafts
<1> HIDE DEF detached
<1>5. /\ Sound(away) /\ KeepsRequest(page, away) /\ away.editor = page.editor /\ away.bodyRef = page.bodyRef
      /\ away.scheduled = page.scheduled /\ away.unsaved = page.unsaved
      /\ away.agentRequired = page.agentRequired /\ away.retryTimer = page.retryTimer
      /\ away.retryCandidate = page.retryCandidate /\ away.block = page.block
  BY DEF Sound, UnsavedIsNewest, Page, KeepsRequest
<1> HIDE DEF away
<1>6. page.block = "none" => Bears(page.editor, K, N, S) /\ Bears(page.bodyRef, K, N, S)
  BY DEF Sourced, Drafts
<1>7. Marks(page, away, K, N, S)
  BY <1>5, <1>6, StillSourced DEF KeepsRequest, Marks
<1>8. Sound(cleared) /\ Marks(away, cleared, K, N, S) /\ cleared.block = page.block
  BY <1>5, <1>7, ClearScheduledSound, ClearedSourced, ClearScheduledShape DEF Marks
<1>9. Unblocked(cleared) = cleared
  BY <1>8, UnblockedSteady DEF Marks, Sourced
<1>10. page' = (IF cleared.block # "none"
                THEN IF cleared.unsaved # NoSave THEN settled ELSE cleared
                ELSE IF detached # NoSave THEN TrackedFlushSave(cleared, detached) ELSE cleared)
  BY <1>9 DEF Unmount, cleared, away, detached, waiting
<1> HIDE DEF cleared
<1>11. Marks(page, cleared, K, N, S)
  BY <1>7, <1>8 DEF Marks, Undisturbed
<1>12. CASE page' = cleared
  BY <1>11, <1>12
<1>13. CASE page' = settled /\ cleared.block # "none"
  <2>1. /\ settled.agentRequired = cleared.agentRequired
        /\ settled.inflight = cleared.inflight /\ settled.base = cleared.base /\ settled.seq = cleared.seq
        /\ settled.pending = cleared.pending /\ settled.block = cleared.block
        /\ settled.saves = TrackSettled(cleared.saves, FALSE)
    BY <1>8 DEF Sound, Page
  <2>2. /\ cleared.saves \in DocumentSaveState /\ Numbered(cleared.saves) /\ cleared.seq \in Nat
        /\ cleared.inflight # NoSave => cleared.seq \in cleared.saves.pending
        /\ cleared.pending = NoSave
    BY <1>8, <1>13 DEF Sound, Page, Marks, Sourced, RequestIsTracked
  <2>3. /\ Numbered(settled.saves)
        /\ cleared.seq \in cleared.saves.pending => cleared.seq \in settled.saves.pending
    <3>1. /\ Numbered(Track(cleared.saves)) /\ cleared.saves.pending \subseteq Track(cleared.saves).pending
          /\ Track(cleared.saves) \in DocumentSaveState
          /\ \A n \in cleared.saves.pending : n # cleared.saves.sequence + 1
      BY <2>2, TrackNumbered, TrackType
    <3>2. cleared.saves.sequence + 1 \in Nat
      BY <2>2 DEF DocumentSaveState
    <3>3. /\ Numbered(TrackSettled(cleared.saves, FALSE))
          /\ \A n \in Track(cleared.saves).pending :
               n # cleared.saves.sequence + 1 => n \in TrackSettled(cleared.saves, FALSE).pending
      BY <3>1, <3>2, SettleNumbered DEF TrackSettled
    <3> QED BY <2>1, <3>1, <3>3
  <2> HIDE DEF settled
  <2>4. RequestIsTracked(settled) /\ Signed(settled, N, S)
    BY <1>8, <2>1, <2>2, <2>3 DEF Marks, Sourced, Signed, RequestIsTracked
  <2>5. Marks(cleared, settled, K, N, S)
    BY <1>8, <1>13, <2>1, <2>4 DEF Marks, Sourced, Undisturbed
  <2> QED BY <1>11, <1>13, <2>5 DEF Marks, Undisturbed
<1>14. CASE page' = TrackedFlushSave(cleared, detached) /\ detached # NoSave
  <2>1. ReadyFor(cleared, detached, K, N, S)
    BY <1>4, <1>8, <1>14, HeldReady DEF Marks
  <2>2. Marks(cleared, page', K, N, S)
    BY <1>3, <1>8, <1>14, <2>1, TrackedSourced DEF Marks
  <2> QED BY <1>11, <2>2 DEF Marks, Undisturbed
<1> QED BY <1>10, <1>12, <1>13, <1>14

LEMMA FlushSourced ==
  ASSUME Sound(page), NEW K, NEW N, NEW S, Sourced(page, K, N, S), StartFlush \/ ContinueFlush
  PROVE  Marks(page, page', K, N, S)
<1>1. CASE StartFlush
  <2>1. CASE page.mounted
    <3> DEFINE synced  == BeforeFlush(page)
               cleared == ClearScheduledSave(synced)
               f       == [NoFlush EXCEPT !.pc = "draining"]
    <3>1. Sound(synced) /\ Marks(page, synced, K, N, S)
      BY BeforeFlushSound, BeforeFlushSourced DEF Marks
    <3>2. page' = [cleared EXCEPT !.flush = f]
      BY <1>1, <2>1 DEF StartFlush
    <3> HIDE DEF synced
    <3>3. Sound(cleared) /\ Marks(synced, cleared, K, N, S)
      BY <3>1, ClearScheduledSound, ClearedSourced DEF Marks
    <3> HIDE DEF cleared, f
    <3>4. Marks(cleared, page', K, N, S)
      BY <3>2, <3>3, FlushFieldSourced DEF Marks
    <3> QED BY <3>1, <3>3, <3>4 DEF Marks, Undisturbed
  <2>2. CASE ~page.mounted
    <3>1. PICK f : page' = [page EXCEPT !.flush = f]
      BY <1>1, <2>2 DEF StartFlush
    <3> QED BY <3>1, FlushFieldSourced DEF Marks
  <2> QED BY <2>1, <2>2
<1>2. CASE ContinueFlush
  <2>1. page' = FlushRound(page) \/ \E ok : page' = EndFlush(page, ok)
    BY <1>2 DEF ContinueFlush
  <2>2. CASE page' = FlushRound(page)
    BY <2>2, FlushRoundSourced DEF Marks
  <2>3. CASE \E ok : page' = EndFlush(page, ok)
    <3>1. PICK f : page' = [page EXCEPT !.flush = f]
      BY <2>3 DEF EndFlush
    <3> QED BY <3>1, FlushFieldSourced DEF Marks
  <2> QED BY <2>1, <2>2, <2>3
<1> QED BY <1>1, <1>2

\* A freshly opened editor has a saved body.
LEMMA OpenedSourced ==
  ASSUME NEW body, NEW version, NEW saves, Numbered(saves), NEW N, NEW S, body \cap N = {}, body \subseteq S
  PROVE  Sourced(Opened(body, version, saves), {}, N, S)
BY DEF Opened, Sourced, RequestIsTracked, Signed, Drafts, Bears, Bearing

-----------------------------------------------------------------------------
(***************************************************************************)
(* The AI edits no version has, the edits made so far, and the inductive   *)
(* invariant of a server that merges while the login lasts.                *)
(***************************************************************************)
Stored == UNION {bodies[v] : v \in DOMAIN bodies}
Unseen == {e \in DOMAIN opOf : opOf[e] # NoOp} \ Stored
Made   == DOMAIN opOf \cup Remote

SourceInv ==
  /\ RemoteInv /\ LockInv /\ Stored \subseteq Made
  /\ reply.kind = "ok" => page.inflight.body \cap Unseen = {}
  /\ \E K : Sourced(page, K, Unseen, Made)

LEMMA StoredMembers == \A e : e \in Stored <=> \E v \in DOMAIN bodies : e \in bodies[v]
<1> DEFINE T == {bodies[v] : v \in DOMAIN bodies}
<1>1. \A b : b \in T <=> \E v \in DOMAIN bodies : b = bodies[v]
  OBVIOUS
<1>2. Stored = UNION T
  BY DEF Stored
<1> HIDE DEF T
<1> QED BY <1>1, <1>2

\* One more version.
LEMMA StoredGrows ==
  ASSUME bodies \in Seq(SUBSET Edits), NEW b \in SUBSET Edits, bodies' = Append(bodies, b)
  PROVE  Stored' = Stored \cup b
<1>1. /\ Len(bodies) \in Nat /\ bodies'[Len(bodies) + 1] = b /\ \A v \in 1..Len(bodies) : bodies'[v] = bodies[v]
      /\ DOMAIN bodies = 1..Len(bodies) /\ DOMAIN bodies' = 1..(Len(bodies) + 1)
  OBVIOUS
<1> DEFINE T == {bodies'[v] : v \in DOMAIN bodies'}
<1>2. \A x : x \in T <=> \E v \in DOMAIN bodies' : x = bodies'[v]
  OBVIOUS
<1>3. Stored' = UNION T
  BY DEF Stored
<1> HIDE DEF T
<1>4. \A e : e \in Stored' <=> \E v \in DOMAIN bodies' : e \in bodies'[v]
  BY <1>2, <1>3
<1>5. \A v : v \in DOMAIN bodies' <=> v \in DOMAIN bodies \/ v = Len(bodies) + 1
  BY <1>1
<1>6. \A e : e \in Stored' <=> e \in Stored \/ e \in b
  BY <1>1, <1>4, <1>5, StoredMembers
<1> HIDE DEF Stored
<1> QED BY <1>6

LEMMA VersionStored ==
  ASSUME bodies \in Seq(SUBSET Edits), bodies # <<>>
  PROVE  Current \subseteq Stored /\ \A v \in 1..Len(bodies) : bodies[v] \subseteq Stored
<1>1. \A v \in 1..Len(bodies) : bodies[v] \subseteq Stored
  BY StoredMembers
<1>2. Len(bodies) \in 1..Len(bodies)
  OBVIOUS
<1> QED BY <1>1, <1>2 DEF Current

\* The step that saves an AI edit first is a request of the agent.
SavesAsAgent ==
  \A e \in (bodies'[Len(bodies')] \ Stored) \cap LocalEdits : opOf[e] # NoOp => page.inflight.source = "agent"

SourcePage ==
  /\ Sound(page) /\ page.block # "session-expired" /\ reply \in Reply
  /\ bodies \in Seq(SUBSET Edits) /\ bodies # <<>> /\ Current \in SUBSET Edits /\ Current \subseteq Stored
  /\ opOf \in Seq(Ops \cup {NoOp})

LEMMA SourceTypes == SourceInv => SourcePage
BY CurrentType, VersionStored
   DEF SourceInv, LockInv, IInv, PageIsSound, RestTypeOK, SourcePage

LEMMA NothingSaved ==
  ASSUME SourcePage, bodies' = bodies
  PROVE  SavesAsAgent /\ Stored' = Stored
<1>1. bodies'[Len(bodies')] = Current
  BY DEF Current
<1>2. SavesAsAgent
  BY <1>1 DEF SavesAsAgent, SourcePage
<1>3. Stored' = Stored
  BY DEF Stored
<1> QED BY <1>2, <1>3

LEMMA ServerSourced ==
  ASSUME SourceInv, Server
  PROVE  /\ page' = page /\ Stored' \subseteq Made' /\ SavesAsAgent
         /\ reply'.kind = "ok" => page'.inflight.body \cap Unseen' = {}
         /\ \E K : Sourced(page', K, Unseen', Made')
<1>1. /\ SourcePage /\ Stored \subseteq Made
      /\ page.block # "session-expired"
  BY SourceTypes DEF SourceInv, SourcePage
<1>2. page' = page /\ page.inflight # NoSave /\ opOf' = opOf
  BY DEF Server, ServerCommits, ServerConflicts, RequestLost, ServerForbids, SessionRefuses, Waiting
<1>3. PICK K : Sourced(page, K, Unseen, Made)
  BY DEF SourceInv
<1>4. Made' = Made
  BY <1>2 DEF Made
<1>5. CASE ServerCommits
  <2>1. PICK saved \in Commit(page.inflight.body, page.base) : bodies' = Append(bodies, saved.body)
    BY <1>5 DEF ServerCommits
  <2>2. saved.body \in {page.inflight.body, page.inflight.body \cup (Current \ bodies[page.base])}
    BY <2>1 DEF Commit
  <2>3. page.inflight.body \in SUBSET Edits /\ page.inflight.body \subseteq Made
    BY <1>1, <1>2, <1>3 DEF SourcePage, Sound, Page, Candidate, Sourced, Signed
  <2>4. /\ saved.body \in SUBSET Edits /\ page.inflight.body \subseteq saved.body
        /\ saved.body \subseteq page.inflight.body \cup Stored
    BY <1>1, <2>2, <2>3 DEF SourcePage
  <2>5. Stored' = Stored \cup saved.body
    BY <1>1, <2>1, <2>4, StoredGrows DEF SourcePage
  <2>6. Stored' \subseteq Made'
    BY <1>1, <1>4, <2>3, <2>4, <2>5
  <2>7. Unseen' \subseteq Unseen /\ page.inflight.body \cap Unseen' = {}
    <3> HIDE DEF Stored
    <3>1. Unseen' = {e \in DOMAIN opOf : opOf[e] # NoOp} \ (Stored \cup saved.body)
      BY <1>2, <2>5 DEF Unseen
    <3> QED BY <2>4, <3>1 DEF Unseen
  <2>8. \E L : Sourced(page', L, Unseen', Made')
    BY <1>2, <1>3, <1>4, <2>7, SourcedLater
  <2>9. SavesAsAgent
    <3>1. bodies'[Len(bodies')] = saved.body
      BY <1>1, <2>1, <2>4 DEF SourcePage
    <3> SUFFICES ASSUME NEW e \in (saved.body \ Stored) \cap LocalEdits, opOf[e] # NoOp
                 PROVE  page.inflight.source = "agent"
      BY <3>1 DEF SavesAsAgent
    <3>2. e \in page.inflight.body /\ e \notin Stored
      BY <2>4
    <3>3. e \in DOMAIN opOf
      BY <2>3, <3>2, EditsAssumption DEF Made
    <3>4. e \in Unseen
      BY <3>2, <3>3 DEF Unseen
    <3> QED BY <1>2, <1>3, <3>2, <3>4 DEF Sourced, Signed
  <2> QED BY <1>2, <2>6, <2>7, <2>8, <2>9
<1>6. CASE ~ServerCommits
  <2>1. bodies' = bodies /\ reply'.kind # "ok"
    BY <1>6 DEF Server, ServerConflicts, RequestLost, ServerForbids, SessionRefuses, NoReply
  <2>2. Stored' = Stored /\ SavesAsAgent
    BY <1>1, <2>1, NothingSaved
  <2>3. Unseen' = Unseen
    BY <1>2, <2>2 DEF Unseen
  <2> QED BY <1>1, <1>2, <1>3, <1>4, <2>1, <2>2, <2>3
<1> QED BY <1>5, <1>6

LEMMA RemoteSavesSourced ==
  ASSUME SourceInv, NEW r \in Remote, RemoteSaves(r)
  PROVE  /\ page' = page /\ Stored' \subseteq Made' /\ SavesAsAgent
         /\ reply'.kind = "ok" => page'.inflight.body \cap Unseen' = {}
         /\ \E K : Sourced(page', K, Unseen', Made')
<1>1. SourcePage /\ Stored \subseteq Made /\ r \in Edits /\ r \notin LocalEdits /\ r \in Made
  BY SourceTypes, EditsAssumption DEF SourceInv, Made
<1>2. page' = page /\ opOf' = opOf /\ reply' = reply /\ bodies' = Append(bodies, Current \cup {r})
  BY DEF RemoteSaves
<1>3. Current \cup {r} \in SUBSET Edits /\ Current \subseteq Stored
  BY <1>1 DEF SourcePage
<1>4. Stored' = Stored \cup (Current \cup {r})
  BY <1>1, <1>2, <1>3, StoredGrows DEF SourcePage
<1>5. Made' = Made
  BY <1>2 DEF Made
<1>6. PICK K : Sourced(page, K, Unseen, Made)
  BY DEF SourceInv
<1>7. Unseen' \subseteq Unseen
  <2>1. Unseen' = {e \in DOMAIN opOf : opOf[e] # NoOp} \ (Stored \cup (Current \cup {r}))
    BY <1>2, <1>4 DEF Unseen
  <2> HIDE DEF Stored
  <2> QED BY <2>1 DEF Unseen
<1>8. \E L : Sourced(page', L, Unseen', Made')
  BY <1>2, <1>5, <1>6, <1>7, SourcedLater
<1>9. SavesAsAgent
  <2>1. bodies'[Len(bodies')] = Current \cup {r}
    BY <1>1, <1>2, <1>3 DEF SourcePage
  <2> QED BY <1>1, <1>3, <2>1 DEF SavesAsAgent
<1>10. Stored' \subseteq Made'
  BY <1>1, <1>3, <1>4, <1>5
<1> QED BY <1>2, <1>7, <1>8, <1>9, <1>10 DEF SourceInv

LEMMA AnsweredSourced ==
  ASSUME SourceInv, Answered
  PROVE  reply' = NoReply /\ \E K : Sourced(page', K, Unseen, Made)
<1>1. /\ SourcePage /\ Stored \subseteq Made /\ NoReply.kind = "waiting"
      /\ AnswersARequest /\ AnswerIsStored /\ reply.kind \notin {"conflict", "session-expired"}
      /\ reply.kind = "ok" => page.inflight.body \cap Unseen = {}
  BY SourceTypes DEF SourceInv, RemoteInv, LockInv, NoReply
<1>2. PICK K : Sourced(page, K, Unseen, Made)
  BY DEF SourceInv
<1>3. page.inflight # NoSave
  BY <1>1 DEF AnswersARequest, Answered, SaveSucceeds, SaveConflicts, SaveFails, SaveForbidden, SaveUnauthorized
<1>4. reply' = NoReply
  BY DEF Answered, SaveSucceeds, SaveConflicts, SaveFails, SaveForbidden, SaveUnauthorized
<1>5. CASE SaveSucceeds
  <2>1. page' = OnSaved(page, reply) /\ reply.kind = "ok"
    BY <1>5 DEF SaveSucceeds
  <2>2. reply.version \in 1..Len(bodies) /\ reply.body = bodies[reply.version]
    BY <1>1, <2>1 DEF AnswerIsStored
  <2>3. reply.body \subseteq Stored
    BY <1>1, <2>2, VersionStored DEF SourcePage
  <2>4. reply.body \cap Unseen = {} /\ reply.body \subseteq Made
    <3> HIDE DEF Stored
    <3> QED BY <1>1, <2>3 DEF Unseen
  <2> QED BY <1>1, <1>2, <1>3, <1>4, <2>1, <2>4, SavedSourced DEF SourcePage
<1>6. CASE SaveFails
  BY <1>1, <1>2, <1>3, <1>4, <1>6, FailedSourced DEF SaveFails, SourcePage
<1>7. CASE SaveForbidden
  BY <1>1, <1>2, <1>3, <1>4, <1>7, ForbiddenSourced DEF SaveForbidden, SourcePage
<1> QED BY <1>1, <1>5, <1>6, <1>7 DEF Answered, SaveConflicts, SaveUnauthorized

LEMMA ReopenSourced ==
  ASSUME SourceInv, Reopen
  PROVE  reply = NoReply /\ \E K : Sourced(page', K, Unseen, Made)
<1>1. SourcePage /\ Stored \subseteq Made /\ AnswersARequest
  BY SourceTypes DEF SourceInv, RemoteInv
<1>2. PICK K : Sourced(page, K, Unseen, Made)
  BY DEF SourceInv
<1>3. /\ Numbered(page.saves) /\ page.inflight = NoSave
      /\ page' = Opened(Current, Len(bodies), page.saves)
  BY <1>2 DEF Sourced, RequestIsTracked, Reopen, Drained
<1>4. reply = NoReply
  BY <1>1, <1>3 DEF AnswersARequest
<1>5. Current \cap Unseen = {} /\ Current \subseteq Made
  <2>1. Current \subseteq Stored
    BY <1>1 DEF SourcePage
  <2> HIDE DEF Stored
  <2> QED BY <1>1, <2>1 DEF Unseen
<1>6. Sourced(page', {}, Unseen, Made)
  BY <1>3, <1>5, OpenedSourced
<1> QED BY <1>4, <1>6

LEMMA InitSourceInv == Init => SourceInv
<1> SUFFICES ASSUME Init PROVE SourceInv
  OBVIOUS
<1>1. page = Opened({}, 1, Fresh) /\ bodies = <<{}>> /\ opOf = <<>> /\ reply = NoReply /\ session = "live"
  BY DEF Init
<1>2. RemoteInv /\ LockInv /\ reply.kind # "ok"
  BY <1>1, InitRemoteInv, InitIInv DEF LockInv, Opened, NoReply
<1>3. Stored = {}
  <2>1. \A v \in DOMAIN bodies : bodies[v] = {}
    BY <1>1
  <2>2. \A e : e \notin Stored
    BY <2>1, StoredMembers
  <2> HIDE DEF Stored
  <2> QED BY <2>2
<1>4. Sourced(page, {}, Unseen, Made)
  <2>1. Numbered(Fresh)
    BY DEF Fresh, Numbered
  <2>2. {} \cap Unseen = {} /\ {} \subseteq Made
    OBVIOUS
  <2> QED BY <1>1, <2>1, <2>2, OpenedSourced
<1> QED BY <1>2, <1>3, <1>4 DEF SourceInv

\* What an edit adds to the edits made, and to those of the AI.
LEMMA EditMade ==
  ASSUME SourcePage, NEW op \in Ops \cup {NoOp}, opOf' = Append(opOf, op), bodies' = bodies,
         Stored \subseteq Made, NextEdit \in LocalEdits
  PROVE  /\ NextEdit \notin Made /\ Made' = Made \cup {NextEdit}
         /\ op = NoOp => Unseen' = Unseen
         /\ op # NoOp => Unseen' = Unseen \cup {NextEdit}
<1>1. /\ DOMAIN opOf = 1..Len(opOf) /\ Len(opOf) \in Nat
      /\ DOMAIN opOf' = 1..(Len(opOf) + 1)
      /\ opOf'[Len(opOf) + 1] = op /\ \A e \in 1..Len(opOf) : opOf'[e] = opOf[e]
  BY DEF SourcePage
<1>2. Stored' = Stored
  BY NothingSaved
<1> HIDE DEF Stored
<1>3. NextEdit \notin DOMAIN opOf /\ DOMAIN opOf' = DOMAIN opOf \cup {NextEdit}
  BY <1>1 DEF NextEdit
<1>4. NextEdit \notin Made /\ Made' = Made \cup {NextEdit}
  BY <1>3, EditsAssumption DEF Made
<1>5. NextEdit \notin Stored
  BY <1>4
<1>6. opOf'[NextEdit] = op /\ \A e \in DOMAIN opOf : opOf'[e] = opOf[e]
  BY <1>1 DEF NextEdit
<1>7. Unseen' = {e \in DOMAIN opOf' : opOf'[e] # NoOp} \ Stored
  BY <1>2 DEF Unseen
<1> QED BY <1>3, <1>4, <1>5, <1>6, <1>7 DEF Unseen

LEMMA EditSourced ==
  ASSUME SourceInv, Type \/ \E op \in Ops : ApplyMarkdown(op)
  PROVE  /\ \E K : Sourced(page', K, Unseen', Made')
         /\ Undisturbed(page, page') /\ Made \subseteq Made' /\ bodies' = bodies /\ reply' = reply
         /\ page.inflight # NoSave /\ page.inflight.body \cap Unseen = {} => page.inflight.body \cap Unseen' = {}
<1>1. SourcePage /\ Stored \subseteq Made /\ Sound(page)
  BY SourceTypes DEF SourceInv, SourcePage
<1>2. PICK K : Sourced(page, K, Unseen, Made)
  BY DEF SourceInv
<1>3. page.inflight # NoSave => page.inflight.body \subseteq Made
  BY <1>2 DEF Sourced, Signed
<1>4. bodies' = bodies /\ reply' = reply /\ NextEdit \in LocalEdits
  BY DEF Type, ApplyMarkdown, ServerUnchanged
<1> HIDE DEF Stored
<1>5. CASE Type
  <2>1. opOf' = Append(opOf, NoOp)
    BY <1>5 DEF Type
  <2>2. NextEdit \notin Made /\ Made' = Made \cup {NextEdit} /\ Unseen' = Unseen
    BY <1>1, <1>4, <2>1, EditMade
  <2>3. Made \subseteq Made' /\ NextEdit \in Made' /\ NextEdit \notin Unseen' /\ Unseen' \subseteq Unseen
    <3>1. NextEdit \notin Unseen
      BY <2>2 DEF Unseen, Made
    <3> QED BY <2>2, <3>1
  <2>4. Sourced(page, K \cap Unseen', Unseen', Made')
    BY <1>2, <2>3, SourcedLater
  <2>5. Marks(page, page', K \cap Unseen', Unseen', Made')
    BY <1>1, <1>5, <2>3, <2>4, TypeSourced
  <2> QED BY <1>4, <2>2, <2>3, <2>5 DEF Marks
<1>6. CASE \E op \in Ops : ApplyMarkdown(op)
  <2>1. PICK op \in Ops : ApplyMarkdown(op)
    BY <1>6
  <2>2. opOf' = Append(opOf, op) /\ op # NoOp
    BY <2>1, NoOpAssumption DEF ApplyMarkdown
  <2>3. NextEdit \notin Made /\ Made' = Made \cup {NextEdit} /\ Unseen' = Unseen \cup {NextEdit}
    BY <1>1, <1>4, <2>2, EditMade
  <2>4. Marks(page, page', K \cup {NextEdit}, Unseen', Made')
    BY <1>1, <1>2, <2>1, <2>3, ApplySourced
  <2> QED BY <1>3, <1>4, <2>3, <2>4 DEF Marks
<1> QED BY <1>5, <1>6

LEMMA NextSourceInv ==
  ASSUME MaxExpiries = 0, ~LegacyServer, SourceInv, [Next]_vars
  PROVE  SourceInv' /\ SavesAsAgent
<1> DEFINE Answers == reply'.kind = "ok" => page'.inflight.body \cap Unseen' = {}
           Bearer  == \E K : Sourced(page', K, Unseen', Made')
           Good    == Stored' \subseteq Made' /\ Answers /\ Bearer /\ SavesAsAgent
<1>1. RemoteInv' /\ LockInv'
  BY NextRemoteInv, NextLockInv DEF SourceInv
<1>2. /\ SourcePage /\ Sound(page) /\ Stored \subseteq Made
      /\ reply.kind = "ok" => page.inflight # NoSave /\ page.inflight.body \cap Unseen = {}
      /\ NoReply.kind # "ok"
  BY SourceTypes DEF SourceInv, SourcePage, RemoteInv, AnswersARequest, NoReply
<1>3. PICK K : Sourced(page, K, Unseen, Made)
  BY DEF SourceInv
<1>4. ~SessionExpires
  <2>1. budget.expiries = 0
    BY DEF SourceInv, LockInv, IInv, RestTypeOK, Budgets
  <2> QED BY <2>1 DEF SessionExpires, Spend
<1>5. ASSUME bodies' = bodies, opOf' = opOf PROVE Stored' = Stored /\ Unseen' = Unseen /\ Made' = Made /\ SavesAsAgent
  BY <1>2, <1>5, NothingSaved DEF Unseen, Made
<1> HIDE DEF Stored
<1>6. ASSUME bodies' = bodies, opOf' = opOf, reply' = reply, Marks(page, page', K, Unseen, Made) PROVE Good
  BY <1>2, <1>5, <1>6 DEF Marks, Undisturbed
<1>7. Good
  <2>1. CASE UNCHANGED vars
    BY <1>2, <1>3, <1>6, <2>1 DEF vars, Marks, Undisturbed
  <2>2. CASE Answered
    <3>1. bodies' = bodies /\ opOf' = opOf
      BY <2>2 DEF Answered, SaveSucceeds, SaveConflicts, SaveFails, SaveForbidden, SaveUnauthorized, ServerUnchanged
    <3> QED BY <1>2, <1>5, <2>2, <3>1, AnsweredSourced
  <2>3. CASE Server
    BY <2>3, ServerSourced
  <2>4. CASE SessionReturns
    BY <1>2, <1>3, <1>6, <2>4 DEF SessionReturns, Marks, Undisturbed
  <2>5. ASSUME NEW r \in Remote, RemoteSaves(r) PROVE Good
    BY <2>5, RemoteSavesSourced
  <2>6. CASE Reopen
    <3>1. bodies' = bodies /\ opOf' = opOf /\ reply' = reply
      BY <2>6 DEF Reopen, ServerUnchanged
    <3> QED BY <1>2, <1>5, <2>6, <3>1, ReopenSourced
  <2>7. CASE Type \/ \E op \in Ops : ApplyMarkdown(op)
    <3>1. /\ Bearer /\ Undisturbed(page, page') /\ Made \subseteq Made' /\ bodies' = bodies /\ reply' = reply
          /\ page.inflight # NoSave /\ page.inflight.body \cap Unseen = {}
               => page.inflight.body \cap Unseen' = {}
      BY <2>7, EditSourced
    <3>2. Stored' = Stored /\ SavesAsAgent
      BY <1>2, <3>1, NothingSaved
    <3> QED BY <1>2, <3>1, <3>2 DEF Undisturbed
  <2> HIDE DEF Good
  <2>8. CASE MarkdownUpdated \/ DebounceFires \/ AgentRetryFires \/ SaveShortcut
    BY <1>2, <1>3, <1>6, <2>8, TimerSourced
       DEF MarkdownUpdated, DebounceFires, AgentRetryFires, SaveShortcut, ServerUnchanged
  <2>9. CASE ToggleAutoSave
    BY <1>2, <1>3, <1>6, <2>9, ToggleSourced DEF ToggleAutoSave, ServerUnchanged
  <2>10. CASE LoseLock
    BY <1>2, <1>3, <1>6, <2>10, LoseLockSourced DEF LoseLock, ServerUnchanged
  <2>11. CASE Unmount
    BY <1>2, <1>3, <1>6, <2>11, UnmountSourced DEF Unmount, ServerUnchanged
  <2>12. CASE StartFlush \/ ContinueFlush
    BY <1>2, <1>3, <1>6, <2>12, FlushSourced DEF StartFlush, ContinueFlush, ServerUnchanged
  <2> QED BY <1>4, <2>1, <2>2, <2>3, <2>4, <2>5, <2>6, <2>7, <2>8, <2>9, <2>10, <2>11, <2>12
          DEF Next, User, World
<1> QED BY <1>1, <1>7 DEF SourceInv

(***************************************************************************)
(* On a server that merges and while the login lasts, the save that first  *)
(* brings an edit of the AI to the server says it comes from the agent,    *)
(* whatever is typed over it, lost, retried, refused, flushed or left in   *)
(* the meantime. Both premises are needed: a save of the AI that ends with *)
(* an expired session leaves no trace for the next save, and neither does  *)
(* one that a legacy server refuses while a body of the user waits.        *)
(***************************************************************************)
THEOREM AgentEditsTheorem ==
  MaxExpiries = 0 /\ ~LegacyServer => (Spec => AgentEditsAreSavedAsAgent)
<1> SUFFICES ASSUME MaxExpiries = 0, ~LegacyServer PROVE Spec => AgentEditsAreSavedAsAgent
  OBVIOUS
<1>1. SourceInv /\ [Next]_vars => SourceInv'
  BY NextSourceInv
<1>2. SourceInv /\ [Next]_vars
        => [\A e \in (bodies'[Len(bodies')] \ UNION {bodies[v] : v \in DOMAIN bodies}) \cap LocalEdits :
              opOf[e] # NoOp => page.inflight.source = "agent"]_vars
  BY NextSourceInv DEF SavesAsAgent, Stored
<1> QED BY <1>1, <1>2, InitSourceInv, PTL DEF Spec, AgentEditsAreSavedAsAgent
=============================================================================
