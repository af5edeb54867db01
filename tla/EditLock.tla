------------------------------ MODULE EditLock ------------------------------
(***************************************************************************)
(* features/note-editing/model/useEditLock.ts and editLockHandoff.ts: the  *)
(* editors of one document that one page mounts one after another, the     *)
(* edit lock they hold at the Document service, and the lock that is       *)
(* handed from an editor that is gone to the next one.                     *)
(*                                                                         *)
(* The server's lock belongs to the user, not to an editor: any DELETE of  *)
(* this page removes it. Requests wait in the order they were sent; the    *)
(* server takes them in that order, their answers arrive in any.           *)
(*                                                                         *)
(* Clocks are abstracted to one bit. "late" says that the time the last    *)
(* answer granted, counted from the moment its request was sent, is over;  *)
(* the server lets a lock expire only when every editor that holds it is   *)
(* late, or when its newest answer is still on the way.                    *)
(***************************************************************************)
EXTENDS Integers, Sequences, SequencesExt

CONSTANTS MaxMounts,      \* editors mounted
          MaxLeaves,      \* times the page goes into the back/forward cache
          MaxFailures,    \* requests that fail
          MaxEvents       \* deadlines that pass, locks that expire or that another user takes

ASSUME BoundsAssumption ==
  /\ MaxMounts \in Nat /\ MaxLeaves \in Nat /\ MaxFailures \in Nat /\ MaxEvents \in Nat

Editors == 1..MaxMounts

VARIABLES editors,     \* editors[e]: the variables of the effect of the e-th editor
          grants,      \* grants[e]: how the first POST of editor e was answered
          handoff,     \* the lock kept for the next editor
          abandoned,   \* first POSTs whose lock is released as soon as it is granted
          requests,    \* on their way, in the order they were sent
          away,        \* the page is in the back/forward cache: no callback runs
          holder,      \* the server: whose lock it is
          evicted,     \* history: a DELETE removed the lock of an editor that held it
          budget       \* what is left of the bounds

vars == <<editors, grants, handoff, abandoned, requests, away, holder, evicted, budget>>

Phases   == {"acquiring", "granted", "held", "lost", "error"}
Acquires == {"initial", "reacquire"}
Releases == {"leave", "late", "handoff"}
Answers  == {"none", "ok", "held", "lost", "failed", "session"}

\* why a request is sent, by whose callback, and whether a heartbeat awaits it
Request == [why : Acquires \cup Releases \cup {"beat"}, by : Editors \cup {0}, inBeat : BOOLEAN,
            answer : Answers,
            stale : BOOLEAN]     \* granted, and over before the answer arrived

Editor ==
  [life : {"unborn", "mounted", "gone"}, phase : Phases,
   holding : BOOLEAN, acquiring : BOOLEAN,
   promise : Editors \cup {0},    \* whose first POST this editor waits for
   claimed : BOOLEAN,
   timers : Nat, current : BOOLEAN,  \* timeouts armed, and whether "timer" names one of them
   beating : BOOLEAN, late : BOOLEAN,
   left : BOOLEAN,                \* releasedOnLeave
   initialLeft : BOOLEAN,         \* initialReleasedOnLeave
   leaveRelease : {"settled", "waiting", "sent"}, returning : BOOLEAN]

Unborn == [life |-> "unborn", phase |-> "acquiring", holding |-> FALSE, acquiring |-> FALSE,
           promise |-> 0, claimed |-> FALSE, timers |-> 0, current |-> FALSE,
           beating |-> FALSE, late |-> FALSE, left |-> FALSE, initialLeft |-> FALSE,
           leaveRelease |-> "settled", returning |-> FALSE]

\* promise 0: a lock that is already held
Handoff   == [promise : Editors \cup {0}, late : BOOLEAN, armed : BOOLEAN]
NoHandoff == [promise |-> 0, late |-> FALSE, armed |-> FALSE]

Init ==
  /\ editors = [e \in Editors |-> Unborn]
  /\ grants = [e \in Editors |-> "none"]
  /\ handoff = NoHandoff
  /\ abandoned = {}
  /\ requests = <<>>
  /\ away = FALSE
  /\ holder = "none"
  /\ evicted = FALSE
  /\ budget = [leaves |-> MaxLeaves, failures |-> MaxFailures, events |-> MaxEvents]

Spend(name) == budget[name] > 0 /\ budget' = [budget EXCEPT ![name] = @ - 1]

Mounted(e) == editors[e].life = "mounted"
Born(e)    == editors[e].life # "unborn"
Holds(e)   == Mounted(e) /\ editors[e].holding
-----------------------------------------------------------------------------
(* What the callbacks call: from an editor to an editor. *)

NewRequest(why, e, inBeat) ==
  [why |-> why, by |-> e, inBeat |-> inBeat, answer |-> "none", stale |-> FALSE]

\* clearTimeout(timer): a timeout that "timer" no longer names stays armed.
ClearTimer(ed) ==
  [ed EXCEPT !.timers = IF ed.current THEN @ - 1 ELSE @, !.current = FALSE]

ArmTimer(ed) == [ed EXCEPT !.timers = @ + 1, !.current = TRUE]

\* Mutant: the time granted is counted from the answer, not from the request.
ScheduleHeartbeat_FromAnswer(ed, stale) == [ArmTimer(ed) EXCEPT !.late = FALSE]

\* scheduleHeartbeat: the time granted counts from the moment the request was sent.
ScheduleHeartbeat(ed, stale) == [ArmTimer(ed) EXCEPT !.late = stale]

\* Granted, first or again.
Grant(ed, stale) == ScheduleHeartbeat([ed EXCEPT !.holding = TRUE, !.phase = "granted"], stale)

\* Mutant: the phase is named after the reason.
LoseLock_Expired(ed) ==
  [ed EXCEPT !.holding = FALSE, !.current = FALSE,
             !.phase = IF ed.life = "mounted" THEN "expired" ELSE @]

LoseLock(ed) ==
  [ed EXCEPT !.holding = FALSE, !.current = FALSE,
             !.phase = IF ed.life = "mounted" THEN "lost" ELSE @]

EndBeat(ed, r) == [ed EXCEPT !.beating = IF r.inBeat THEN FALSE ELSE @]

\* The continuation of the first POST in an editor that waits for it.
InitialAnswered(ed, answer, stale) ==
  LET done == [ed EXCEPT !.acquiring = FALSE]
  IN  IF answer = "ok"
      THEN IF ed.initialLeft THEN ed
           ELSE IF ed.life = "mounted" THEN Grant(done, stale) ELSE done
      ELSE IF ed.life = "mounted"
           THEN [done EXCEPT !.phase = IF answer = "held" THEN "held" ELSE "error"] ELSE done
-----------------------------------------------------------------------------
(* Mounting, unmounting and the handoff. *)

\* The editor claims the lock that is kept for it, else it sends its own POST.
Mount(e) ==
  LET fresh   == [Unborn EXCEPT !.life = "mounted", !.claimed = handoff.armed]
      kept    == handoff.promise
      waiting == [fresh EXCEPT !.acquiring = TRUE, !.promise = IF handoff.armed THEN kept ELSE e]
  IN  /\ ~away /\ ~Born(e)
      /\ \A d \in Editors : d < e => editors[d].life = "gone"
      /\ handoff' = NoHandoff
      /\ editors' = [editors EXCEPT ![e] =
                       IF handoff.armed /\ kept = 0 THEN Grant(fresh, handoff.late)
                       ELSE IF handoff.armed /\ grants[kept] # "none"
                       THEN InitialAnswered(waiting, grants[kept], FALSE)
                       ELSE waiting]
      /\ requests' = IF handoff.armed THEN requests
                     ELSE Append(requests, NewRequest("initial", e, FALSE))
      /\ UNCHANGED <<grants, abandoned, away, holder, evicted, budget>>

\* (An editor that is gone never reads holding or its deadline again: they are reset.)
\* The cleanup of the effect hands over a lock that is held or still being acquired.
Unmount(e) ==
  LET ed == editors[e]
  IN  /\ ~away /\ Mounted(e)
      /\ editors' = [editors EXCEPT ![e] = [ClearTimer(ed) EXCEPT !.life = "gone",
                                                          !.holding = FALSE, !.late = FALSE]]
      /\ handoff' = IF ed.acquiring
                    THEN [promise |-> ed.promise, late |-> FALSE, armed |-> TRUE]
                    ELSE IF ed.holding
                    THEN [promise |-> 0, late |-> ed.late, armed |-> TRUE]
                    ELSE handoff
      /\ UNCHANGED <<grants, abandoned, requests, away, holder, evicted, budget>>

\* releaseWhenHeld: now, or once the POST that is still awaited is granted.
ReleaseHandoff ==
  /\ handoff' = NoHandoff
  /\ requests' = IF handoff.promise = 0
                 THEN Append(requests, NewRequest("handoff", 0, FALSE)) ELSE requests
  /\ abandoned' = abandoned \cup {o \in Editors : handoff.promise = o /\ grants[o] = "none"}

\* EDIT_LOCK_RELEASE_DELAY_MS is over and nobody claimed the lock.
HandoffTimer ==
  /\ ~away /\ handoff.armed
  /\ ReleaseHandoff
  /\ UNCHANGED <<editors, grants, away, holder, evicted, budget>>
-----------------------------------------------------------------------------
(* The heartbeat. *)

SendBeat(e, ed) ==
  /\ editors' = [editors EXCEPT ![e] = [ed EXCEPT !.beating = TRUE]]
  /\ requests' = Append(requests, NewRequest("beat", e, TRUE))
  /\ UNCHANGED <<grants, handoff, abandoned, away, holder, evicted, budget>>

\* A timeout ends: beat. It clears "timer" whichever timeout it was.
Beat(e) ==
  /\ ~away /\ editors[e].timers > 0
  /\ SendBeat(e, [editors[e] EXCEPT !.timers = @ - 1, !.current = FALSE])

\* Mutant: the timer that was armed stays armed.
BeatNow_KeepsTimer(e) ==
  /\ ~away /\ Holds(e) /\ ~editors[e].beating
  /\ SendBeat(e, [editors[e] EXCEPT !.current = FALSE])

\* beatNow: the tab is visible again or the connection is back.
BeatNow(e) ==
  /\ ~away /\ Holds(e) /\ ~editors[e].beating
  /\ SendBeat(e, ClearTimer(editors[e]))

\* Mutant: a heartbeat that failed before the deadline is not sent again.
BeatFailed_GivesUp(ed) == ed

\* resolveHeartbeatFailure "retry": the lock is still ours, knock again.
BeatFailed(ed) == IF ed.life = "mounted" THEN ArmTimer(ed) ELSE ed
-----------------------------------------------------------------------------
(* Answers. The i-th request is answered and its continuation runs. *)

\* Takes the request off and sends what its continuation sends.
Answered(i, sent) == requests' = RemoveAt(requests, i) \o sent

\* The first POST: every editor that waits for it, and the releases that follow it.
InitialDelivered(i) ==
  LET r       == requests[i]
      waiting == {e \in Editors : Born(e) /\ editors[e].promise = r.by
                                  /\ (editors[e].acquiring \/ editors[e].initialLeft)}
      leaving == {e \in waiting : editors[e].leaveRelease = "waiting"}
      follow  == IF r.answer # "ok" THEN {}
                 ELSE {NewRequest("leave", e, FALSE) : e \in leaving}
                      \cup {NewRequest("handoff", 0, FALSE) : o \in abandoned \cap {r.by}}
      after(e) == LET ed == InitialAnswered(editors[e], r.answer, r.stale)
                  IN  IF e \notin leaving THEN ed
                      ELSE [ed EXCEPT !.leaveRelease = IF r.answer = "ok" THEN "sent" ELSE "settled"]
  IN  /\ r.why = "initial"
      /\ grants' = [grants EXCEPT ![r.by] = r.answer]
      /\ abandoned' = abandoned \ {r.by}
      /\ handoff' = IF handoff.armed /\ handoff.promise = r.by
                       /\ r.answer = "ok"
                    THEN [handoff EXCEPT !.promise = 0, !.late = r.stale] ELSE handoff
      /\ LET resume == {e \in leaving : r.answer # "ok" /\ editors[e].returning /\ Mounted(e)}
         IN  /\ editors' = [e \in Editors |->
                              IF e \in resume THEN [after(e) EXCEPT !.left = FALSE, !.returning = FALSE]
                              ELSE IF e \in waiting THEN after(e) ELSE editors[e]]
             /\ Answered(i, SetToSeq(follow) \o
                            SetToSeq({NewRequest("reacquire", e, FALSE) : e \in resume}))

\* Mutant: the lock of an editor that is gone is kept.
ReacquireDelivered_Keeps(i) ==
  LET r  == requests[i]
      ed == EndBeat(editors[r.by], r)
  IN  /\ r.why = "reacquire"
      /\ editors' = [editors EXCEPT ![r.by] =
                       IF r.answer # "ok" THEN LoseLock(ed)
                       ELSE IF ed.life = "gone" \/ ed.left THEN ed ELSE Grant(ed, r.stale)]
      /\ Answered(i, <<>>)
      /\ UNCHANGED <<grants, handoff, abandoned>>

\* reacquire: an editor that is gone or has left gives the lock back.
ReacquireDelivered(i) ==
  LET r    == requests[i]
      ed   == EndBeat(editors[r.by], r)
      away_ == ed.life = "gone" \/ ed.left
  IN  /\ r.why = "reacquire"
      /\ editors' = [editors EXCEPT ![r.by] =
                       IF r.answer # "ok" THEN LoseLock(ed)
                       ELSE IF away_ THEN ed ELSE Grant(ed, r.stale)]
      /\ Answered(i, IF r.answer = "ok" /\ away_
                     THEN <<NewRequest("late", r.by, FALSE)>> ELSE <<>>)
      /\ UNCHANGED <<grants, handoff, abandoned>>

\* Mutant: a lost lock is treated like a lost connection.
BeatDelivered_IgnoresLoss(i) ==
  LET r  == requests[i]
      ed == editors[r.by]
      on == EndBeat(ed, r)
  IN  /\ r.why = "beat"
      /\ editors' = [editors EXCEPT ![r.by] =
                       IF r.answer = "ok" THEN IF ed.life = "gone" \/ ed.left THEN on
                                               ELSE ScheduleHeartbeat(on, r.stale)
                       ELSE BeatFailed(on)]
      /\ Answered(i, <<>>)
      /\ UNCHANGED <<grants, handoff, abandoned>>

\* sendHeartbeat: extended, lost (409), or failed before or after the deadline.
BeatDelivered(i) ==
  LET r      == requests[i]
      ed     == editors[r.by]
      ended  == EndBeat(ed, r)
      verify == ed.life = "mounted" /\ (r.answer = "lost" \/ (r.answer = "failed" /\ ed.late))
  IN  /\ r.why = "beat"
      /\ editors' = [editors EXCEPT ![r.by] =
           CASE verify -> ed
             [] r.answer = "session" -> LoseLock(ended)
             [] r.answer = "failed" /\ ~ed.late -> BeatFailed(ended)
             [] r.answer = "ok" /\ ed.life = "mounted" /\ ~ed.left -> ScheduleHeartbeat(ended, r.stale)
             [] OTHER -> ended]
      /\ Answered(i, IF verify THEN <<NewRequest("reacquire", r.by, TRUE)>> ELSE <<>>)
      /\ UNCHANGED <<grants, handoff, abandoned>>

\* leaveRelease settles; an editor that returned meanwhile acquires again.
LeaveDelivered(i) ==
  LET r      == requests[i]
      ed     == [editors[r.by] EXCEPT !.leaveRelease = "settled", !.returning = FALSE]
      resume == editors[r.by].returning /\ ed.life = "mounted" /\ ed.left
  IN  /\ r.why = "leave"
      /\ editors' = [editors EXCEPT ![r.by] = IF resume THEN [ed EXCEPT !.left = FALSE] ELSE ed]
      /\ Answered(i, IF resume THEN <<NewRequest("reacquire", r.by, FALSE)>> ELSE <<>>)
      /\ UNCHANGED <<grants, handoff, abandoned>>

Deliver ==
  /\ ~away
  /\ \E i \in DOMAIN requests :
       /\ requests[i].answer # "none"
       /\ InitialDelivered(i) \/ ReacquireDelivered(i) \/ BeatDelivered(i) \/ LeaveDelivered(i)
  /\ UNCHANGED <<away, holder, evicted, budget>>
-----------------------------------------------------------------------------
(* Leaving the page and coming back from the back/forward cache. *)

\* releaseOnLeave, in an editor that holds the lock or acquires it for the first time.
LeaveEditor(ed) ==
  [ClearTimer(ed) EXCEPT !.left = TRUE, !.acquiring = FALSE, !.holding = FALSE,
                         !.initialLeft = ed.acquiring,
                         !.leaveRelease = IF ed.acquiring THEN "waiting" ELSE "sent"]

\* pagehide: the handoff is flushed, then the editor releases.
Leave ==
  LET leaving == {e \in Editors : Mounted(e) /\ ~editors[e].left
                                  /\ (editors[e].holding \/ editors[e].acquiring)}
      flush   == IF handoff.armed /\ handoff.promise = 0
                 THEN <<NewRequest("handoff", 0, FALSE)>> ELSE <<>>
  IN  /\ ~away
      /\ Spend("leaves")
      /\ away' = TRUE
      /\ handoff' = NoHandoff
      /\ abandoned' = abandoned \cup {o \in Editors : handoff.promise = o /\ grants[o] = "none"}
      /\ editors' = [e \in Editors |-> IF e \in leaving THEN LeaveEditor(editors[e]) ELSE editors[e]]
      /\ requests' = requests \o flush \o
           SetToSeq({NewRequest("leave", e, FALSE) : e \in {d \in leaving : ~editors[d].acquiring}})
      /\ UNCHANGED <<grants, holder, evicted>>

\* pageshow with persisted: acquire again once the release of leaving is done.
Return ==
  LET back == {e \in Editors : Mounted(e) /\ editors[e].left}
      now  == {e \in back : editors[e].leaveRelease = "settled"}
  IN  /\ away
      /\ away' = FALSE
      /\ editors' = [e \in Editors |-> IF e \in now THEN [editors[e] EXCEPT !.left = FALSE]
                                       ELSE IF e \in back THEN [editors[e] EXCEPT !.returning = TRUE]
                                       ELSE editors[e]]
      /\ requests' = requests \o SetToSeq({NewRequest("reacquire", e, FALSE) : e \in now})
      /\ UNCHANGED <<grants, handoff, abandoned, holder, evicted, budget>>
-----------------------------------------------------------------------------
(* The Document service, the network, the other user and the clock (external). *)

ClientUnchanged == UNCHANGED <<editors, grants, handoff, abandoned, away>>

\* The oldest request that is not answered.
IsNext(i) ==
  i \in DOMAIN requests /\ requests[i].answer = "none" /\ \A j \in 1..(i - 1) : requests[j].answer # "none"

\* Only the release of leaving is awaited.
Reply(i, answer) ==
  requests' = IF requests[i].why \in {"late", "handoff"} THEN RemoveAt(requests, i)
              ELSE [requests EXCEPT ![i].answer = answer]

\* Its grant is on the way to the editor.
Granted(e) ==
  Mounted(e) /\ \E i \in DOMAIN requests : requests[i].why \in Acquires /\ requests[i].answer = "ok"

ServeAcquire(i) ==
  /\ requests[i].why \in Acquires
  /\ IF holder = "other" THEN Reply(i, "held") /\ UNCHANGED <<holder, evicted>>
     ELSE Reply(i, "ok") /\ holder' = "me" /\ evicted' = FALSE

ServeBeat(i) ==
  /\ requests[i].why = "beat"
  /\ Reply(i, IF holder = "me" THEN "ok" ELSE "lost")
  /\ UNCHANGED <<holder, evicted>>

ServeRelease(i) ==
  /\ requests[i].why \in Releases
  /\ Reply(i, "ok")
  /\ holder' = IF holder = "me" THEN "none" ELSE holder
  /\ evicted' = \/ evicted
                \/ holder = "me" /\ (handoff.armed \/ \E e \in Editors : Holds(e) \/ Granted(e))

Serve ==
  /\ \E i \in DOMAIN requests : IsNext(i) /\ (ServeAcquire(i) \/ ServeBeat(i) \/ ServeRelease(i))
  /\ ClientUnchanged /\ UNCHANGED budget

\* Not served: the connection fails, or the document may not be locked; a session that is over
\* only makes a difference to a heartbeat.
Fail ==
  /\ Spend("failures")
  /\ \E i \in DOMAIN requests :
       /\ IsNext(i)
       /\ \/ Reply(i, "failed")
          \/ requests[i].why = "beat" /\ Reply(i, "session")
  /\ ClientUnchanged /\ UNCHANGED <<holder, evicted>>

\* Served, but the answer does not arrive.
LoseAnswer ==
  /\ Spend("failures")
  /\ \E i \in DOMAIN requests :
       /\ requests[i].why \notin Releases /\ requests[i].answer \notin {"none", "failed", "session"}
       /\ requests' = [requests EXCEPT ![i].answer = "failed"]
  /\ ClientUnchanged /\ UNCHANGED <<holder, evicted>>

\* The deadline of the last answer passes: the tab slept, or heartbeats failed.
Lapse ==
  /\ Spend("events")
  /\ \/ \E e \in Editors : Holds(e) /\ ~editors[e].late
           /\ editors' = [editors EXCEPT ![e].late = TRUE] /\ UNCHANGED handoff
     \/ handoff.armed /\ handoff.promise = 0 /\ ~handoff.late
           /\ handoff' = [handoff EXCEPT !.late = TRUE] /\ UNCHANGED editors
  /\ UNCHANGED <<grants, abandoned, requests, away, holder, evicted>>

\* The server forgets a lock nobody extended in time.
Expire ==
  /\ holder = "me"
  /\ Spend("events")
  /\ \A e \in Editors : Holds(e) => editors[e].late
  /\ handoff.armed => handoff.late \/ handoff.promise # 0
  /\ holder' = "none"
  /\ requests' = [i \in DOMAIN requests |->
                    [requests[i] EXCEPT !.stale = @ \/ requests[i].answer = "ok"]]
  /\ ClientUnchanged /\ UNCHANGED evicted

OtherTakes ==
  /\ holder = "none"
  /\ Spend("events")
  /\ holder' = "other"
  /\ ClientUnchanged /\ UNCHANGED <<requests, evicted>>

OtherLeaves ==
  /\ holder = "other"
  /\ holder' = "none"
  /\ ClientUnchanged /\ UNCHANGED <<requests, evicted, budget>>
-----------------------------------------------------------------------------
Next ==
  \/ \E e \in Editors : Mount(e) \/ Unmount(e) \/ Beat(e) \/ BeatNow(e)
  \/ HandoffTimer \/ Deliver \/ Leave \/ Return
  \/ Serve \/ Fail \/ LoseAnswer \/ Lapse \/ Expire \/ OtherTakes \/ OtherLeaves

Spec == Init /\ [][Next]_vars

(***************************************************************************)
(* Requests are served or fail, answers arrive and timers end as long as   *)
(* the page is not frozen. Nothing is assumed of the user.                 *)
(***************************************************************************)
Fairness ==
  /\ WF_vars(Serve) /\ WF_vars(Deliver) /\ WF_vars(HandoffTimer)
  /\ WF_vars(\E e \in Editors : Beat(e))
-----------------------------------------------------------------------------
(* Properties. *)

TypeOK ==
  /\ editors \in [Editors -> Editor]
  /\ grants \in [Editors -> Answers]
  /\ handoff \in Handoff
  /\ abandoned \subseteq Editors
  /\ \A i \in DOMAIN requests : requests[i] \in Request
  /\ away \in BOOLEAN /\ holder \in {"none", "me", "other"} /\ evicted \in BOOLEAN
  /\ budget \in [leaves : 0..MaxLeaves, failures : 0..MaxFailures, events : 0..MaxEvents]

InFlight(e, whys) == \E i \in DOMAIN requests : requests[i].by = e /\ requests[i].why \in whys

\* An editor that shows "granted" always has a heartbeat ahead of it: a timer, or a request whose
\* continuation arms one or gives the lock up. A chain of timers that ends would let the lock
\* expire under an open editor.
GrantedBeats ==
  \A e \in Editors : Mounted(e) /\ editors[e].phase = "granted" /\ ~editors[e].left
    => editors[e].timers > 0 \/ InFlight(e, {"beat", "reacquire"})

\* An editor within its deadline holds the lock at the server, unless a DELETE of this page took
\* it away: the deadline is never later than the server's (useEditLock.ts:74-77).
OnTimeMeansHeld ==
  \A e \in Editors : Holds(e) /\ ~editors[e].late /\ ~evicted => holder = "me"

\* A lock handed over to the next editor is not deleted by what the old one still has in flight
\* (editLockHandoff.ts:9-10).
HandedOverLockIsKept ==
  [][ holder = "me" /\ holder' = "none" /\ budget' = budget
      => ~\E e \in Editors : Holds(e) /\ editors[e].claimed ]_vars

\* A lost lock is lost for good, as the autosave of this editor stays blocked: no second chain of
\* heartbeats runs beside the one that gave the lock up. (In a page that came back from the
\* back/forward cache with a heartbeat on its way, one does.)
LostIsFinal ==
  [][ \A e \in Editors : Mounted(e) /\ editors[e].phase = "lost" /\ budget.leaves = MaxLeaves
        => editors'[e].phase = "lost" ]_vars

\* However the lock was lost, the editor finds out, or has it again, unless the page is away.
LossIsNoticed ==
  (\E e \in Editors : Holds(e)) /\ holder # "me"
    ~> (\A e \in Editors : ~Holds(e)) \/ holder = "me" \/ away

\* Once the editors are gone, the lock is released although nobody waits for it to expire,
\* unless a request was lost, the page is away, or an editor had already given the lock up.
LockIsReleased ==
  holder = "me" /\ (\A e \in Editors : ~Mounted(e) /\ editors[e].phase # "lost")
    ~> \/ holder # "me" \/ \E e \in Editors : Mounted(e)
       \/ away \/ budget.failures < MaxFailures
=============================================================================
