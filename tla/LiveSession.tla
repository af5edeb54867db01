---------------------------- MODULE LiveSession ----------------------------
(***************************************************************************)
(* features/meeting-dictation/model/liveSession.ts: the recording of one   *)
(* meeting, streamed over one WebSocket after another. Audio that cannot   *)
(* be sent waits in "pending"; a connection that breaks is replaced, and   *)
(* one that grows old is finished and replaced (rollover).                 *)
(*                                                                         *)
(* A chunk is the audio of one callback of the microphone, at most one     *)
(* frame; its length is the unit of every limit. The n-th connection is    *)
(* the number n. A message is sent and received in one step: while the     *)
(* client closes a WebSocket no message is dispatched to it, so a message  *)
(* that is overtaken by the close is a message that was never sent.        *)
(***************************************************************************)
EXTENDS Integers, Sequences, SequencesExt

CONSTANTS MaxReconnects,      \* maxReconnects
          MaxPending,         \* MAX_PENDING_BYTES, in chunks
          CommitMin,          \* COMMIT_MIN_MS and COMMIT_MAX_MS, in chunks
          CommitMax,
          MaxChunks,          \* chunks recorded
          MaxBreaks,          \* connections that break or that the server refuses
          MaxFailures,        \* tickets that are not issued
          MaxRollovers        \* connections that get old

ASSUME LimitsAssumption ==
  /\ MaxReconnects \in Nat
  /\ MaxPending \in Nat \ {0}
  /\ CommitMin \in Nat \ {0} /\ CommitMax \in Nat /\ CommitMin <= CommitMax

ASSUME BoundsAssumption ==
  /\ MaxChunks \in Nat /\ MaxBreaks \in Nat /\ MaxFailures \in Nat /\ MaxRollovers \in Nat

\* Only a break and a rollover open another connection.
Conns  == 1..(1 + MaxBreaks + MaxRollovers)
Chunks == 1..MaxChunks

VARIABLES session,    \* the variables of createLiveSession, and the callbacks it waits for
          segments,   \* msSinceCommit, and the segments as the server counts them
          timers,     \* timeouts that are armed
          net,        \* net[c]: the c-th connection, as the server sees it
          tape,       \* history: what became of the recording and of the callbacks
          budget      \* what is left of the bounds

vars == <<session, segments, timers, net, tape, budget>>

Results == {"none", "ok", "failed"}

Session ==
  [socket : Conns \cup {0},
   isReady : BOOLEAN, isStopping : BOOLEAN, isRollingOver : BOOLEAN, isDone : BOOLEAN,
   reconnects : 0..MaxReconnects,
   fatal : BOOLEAN,                     \* lastError is one that isFatalLiveError
   pending : Seq(Chunks),
   connecting : Nat,                    \* connect() awaits a ticket
   waiting : Nat,                       \* timeouts of scheduleReconnect
   result : Results]                    \* the argument of onStopped

\* ms: msSinceCommit. length: what the connection carried since the last commit.
Segments == [ms : 0..(CommitMax - 1), length : Nat, committed : SUBSET Nat]

\* rolloverTimer and finishTimer, by the connection that armed them.
Timer == [kind : {"rollover", "finish"}, conn : Conns]

Connection ==
  [state : {"unused", "open", "closing", "closed"},
   ready : BOOLEAN, finishSent : BOOLEAN,
   finished : BOOLEAN]                  \* finishedReceived

Tape == [recorded : 0..MaxChunks, sent : Seq(Chunks), overflow : SUBSET Chunks,
         late : BOOLEAN,                \* a callback was called after the end
         inRow : Nat]                   \* attempts that failed since the last ready

Budget == [breaks : 0..MaxBreaks, failures : 0..MaxFailures, rollovers : 0..MaxRollovers]

\* start() has been called.
Init ==
  /\ session = [socket |-> 0, isReady |-> FALSE, isStopping |-> FALSE, isRollingOver |-> FALSE,
                isDone |-> FALSE, reconnects |-> 0, fatal |-> FALSE,
                pending |-> <<>>, connecting |-> 1, waiting |-> 0, result |-> "none"]
  /\ segments = [ms |-> 0, length |-> 0, committed |-> {}]
  /\ timers = {}
  /\ net = [c \in Conns |-> [state |-> "unused", ready |-> FALSE, finishSent |-> FALSE,
                             finished |-> FALSE]]
  /\ tape = [recorded |-> 0, sent |-> <<>>, overflow |-> {}, late |-> FALSE, inRow |-> 0]
  /\ budget = [breaks |-> MaxBreaks, failures |-> MaxFailures, rollovers |-> MaxRollovers]

Spend(what) == budget[what] > 0 /\ budget' = [budget EXCEPT ![what] = @ - 1]

\* A callback is called. (Where the code has checked isDone just before, it is not late.)
Called(t) == [t EXCEPT !.late = @ \/ session.isDone]
-----------------------------------------------------------------------------
(* Audio. *)

ShouldCommit(n, quiet) == n >= CommitMax \/ (n >= CommitMin /\ quiet)

\* The server takes audio from ready to finish.
Takes(conn) == conn.state = "open" /\ conn.ready /\ ~conn.finishSent

\* transmit: one frame, and the commit that may follow it.
Transmit(seg, quiet) ==
  LET n      == seg.ms + 1
      length == seg.length + 1
  IN  IF ShouldCommit(n, quiet)
      THEN [ms |-> 0, length |-> 0, committed |-> seg.committed \cup {length}]
      ELSE [seg EXCEPT !.ms = n, !.length = length]

\* Pauses of audio that waited are not known: only its length ends a segment.
TransmitAll(seg, chunks) == FoldLeft(LAMBDA sg, chunk : Transmit(sg, FALSE), seg, chunks)

\* Mutant: what was flushed stays pending.
AfterFlush_KeepsPending(s) == s

\* flushPending, once everything is transmitted.
AfterFlush(s) == [s EXCEPT !.pending = <<>>]

\* The oldest chunks make room.
Keep(chunks, chunk) ==
  IF Len(chunks) >= MaxPending THEN Append(Tail(chunks), chunk) ELSE Append(chunks, chunk)

CanSend(s) == s.isReady /\ s.socket # 0 /\ net[s.socket].state = "open"

\* sendAudio.
SendAudio(quiet) ==
  LET s     == session
      chunk == tape.recorded + 1
  IN  /\ ~s.isDone /\ ~s.isStopping /\ chunk \in Chunks
      /\ IF CanSend(s)
         THEN /\ segments' = Transmit(segments, quiet)
              /\ tape' = [tape EXCEPT !.recorded = chunk,
                            !.sent = IF Takes(net[s.socket]) THEN Append(@, chunk) ELSE @]
              /\ UNCHANGED session
         ELSE /\ session' = [s EXCEPT !.pending = Keep(@, chunk)]
              /\ tape' = [tape EXCEPT !.recorded = chunk,
                            !.overflow = IF Len(s.pending) >= MaxPending
                                         THEN @ \cup {Head(s.pending)} ELSE @]
              /\ UNCHANGED segments
      /\ UNCHANGED <<timers, net, budget>>
-----------------------------------------------------------------------------
(* Ends, timers and connecting. *)

Stop(s, result) == [s EXCEPT !.isDone = TRUE, !.pending = <<>>, !.result = result]

\* Mutant: an attempt starts a new series of attempts.
Connect_Restarts(s) ==
  [s EXCEPT !.isReady = FALSE, !.fatal = FALSE, !.reconnects = 0, !.connecting = @ + 1]

\* connect, up to the ticket it awaits.
Connect(s) == [s EXCEPT !.isReady = FALSE, !.fatal = FALSE, !.connecting = @ + 1]

\* Mutant: the length of the segment of the last connection counts on.
SegmentsAtConnect_CountOn == segments

SegmentsAtConnect == [segments EXCEPT !.ms = 0]

ScheduleReconnect(s) == [s EXCEPT !.reconnects = @ + 1, !.waiting = @ + 1]

\* The timeout of scheduleReconnect ends.
ReconnectTimer ==
  /\ session.waiting > 0
  /\ LET s == [session EXCEPT !.waiting = @ - 1]
     IN  IF s.isDone
         THEN session' = s /\ UNCHANGED segments
         ELSE session' = Connect(s) /\ segments' = SegmentsAtConnect
  /\ UNCHANGED <<timers, net, tape, budget>>

\* The ticket is refused, for good when the meeting is in use elsewhere.
ConnectFails(inUse) ==
  LET s     == [session EXCEPT !.connecting = @ - 1]
      gives == s.isStopping \/ inUse \/ s.reconnects >= MaxReconnects
  IN  /\ session.connecting > 0
      /\ Spend("failures")
      /\ session' = IF s.isDone THEN s
                    ELSE IF gives THEN Stop(s, "failed") ELSE ScheduleReconnect(s)
      /\ timers' = IF ~s.isDone /\ gives THEN {} ELSE timers
      /\ tape' = [tape EXCEPT !.inRow = @ + 1]
      /\ UNCHANGED <<segments, net>>

\* The connection that is opened next.
IsNext(c) == net[c].state = "unused" /\ \A d \in Conns : d < c => net[d].state # "unused"

\* The ticket is there: the WebSocket is opened, and closed if the session has ended.
Connected(c) ==
  /\ session.connecting > 0 /\ IsNext(c)
  /\ session' = [session EXCEPT !.connecting = @ - 1,
                                !.socket = IF session.isDone THEN @ ELSE c]
  /\ net' = [net EXCEPT ![c].state = IF session.isDone THEN "closing" ELSE "open"]
  /\ segments' = [segments EXCEPT !.length = 0]
  /\ UNCHANGED <<timers, tape, budget>>
-----------------------------------------------------------------------------
(* Finishing and rolling over. *)

FinishConn(conn) == IF conn.state = "open" THEN [conn EXCEPT !.finishSent = TRUE] ELSE conn

\* The timeout of sendFinish.
FinishTimers(c) == timers \cup {[kind |-> "finish", conn |-> c]}

SendFinish(c) ==
  /\ net' = [net EXCEPT ![c] = FinishConn(@)]
  /\ timers' = FinishTimers(c)

\* Mutant: audio is still sent to the connection that was finished.
RollOver_StaysReady(s) == [s EXCEPT !.isRollingOver = TRUE]

RollOver(s) == [s EXCEPT !.isRollingOver = TRUE, !.isReady = FALSE]

\* rolloverTimer ends.
RolloverTimer(t) ==
  /\ t \in timers /\ t.kind = "rollover"
  /\ Spend("rollovers")
  /\ IF session.isDone \/ session.isStopping \/ ~session.isReady
     THEN timers' = timers \ {t} /\ UNCHANGED <<session, net>>
     ELSE /\ session' = RollOver(session)
          /\ net' = [net EXCEPT ![session.socket] = FinishConn(@)]
          /\ timers' = FinishTimers(session.socket) \ {t}
  /\ UNCHANGED <<segments, tape>>

\* finishTimer ends. (Its second branch, no socket, is never taken: closing clears the timer.)
FinishTimer(t) ==
  /\ t \in timers /\ t.kind = "finish"
  /\ timers' = timers \ {t}
  /\ net' = IF session.socket = 0 THEN net
            ELSE [net EXCEPT ![session.socket].state = "closing"]
  /\ UNCHANGED <<session, segments, tape, budget>>

\* finish.
Finish ==
  LET s == [session EXCEPT !.isStopping = TRUE]
      idle == s.socket = 0 /\ s.pending = <<>>
  IN  /\ ~s.isDone /\ ~session.isStopping
      /\ IF s.isReady /\ s.socket # 0
         THEN /\ session' = s
              /\ SendFinish(s.socket)
         ELSE /\ session' = IF idle THEN Stop(s, "ok") ELSE s
              /\ timers' = IF idle THEN {} ELSE timers
              /\ UNCHANGED net
      /\ UNCHANGED <<segments, tape, budget>>

\* dispose: the view is left, nobody is told.
Dispose ==
  /\ ~session.isDone
  /\ session' = [session EXCEPT !.isDone = TRUE, !.socket = 0]
  /\ timers' = {}
  /\ net' = IF session.socket = 0 THEN net
            ELSE [net EXCEPT ![session.socket].state = "closing"]
  /\ UNCHANGED <<segments, tape, budget>>
-----------------------------------------------------------------------------
(* The messages of a connection, and its end. *)

\* "ready": what waited is sent, and finish after it when the recording was stopped meanwhile.
Ready(c) ==
  LET conn == [net[c] EXCEPT !.ready = TRUE]
      ends == session.isStopping
  IN  /\ net[c].state = "open" /\ ~net[c].ready
      /\ IF session.socket # c
         THEN /\ net' = [net EXCEPT ![c] = conn]
              /\ UNCHANGED <<session, segments, timers, tape>>
         ELSE /\ session' = [AfterFlush(session) EXCEPT !.isReady = TRUE, !.reconnects = 0]
              /\ segments' = TransmitAll(segments, session.pending)
              /\ net' = [net EXCEPT ![c] = IF ends THEN FinishConn(conn) ELSE conn]
              /\ timers' = (IF ends THEN FinishTimers(c) ELSE timers)
                             \cup {[kind |-> "rollover", conn |-> c]}
              /\ tape' = [Called(tape) EXCEPT !.inRow = 0,
                            !.sent = IF Takes(conn) THEN @ \o session.pending ELSE @]
      /\ UNCHANGED budget

\* Mutant: the next connection does not wait for this one to close.
Finished_Connects(c) ==
  /\ net[c].state = "open" /\ net[c].finishSent /\ ~net[c].finished
  /\ net' = [net EXCEPT ![c].finished = TRUE]
  /\ session' = IF session.socket = c /\ ~session.isStopping
                THEN [Connect(session) EXCEPT !.isRollingOver = FALSE] ELSE session
  /\ UNCHANGED <<segments, timers, tape, budget>>

\* "finished": the server has saved what it received.
Finished(c) ==
  /\ net[c].state = "open" /\ net[c].finishSent /\ ~net[c].finished
  /\ net' = [net EXCEPT ![c].finished = TRUE]
  /\ UNCHANGED <<session, segments, timers, tape, budget>>

\* "error": remembered until the connection closes.
ErrorMessage(c, fatal) ==
  /\ net[c].state = "open"
  /\ session' = IF session.socket = c THEN [session EXCEPT !.fatal = fatal] ELSE session
  /\ UNCHANGED <<segments, timers, net, tape, budget>>

\* "committed", "delta" and "completed" go to the view.
Transcript(c) ==
  /\ net[c].state = "open" /\ net[c].ready
  /\ tape' = IF session.socket = c THEN Called(tape) ELSE tape
  /\ UNCHANGED <<session, segments, timers, net, budget>>

\* The server closes after finished; or it refuses the connection, or the connection breaks.
Closing(c) ==
  /\ net[c].state = "open"
  /\ IF net[c].finished THEN UNCHANGED budget ELSE Spend("breaks")
  /\ net' = [net EXCEPT ![c].state = "closing"]
  /\ UNCHANGED <<session, segments, timers, tape>>

\* clearTimers.
TimersAfterClose == {}

\* Mutant: whoever stops has finished.
IsFinished_Assumed(c) == session.isStopping

IsFinished(c) == net[c].finished /\ session.isStopping

\* handleClose, when the connection was neither refused nor the last one.
Replace(s, finished) ==
  LET next == [s EXCEPT !.isRollingOver = FALSE]
  IN  IF s.isRollingOver /\ finished THEN Connect(next)
      ELSE IF s.isStopping \/ s.reconnects >= MaxReconnects THEN Stop(next, "failed")
      ELSE ScheduleReconnect(next)

\* The listener of "close", and handleClose. Only a connection that is not ready yet is told that
\* the meeting is in use.
Closed(c, inUse) ==
  LET s == [session EXCEPT !.socket = 0, !.isReady = FALSE]
  IN  /\ net[c].state = "closing" /\ (inUse => ~net[c].ready)
      /\ net' = [net EXCEPT ![c].state = "closed"]
      /\ IF session.socket # c
         THEN UNCHANGED <<session, segments, timers, tape>>
         ELSE /\ timers' = TimersAfterClose
              /\ session' = IF s.isDone THEN s
                            ELSE IF inUse \/ s.fatal THEN Stop(s, "failed")
                            ELSE IF IsFinished(c) THEN Stop(s, "ok")
                            ELSE Replace(s, net[c].finished)
              /\ segments' = IF session'.connecting > session.connecting
                             THEN SegmentsAtConnect ELSE segments
              /\ tape' = IF net[c].finished THEN tape ELSE [tape EXCEPT !.inRow = @ + 1]
      /\ UNCHANGED budget
-----------------------------------------------------------------------------
Next ==
  \/ \E quiet \in BOOLEAN : SendAudio(quiet)
  \/ ReconnectTimer
  \/ \E inUse \in BOOLEAN : ConnectFails(inUse)
  \/ \E t \in timers : RolloverTimer(t) \/ FinishTimer(t)
  \/ Finish \/ Dispose
  \/ \E c \in Conns :
       \/ Connected(c) \/ Ready(c) \/ Finished(c) \/ Transcript(c) \/ Closing(c)
       \/ \E b \in BOOLEAN : ErrorMessage(c, b) \/ Closed(c, b)

Spec == Init /\ [][Next]_vars

\* Tickets and timeouts come, a WebSocket that closes closes, and the server says ready unless
\* the connection breaks. Nothing is assumed of its answer to finish.
Fairness ==
  /\ WF_vars(ReconnectTimer)
  /\ WF_vars(\E c \in Conns : Connected(c))
  /\ WF_vars(\E t \in timers : FinishTimer(t))
  /\ \A c \in Conns : WF_vars(Ready(c)) /\ WF_vars(\E inUse \in BOOLEAN : Closed(c, inUse))

FairSpec == Spec /\ Fairness
-----------------------------------------------------------------------------
TypeOK ==
  /\ session \in Session
  /\ segments \in Segments
  /\ timers \subseteq Timer
  /\ net \in [Conns -> Connection]
  /\ tape \in Tape
  /\ budget \in Budget

SentChunks == ToSet(tape.sent)

\* The recording reaches the server in the order it was made and no part of it twice, over however
\* many connections (the audio that waited is sent before the audio that comes after "ready").
AudioInOrder == \A i, j \in DOMAIN tape.sent : i < j => tape.sent[i] < tape.sent[j]

\* As long as the session lives, audio is with the server, waits, or was the oldest when more than
\* the limit waited. None is sent to a connection that does not listen yet or was told to finish.
AudioIsKept ==
  ~session.isDone =>
    /\ 1..tape.recorded = SentChunks \cup ToSet(session.pending) \cup tape.overflow
    /\ \A k \in tape.overflow, p \in ToSet(session.pending) : k < p

\* A connection carries segments the server takes: none is longer than COMMIT_MAX_MS, none shorter
\* than COMMIT_MIN_MS, whatever was sent over the connections before.
SegmentsFit ==
  segments.length < CommitMax /\ segments.committed \subseteq CommitMin..CommitMax

Alive(c) == net[c].state \in {"open", "closing"}

\* The session never has two connections (the server refuses the second, close code 4409), and none
\* when it is over.
OneConnection ==
  /\ \A c, d \in Conns : Alive(c) /\ Alive(d) => c = d
  /\ session.isDone => \A c \in Conns : net[c].state # "open"

\* A timer never outlives the connection it was armed for: it would finish or cut the next one.
TimersOfThisConnection == \A t \in timers : t.conn = session.socket

\* onStopped is called once, and no callback after it or after dispose.
EndIsFinal == ~tape.late

\* However it breaks, rolls over and ends: one connection, one that its timers belong to, and
\* silence after the end.
OneSession == OneConnection /\ TimersOfThisConnection /\ EndIsFinal

\* The session gives up after MaxReconnects attempts in a row that brought no connection.
GivesUp == tape.inRow > MaxReconnects => session.isDone

\* "ok" is only reported when the server confirmed what it received, and, except for a stop during
\* a rollover, when nothing that was recorded still waits.
OkMeansSaved ==
  [][session.result = "none" /\ session'.result = "ok" =>
       /\ session.socket # 0 => net[session.socket].finished
       /\ session.isRollingOver \/ 1..tape.recorded \subseteq SentChunks \cup tape.overflow]_vars

\* What remains of the recording is saved before onStopped({ ok: true }).
RemainingAudioIsSaved ==
  session.result = "ok" => 1..tape.recorded \subseteq SentChunks \cup tape.overflow

\* A recording that is stopped ends, even when the server never answers "finish".
StopEnds == session.isStopping ~> session.isDone
=============================================================================
