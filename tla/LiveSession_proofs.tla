------------------------- MODULE LiveSession_proofs -------------------------
(***************************************************************************)
(* Theorems about LiveSession, for every value of its constants: one       *)
(* connection at a time, timers that belong to it, an end that is final,   *)
(* a recording that reaches the server in order, of which nothing is lost  *)
(* as long as the session lives, but what the limit dropped, and an "ok"   *)
(* that is only said of a recording that is saved.                         *)
(*                                                                         *)
(* The inductive invariant is Types (all of TypeOK but the segments, which *)
(* a fold computes) and Ownership: whoever may still act on the session -  *)
(* a connection, an attempt to connect, a timeout to reconnect - is alone. *)
(*                                                                         *)
(* The second half is about the audio: AInv is inductive relative to IInv. *)
(* What makes it so is Listens: the session is only ready on a connection  *)
(* that takes audio, and while it can send nothing waits. The third adds   *)
(* Told: what a connection that was told to finish says of the session.    *)
(***************************************************************************)
EXTENDS LiveSession, TLAPS

Types ==
  /\ session \in Session
  /\ timers \subseteq Timer
  /\ net \in [Conns -> Connection]
  /\ tape \in Tape
  /\ budget \in Budget

\* The session owns the only connection that is open, and while there is one nothing connects.
Ownership ==
  /\ session.isDone => session.socket = 0
  /\ session.socket # 0 => Alive(session.socket)
  /\ \A c \in Conns : net[c].state = "open" => c = session.socket
  /\ \A c \in Conns : net[c].state = "closing" => c = session.socket \/ session.isDone
  /\ \A c, d \in Conns : Alive(c) /\ Alive(d) => c = d
  /\ \A c \in Conns : Alive(c) => session.connecting = 0 /\ session.waiting = 0
  /\ session.connecting + session.waiting <= 1

IInv == Types /\ Ownership /\ TimersOfThisConnection /\ EndIsFinal
-----------------------------------------------------------------------------
(* What the operators on the variables of the session return. *)

\* Ending the session keeps everything but its end.
LEMMA StopLemma ==
  ASSUME NEW s \in Session, NEW r \in Results
  PROVE  /\ Stop(s, r) \in Session
         /\ Stop(s, r).isDone
         /\ Stop(s, r).socket = s.socket
         /\ Stop(s, r).connecting = s.connecting
         /\ Stop(s, r).waiting = s.waiting
<1>1. <<>> \in Seq(Chunks)
  OBVIOUS
<1>2. [s EXCEPT !.isDone = TRUE] \in Session
  BY DEF Session
<1>3. [[s EXCEPT !.isDone = TRUE] EXCEPT !.pending = <<>>] \in Session
  BY <1>1, <1>2 DEF Session
<1>4. Stop(s, r) = [[[s EXCEPT !.isDone = TRUE] EXCEPT !.pending = <<>>] EXCEPT !.result = r]
  BY DEF Stop, Session
<1>5. Stop(s, r) \in Session
  BY <1>3, <1>4 DEF Session
<1> QED  BY <1>5 DEF Stop, Session

\* Connecting starts one attempt more.
LEMMA ConnectLemma ==
  ASSUME NEW s \in Session
  PROVE  /\ Connect(s) \in Session
         /\ Connect(s).isDone = s.isDone
         /\ Connect(s).socket = s.socket
         /\ Connect(s).connecting = s.connecting + 1
         /\ Connect(s).waiting = s.waiting
<1> DEFINE reset == [s EXCEPT !.isReady = FALSE]
           clear == [reset EXCEPT !.fatal = FALSE]
<1>1. reset \in Session /\ reset.isDone = s.isDone /\ reset.socket = s.socket
      /\ reset.connecting = s.connecting /\ reset.waiting = s.waiting
  BY DEF Session
<1> HIDE DEF reset
<1>2. clear \in Session /\ clear.isDone = s.isDone /\ clear.socket = s.socket
      /\ clear.connecting = s.connecting /\ clear.waiting = s.waiting
  BY <1>1 DEF Session
<1>3. Connect(s) = [clear EXCEPT !.connecting = clear.connecting + 1]
  BY <1>1, <1>2 DEF Connect, Session, reset
<1>4. clear.connecting + 1 \in Nat
  BY <1>2 DEF Session
<1> HIDE DEF clear
<1>5. Connect(s) \in Session /\ Connect(s).isDone = clear.isDone /\ Connect(s).socket = clear.socket
      /\ Connect(s).connecting = clear.connecting + 1 /\ Connect(s).waiting = clear.waiting
  BY <1>2, <1>3, <1>4 DEF Session
<1> QED  BY <1>2, <1>5

\* Reconnecting later starts one timeout more, within the limit.
LEMMA ReconnectLemma ==
  ASSUME NEW s \in Session, s.reconnects < MaxReconnects
  PROVE  /\ ScheduleReconnect(s) \in Session
         /\ ScheduleReconnect(s).isDone = s.isDone
         /\ ScheduleReconnect(s).socket = s.socket
         /\ ScheduleReconnect(s).connecting = s.connecting
         /\ ScheduleReconnect(s).waiting = s.waiting + 1
<1> DEFINE more == [s EXCEPT !.reconnects = s.reconnects + 1]
<1>1. s.reconnects + 1 \in 0..MaxReconnects /\ s.waiting + 1 \in Nat
  BY LimitsAssumption DEF Session
<1>2. more \in Session /\ more.isDone = s.isDone /\ more.socket = s.socket
      /\ more.connecting = s.connecting /\ more.waiting = s.waiting
  BY <1>1 DEF Session
<1>3. ScheduleReconnect(s) = [more EXCEPT !.waiting = s.waiting + 1]
  BY DEF ScheduleReconnect, Session
<1> HIDE DEF more
<1>4. ScheduleReconnect(s) \in Session /\ ScheduleReconnect(s).isDone = more.isDone
      /\ ScheduleReconnect(s).socket = more.socket /\ ScheduleReconnect(s).waiting = s.waiting + 1
      /\ ScheduleReconnect(s).connecting = more.connecting
  BY <1>1, <1>2, <1>3 DEF Session
<1> QED  BY <1>2, <1>4

\* A connection that closed is replaced by one attempt, now or later, or the session ends.
LEMMA ReplaceLemma ==
  ASSUME NEW s \in Session, NEW finished \in BOOLEAN, ~s.isDone
  PROVE  /\ Replace(s, finished) \in Session
         /\ Replace(s, finished).socket = s.socket
         /\ Replace(s, finished).connecting + Replace(s, finished).waiting
              <= s.connecting + s.waiting + 1
<1> DEFINE next == [s EXCEPT !.isRollingOver = FALSE]
<1>1. next \in Session /\ next.isDone = s.isDone /\ next.socket = s.socket
      /\ next.connecting = s.connecting /\ next.waiting = s.waiting /\ next.reconnects = s.reconnects
  BY DEF Session
<1>2. s.connecting \in Nat /\ s.waiting \in Nat /\ s.reconnects \in 0..MaxReconnects
  BY DEF Session
<1>3. Replace(s, finished) = IF s.isRollingOver /\ finished THEN Connect(next)
                             ELSE IF s.isStopping \/ s.reconnects >= MaxReconnects
                             THEN Stop(next, "failed") ELSE ScheduleReconnect(next)
  BY DEF Replace
<1> HIDE DEF next
<1>4. CASE Replace(s, finished) = Connect(next)
  BY <1>1, <1>2, <1>4, ConnectLemma
<1>5. CASE Replace(s, finished) = Stop(next, "failed")
  BY <1>1, <1>2, <1>5, StopLemma DEF Results
<1>6. CASE Replace(s, finished) = ScheduleReconnect(next) /\ next.reconnects < MaxReconnects
  BY <1>1, <1>2, <1>6, ReconnectLemma
<1> QED  BY <1>1, <1>2, <1>3, <1>4, <1>5, <1>6, LimitsAssumption
-----------------------------------------------------------------------------
(* Every action preserves the invariant. *)

USE DEF IInv

LEMMA SpendLemma ==
  ASSUME budget \in Budget, NEW what \in {"breaks", "failures", "rollovers"}, Spend(what)
  PROVE  budget' \in Budget
BY BoundsAssumption DEF Spend, Budget

\* Audio that waits is a sequence of chunks.
LEMMA KeepLemma ==
  ASSUME NEW chunks \in Seq(Chunks), NEW chunk \in Chunks
  PROVE  Keep(chunks, chunk) \in Seq(Chunks)
<1>1. CASE Len(chunks) >= MaxPending
  <2>1. chunks # <<>>
    BY <1>1, LimitsAssumption
  <2>2. Tail(chunks) \in Seq(Chunks)
    BY <2>1
  <2> QED  BY <1>1, <2>2 DEF Keep
<1>2. CASE ~(Len(chunks) >= MaxPending)
  BY <1>2 DEF Keep
<1> QED  BY <1>1, <1>2

LEMMA SendAudioStep ==
  ASSUME IInv, NEW quiet \in BOOLEAN, SendAudio(quiet)
  PROVE  IInv'
<1> DEFINE chunk == tape.recorded + 1
<1>1. chunk \in Chunks /\ chunk \in 0..MaxChunks
  BY BoundsAssumption DEF SendAudio, Chunks, Types, Tape
<1>2. CASE CanSend(session)
  <2>1. tape.sent \in Seq(Chunks) /\ Append(tape.sent, chunk) \in Seq(Chunks)
    BY <1>1 DEF Types, Tape
  <2>2. tape' = [tape EXCEPT !.recorded = chunk,
                   !.sent = IF Takes(net[session.socket]) THEN Append(tape.sent, chunk) ELSE tape.sent]
    BY <1>2 DEF SendAudio
  <2> HIDE DEF chunk
  <2>3. tape' \in Tape /\ tape'.late = tape.late
    BY <1>1, <2>1, <2>2 DEF Types, Tape
  <2>4. UNCHANGED <<session, timers, net, budget>>
    BY <1>2 DEF SendAudio
  <2> QED  BY <2>3, <2>4 DEF Types, Ownership, Alive, TimersOfThisConnection, EndIsFinal
<1>3. CASE ~CanSend(session)
  <2>1. session.pending \in Seq(Chunks) /\ Keep(session.pending, chunk) \in Seq(Chunks)
    BY <1>1, KeepLemma DEF Types, Session
  <2>2. Len(session.pending) >= MaxPending => Head(session.pending) \in Chunks
    BY <2>1, LimitsAssumption
  <2>3. session' = [session EXCEPT !.pending = Keep(session.pending, chunk)]
    BY <1>3 DEF SendAudio
  <2>4. tape' = [tape EXCEPT !.recorded = chunk,
                   !.overflow = IF Len(session.pending) >= MaxPending
                                THEN tape.overflow \cup {Head(session.pending)} ELSE tape.overflow]
    BY <1>3 DEF SendAudio
  <2> HIDE DEF chunk
  <2>5. tape' \in Tape /\ tape'.late = tape.late
    BY <1>1, <2>2, <2>4 DEF Types, Tape
  <2>6. /\ session' \in Session /\ session'.socket = session.socket
        /\ session'.isDone = session.isDone /\ session'.connecting = session.connecting
        /\ session'.waiting = session.waiting
    BY <2>1, <2>3 DEF Types, Session
  <2>7. UNCHANGED <<timers, net, budget>>
    BY <1>3 DEF SendAudio
  <2> QED  BY <2>5, <2>6, <2>7 DEF Types, Ownership, Alive, TimersOfThisConnection, EndIsFinal
<1> QED  BY <1>2, <1>3

LEMMA ReconnectTimerStep ==
  ASSUME IInv, ReconnectTimer
  PROVE  IInv'
<1> DEFINE s == [session EXCEPT !.waiting = session.waiting - 1]
<1>1. /\ s \in Session /\ s.socket = session.socket /\ s.isDone = session.isDone
      /\ s.connecting = session.connecting /\ s.waiting = session.waiting - 1
  BY DEF ReconnectTimer, Types, Session
<1>2. session' = IF s.isDone THEN s ELSE Connect(s)
  BY DEF ReconnectTimer
<1>3. UNCHANGED <<timers, net, tape, budget>> /\ session.waiting > 0
  BY DEF ReconnectTimer
<1> HIDE DEF s
<1>4. /\ session' \in Session /\ session'.socket = session.socket /\ session'.isDone = session.isDone
      /\ session'.connecting + session'.waiting <= session.connecting + session.waiting
  <2>1. session.connecting \in Nat /\ session.waiting \in Nat
    BY DEF Types, Session
  <2>2. CASE s.isDone
    <3>1. session' = s
      BY <1>2, <2>2
    <3> QED  BY <1>1, <2>1, <3>1
  <2>3. CASE ~s.isDone
    <3>1. session' = Connect(s)
      BY <1>2, <2>3
    <3>2. /\ Connect(s) \in Session /\ Connect(s).isDone = s.isDone /\ Connect(s).socket = s.socket
          /\ Connect(s).connecting = s.connecting + 1 /\ Connect(s).waiting = s.waiting
      BY <1>1, ConnectLemma
    <3> QED  BY <1>1, <2>1, <3>1, <3>2
  <2> QED  BY <2>2, <2>3
<1>5. \A c \in Conns : ~Alive(c)
  BY <1>3 DEF Ownership, Types, Session
<1> QED  BY <1>3, <1>4, <1>5 DEF Types, Ownership, Alive, TimersOfThisConnection, EndIsFinal, Session

LEMMA ConnectFailsStep ==
  ASSUME IInv, NEW inUse \in BOOLEAN, ConnectFails(inUse)
  PROVE  IInv'
<1> DEFINE s == [session EXCEPT !.connecting = session.connecting - 1]
           gives == s.isStopping \/ inUse \/ s.reconnects >= MaxReconnects
<1>1. /\ s \in Session /\ s.socket = session.socket /\ s.isDone = session.isDone
      /\ s.connecting = session.connecting - 1 /\ s.waiting = session.waiting
  BY DEF ConnectFails, Types, Session
<1>2. session' = IF s.isDone THEN s ELSE IF gives THEN Stop(s, "failed") ELSE ScheduleReconnect(s)
  BY DEF ConnectFails
<1>3. /\ timers' = IF ~s.isDone /\ gives THEN {} ELSE timers
      /\ tape' = [tape EXCEPT !.inRow = tape.inRow + 1]
      /\ net' = net /\ session.connecting > 0
  BY DEF ConnectFails
<1>4. tape' \in Tape /\ tape'.late = tape.late
  BY <1>3 DEF Types, Tape
<1>5. budget' \in Budget
  BY SpendLemma DEF ConnectFails, Types
<1>6. ~gives => s.reconnects < MaxReconnects
  BY <1>1, LimitsAssumption DEF Session
<1> HIDE DEF s, gives
<1>7. /\ session' \in Session /\ session'.socket = session.socket
      /\ session'.connecting + session'.waiting <= session.connecting + session.waiting
      /\ session.isDone => session'.isDone
  <2>1. CASE s.isDone
    BY <1>1, <1>2, <2>1 DEF Types, Session
  <2>2. CASE ~s.isDone /\ gives
    BY <1>1, <1>2, <2>2, StopLemma DEF Types, Session, Results
  <2>3. CASE ~s.isDone /\ ~gives
    BY <1>1, <1>2, <1>6, <2>3, ReconnectLemma DEF Types, Session
  <2> QED  BY <2>1, <2>2, <2>3
<1>8. \A c \in Conns : ~Alive(c)
  BY <1>3 DEF Ownership, Types, Session
<1>9. session.socket = 0
  BY <1>8 DEF Ownership, Types, Session
<1> QED  BY <1>3, <1>4, <1>5, <1>7, <1>8, <1>9
         DEF Types, Ownership, Alive, TimersOfThisConnection, EndIsFinal, Session

\* An action that opens and closes nothing, and that changes neither the end of the session nor
\* what it waits for, leaves the ownership alone.
LEMMA SameOwnerLemma ==
  ASSUME Ownership, session.socket \in Conns \cup {0},
         session'.socket = session.socket, session'.isDone = session.isDone,
         session'.connecting = session.connecting, session'.waiting = session.waiting,
         \A c \in Conns : net'[c].state = net[c].state
  PROVE  Ownership'
<1>1. session.socket # 0 => (net'[session.socket].state = net[session.socket].state)
  OBVIOUS
<1> QED  BY <1>1 DEF Ownership, Alive

\* A connection is told to finish, and nothing else.
LEMMA FinishConnLemma ==
  ASSUME NEW conn \in Connection
  PROVE  FinishConn(conn) \in Connection /\ FinishConn(conn).state = conn.state
BY DEF FinishConn, Connection

LEMMA RolloverTimerStep ==
  ASSUME IInv, NEW t \in timers, RolloverTimer(t)
  PROVE  IInv'
<1>1. UNCHANGED tape /\ budget' \in Budget
  BY SpendLemma DEF RolloverTimer, Types
<1>2. t.conn = session.socket /\ session.socket \in Conns
  BY DEF TimersOfThisConnection, Types, Timer
<1>3. CASE UNCHANGED <<session, net>> /\ timers' = timers \ {t}
  <2>1. \A c \in Conns : net'[c].state = net[c].state
    BY <1>3
  <2>2. Ownership'
    BY <1>3, <2>1, SameOwnerLemma DEF Types, Session
  <2> QED  BY <1>1, <1>3, <2>2 DEF Types, TimersOfThisConnection, EndIsFinal
<1>4. CASE /\ session' = RollOver(session)
           /\ net' = [net EXCEPT ![session.socket] = FinishConn(net[session.socket])]
           /\ timers' = FinishTimers(session.socket) \ {t}
  <2>1. FinishConn(net[session.socket]) \in Connection
        /\ FinishConn(net[session.socket]).state = net[session.socket].state
    BY <1>2, FinishConnLemma DEF Types
  <2>2. net' \in [Conns -> Connection] /\ \A c \in Conns : net'[c].state = net[c].state
    BY <1>2, <1>4, <2>1 DEF Types
  <2>3. [session EXCEPT !.isRollingOver = TRUE] \in Session
    BY DEF Types, Session
  <2>4. session' = [[session EXCEPT !.isRollingOver = TRUE] EXCEPT !.isReady = FALSE]
    BY <1>4 DEF RollOver, Types, Session
  <2>5. session' \in Session
    BY <2>3, <2>4 DEF Session
  <2>6. /\ session'.socket = session.socket /\ session'.isDone = session.isDone
        /\ session'.connecting = session.connecting /\ session'.waiting = session.waiting
    BY <1>4 DEF RollOver, Types, Session
  <2>7. Ownership'
    BY <2>2, <2>6, SameOwnerLemma DEF Types, Session
  <2>8. timers' \subseteq Timer /\ \A u \in timers' : u.conn = session.socket
    BY <1>2, <1>4 DEF FinishTimers, Types, Timer, TimersOfThisConnection
  <2> QED  BY <1>1, <2>2, <2>5, <2>6, <2>7, <2>8 DEF Types, TimersOfThisConnection, EndIsFinal
<1> QED  BY <1>3, <1>4 DEF RolloverTimer

LEMMA FinishTimerStep ==
  ASSUME IInv, NEW t \in timers, FinishTimer(t)
  PROVE  IInv'
<1>1. UNCHANGED <<session, tape, budget>> /\ timers' = timers \ {t}
  BY DEF FinishTimer
<1>2. session.socket \in Conns
  BY DEF TimersOfThisConnection, Types, Timer
<1>3. net' = [net EXCEPT ![session.socket] = [net[session.socket] EXCEPT !.state = "closing"]]
  BY <1>2 DEF FinishTimer, Conns
<1>4. [net[session.socket] EXCEPT !.state = "closing"] \in Connection
  BY <1>2 DEF Types, Connection
<1>5. net' \in [Conns -> Connection]
  BY <1>3, <1>4 DEF Types
<1>6. /\ net'[session.socket].state = "closing"
      /\ \A c \in Conns : c # session.socket => net'[c] = net[c]
  BY <1>2, <1>3, <1>4 DEF Types, Connection
<1>7. Ownership'
  BY <1>1, <1>2, <1>6 DEF Ownership, Alive, Conns
<1> QED  BY <1>1, <1>5, <1>7 DEF Types, TimersOfThisConnection, EndIsFinal

LEMMA FinishStep ==
  ASSUME IInv, Finish
  PROVE  IInv'
<1> DEFINE s == [session EXCEPT !.isStopping = TRUE]
           idle == s.socket = 0 /\ s.pending = <<>>
<1>1. /\ s \in Session /\ s.socket = session.socket /\ s.isDone = session.isDone
      /\ s.connecting = session.connecting /\ s.waiting = session.waiting
  BY DEF Types, Session
<1>2. UNCHANGED <<tape, budget>> /\ ~session.isDone
  BY <1>1 DEF Finish
<1>3. \/ s.socket # 0 /\ session' = s /\ SendFinish(s.socket)
      \/ ~idle /\ session' = s /\ timers' = timers /\ net' = net
      \/ idle /\ session' = Stop(s, "ok") /\ timers' = {} /\ net' = net
  BY DEF Finish
<1>4. idle => s.socket = 0
  OBVIOUS
<1> HIDE DEF s, idle
<1>5. CASE s.socket # 0 /\ session' = s /\ SendFinish(s.socket)
  <2>1. session.socket \in Conns
    BY <1>1, <1>5 DEF Session
  <2>2. net' = [net EXCEPT ![session.socket] = FinishConn(net[session.socket])]
        /\ timers' = FinishTimers(session.socket)
    BY <1>1, <1>5 DEF SendFinish
  <2>3. FinishConn(net[session.socket]) \in Connection
        /\ FinishConn(net[session.socket]).state = net[session.socket].state
    BY <2>1, FinishConnLemma DEF Types
  <2>4. net' \in [Conns -> Connection] /\ \A c \in Conns : net'[c].state = net[c].state
    BY <2>1, <2>2, <2>3 DEF Types
  <2>5. Ownership'
    BY <1>1, <1>5, <2>4, SameOwnerLemma DEF Types, Session
  <2>6. timers' \subseteq Timer /\ \A u \in timers' : u.conn = session.socket
    BY <2>1, <2>2 DEF FinishTimers, Types, Timer, TimersOfThisConnection
  <2> QED  BY <1>1, <1>2, <1>5, <2>4, <2>5, <2>6 DEF Types, TimersOfThisConnection, EndIsFinal
<1>6. CASE session' = s /\ timers' = timers /\ net' = net
  <2>1. \A c \in Conns : net'[c].state = net[c].state
    BY <1>6
  <2>2. Ownership'
    BY <1>1, <1>6, <2>1, SameOwnerLemma DEF Types, Session
  <2> QED  BY <1>1, <1>2, <1>6, <2>2 DEF Types, TimersOfThisConnection, EndIsFinal
<1>7. CASE s.socket = 0 /\ session' = Stop(s, "ok") /\ timers' = {} /\ net' = net
  <2>1. /\ session' \in Session /\ session'.isDone /\ session'.socket = session.socket
        /\ session'.connecting = session.connecting /\ session'.waiting = session.waiting
    BY <1>1, <1>7, StopLemma DEF Results
  <2>2. Ownership'
    BY <1>1, <1>7, <2>1 DEF Ownership, Alive
  <2> QED  BY <1>2, <1>7, <2>1, <2>2 DEF Types, TimersOfThisConnection, EndIsFinal
<1> QED  BY <1>3, <1>4, <1>5, <1>6, <1>7

LEMMA DisposeStep ==
  ASSUME IInv, Dispose
  PROVE  IInv'
<1>1. UNCHANGED <<tape, budget>> /\ timers' = {}
  BY DEF Dispose
<1>2. [session EXCEPT !.isDone = TRUE] \in Session
  BY DEF Types, Session
<1>3. session' = [[session EXCEPT !.isDone = TRUE] EXCEPT !.socket = 0]
  BY DEF Dispose, Types, Session
<1>4. session' \in Session
  BY <1>2, <1>3 DEF Session
<1>5. /\ session'.isDone /\ session'.socket = 0
      /\ session'.connecting = session.connecting /\ session'.waiting = session.waiting
  BY DEF Dispose, Types, Session
<1>6. CASE session.socket = 0
  <2>1. net' = net
    BY <1>6 DEF Dispose
  <2>2. Ownership'
    BY <1>5, <1>6, <2>1 DEF Ownership, Alive
  <2> QED  BY <1>1, <1>4, <2>1, <2>2 DEF Types, TimersOfThisConnection, EndIsFinal
<1>7. CASE session.socket # 0
  <2>1. session.socket \in Conns
    BY <1>7 DEF Types, Session
  <2>2. net' = [net EXCEPT ![session.socket] = [net[session.socket] EXCEPT !.state = "closing"]]
    BY <1>7 DEF Dispose
  <2>3. [net[session.socket] EXCEPT !.state = "closing"] \in Connection
    BY <2>1 DEF Types, Connection
  <2>4. net' \in [Conns -> Connection]
    BY <2>2, <2>3 DEF Types
  <2>5. /\ net'[session.socket].state = "closing"
        /\ \A c \in Conns : c # session.socket => net'[c] = net[c]
    BY <2>1, <2>2, <2>3 DEF Types, Connection
  <2>6. Ownership'
    BY <1>5, <1>7, <2>1, <2>5 DEF Ownership, Alive
  <2> QED  BY <1>1, <1>4, <2>4, <2>6 DEF Types, TimersOfThisConnection, EndIsFinal
<1> QED  BY <1>6, <1>7

LEMMA ConnectedStep ==
  ASSUME IInv, NEW c \in Conns, Connected(c)
  PROVE  IInv'
<1> DEFINE s == [session EXCEPT !.connecting = session.connecting - 1]
           state == IF session.isDone THEN "closing" ELSE "open"
<1>1. UNCHANGED <<timers, tape, budget>> /\ session.connecting > 0
  BY DEF Connected
<1>2. session.connecting = 1 /\ session.waiting = 0
  BY <1>1 DEF Ownership, Types, Session
<1>3. \A d \in Conns : ~Alive(d)
  BY <1>1 DEF Ownership, Types, Session
<1>4. session.socket = 0
  BY <1>3 DEF Ownership, Types, Session
<1>5. /\ s \in Session /\ s.socket = 0 /\ s.isDone = session.isDone
      /\ s.connecting = 0 /\ s.waiting = 0
  BY <1>2, <1>4 DEF Types, Session
<1>6. session' = [s EXCEPT !.socket = IF session.isDone THEN 0 ELSE c]
  BY <1>4 DEF Connected, Types, Session
<1>7. net' = [net EXCEPT ![c] = [net[c] EXCEPT !.state = state]]
  BY DEF Connected
<1>8. state \in {"open", "closing"} /\ (state = "open" => ~session.isDone)
  OBVIOUS
<1> HIDE DEF s, state
<1>9. /\ session' \in Session /\ session'.isDone = session.isDone
      /\ session'.socket = (IF session.isDone THEN 0 ELSE c)
      /\ session'.connecting = 0 /\ session'.waiting = 0
  BY <1>5, <1>6 DEF Session
<1>10. [net[c] EXCEPT !.state = state] \in Connection
  BY <1>8 DEF Types, Connection
<1>11. net' \in [Conns -> Connection]
  BY <1>7, <1>10 DEF Types
<1>12. net'[c].state = state /\ \A d \in Conns : d # c => net'[d] = net[d]
  BY <1>7, <1>10 DEF Types, Connection
<1>13. \A d \in Conns : d # c => ~Alive(d)'
  BY <1>3, <1>12 DEF Alive
<1>14. Ownership'
  BY <1>8, <1>9, <1>12, <1>13 DEF Ownership, Alive
<1>15. timers = {}
  BY <1>4 DEF TimersOfThisConnection, Types, Timer, Conns
<1> QED  BY <1>1, <1>9, <1>11, <1>14, <1>15 DEF Types, TimersOfThisConnection, EndIsFinal

LEMMA ReadyStep ==
  ASSUME IInv, NEW c \in Conns, Ready(c)
  PROVE  IInv'
<1> DEFINE conn == [net[c] EXCEPT !.ready = TRUE]
<1>1. conn \in Connection /\ conn.state = net[c].state
  BY DEF Types, Connection
<1>2. UNCHANGED budget /\ net[c].state = "open"
  BY DEF Ready
<1>3. session.socket = c /\ ~session.isDone
  BY <1>2 DEF Ownership, Conns
<1>4. FinishConn(conn) \in Connection /\ FinishConn(conn).state = net[c].state
  BY <1>1, FinishConnLemma
<1>5. net' = [net EXCEPT ![c] = conn] \/ net' = [net EXCEPT ![c] = FinishConn(conn)]
  BY DEF Ready
<1>6. net' \in [Conns -> Connection] /\ \A d \in Conns : net'[d].state = net[d].state
  <2> HIDE DEF conn
  <2> QED  BY <1>1, <1>4, <1>5 DEF Types
<1>7. \/ timers' = timers \cup {[kind |-> "rollover", conn |-> c]}
      \/ timers' = FinishTimers(c) \cup {[kind |-> "rollover", conn |-> c]}
  BY <1>3 DEF Ready
<1>8. timers' \subseteq Timer /\ \A u \in timers' : u.conn = c
  BY <1>3, <1>7 DEF FinishTimers, Types, Timer, TimersOfThisConnection
<1>9. /\ session' \in Session /\ session'.socket = session.socket /\ session'.isDone = session.isDone
      /\ session'.connecting = session.connecting /\ session'.waiting = session.waiting
  <2> DEFINE flushed == [session EXCEPT !.pending = <<>>]
             ready == [flushed EXCEPT !.isReady = TRUE]
  <2>1. <<>> \in Seq(Chunks)
    OBVIOUS
  <2>2. /\ flushed \in Session /\ flushed.socket = session.socket /\ flushed.isDone = session.isDone
        /\ flushed.connecting = session.connecting /\ flushed.waiting = session.waiting
    BY <2>1 DEF Types, Session
  <2>3. session' = [[flushed EXCEPT !.isReady = TRUE] EXCEPT !.reconnects = 0]
    BY <1>3 DEF Ready, AfterFlush, Types, Session
  <2> HIDE DEF flushed
  <2>4. /\ ready \in Session /\ ready.socket = flushed.socket /\ ready.isDone = flushed.isDone
        /\ ready.connecting = flushed.connecting /\ ready.waiting = flushed.waiting
    BY <2>2 DEF Session
  <2>5. session' = [ready EXCEPT !.reconnects = 0]
    BY <2>3
  <2>6. 0 \in 0..MaxReconnects
    BY LimitsAssumption
  <2> HIDE DEF ready
  <2>7. /\ session' \in Session /\ session'.socket = ready.socket /\ session'.isDone = ready.isDone
        /\ session'.connecting = ready.connecting /\ session'.waiting = ready.waiting
    BY <2>4, <2>5, <2>6 DEF Session
  <2> QED  BY <2>2, <2>4, <2>7
<1>10. tape' \in Tape /\ tape'.late = tape.late
  <2> DEFINE sent == IF Takes(conn) THEN tape.sent \o session.pending ELSE tape.sent
  <2>1. sent \in Seq(Chunks)
    BY DEF Types, Session, Tape
  <2>2. tape' = [tape EXCEPT !.late = tape.late \/ session.isDone, !.inRow = 0, !.sent = sent]
    BY <1>3 DEF Ready, Called, Types, Tape
  <2> HIDE DEF sent
  <2>3. tape' = [tape EXCEPT !.late = tape.late, !.inRow = 0, !.sent = sent]
    BY <1>3, <2>2 DEF Types, Tape
  <2>4. [tape EXCEPT !.inRow = 0] \in Tape
    BY DEF Types, Tape
  <2>5. tape' = [[tape EXCEPT !.inRow = 0] EXCEPT !.sent = sent]
    BY <2>3 DEF Types, Tape
  <2> QED  BY <2>1, <2>4, <2>5 DEF Tape
<1>11. Ownership'
  BY <1>6, <1>9, SameOwnerLemma DEF Types, Session
<1> HIDE DEF conn
<1> QED  BY <1>2, <1>3, <1>6, <1>8, <1>9, <1>10, <1>11 DEF Types, TimersOfThisConnection, EndIsFinal

LEMMA FinishedStep ==
  ASSUME IInv, NEW c \in Conns, Finished(c)
  PROVE  IInv'
<1>1. UNCHANGED <<session, timers, tape, budget>>
      /\ net' = [net EXCEPT ![c] = [net[c] EXCEPT !.finished = TRUE]]
  BY DEF Finished
<1>2. [net[c] EXCEPT !.finished = TRUE] \in Connection
      /\ [net[c] EXCEPT !.finished = TRUE].state = net[c].state
  BY DEF Types, Connection
<1>3. net' \in [Conns -> Connection] /\ \A d \in Conns : net'[d].state = net[d].state
  BY <1>1, <1>2 DEF Types
<1>4. Ownership'
  BY <1>1, <1>3, SameOwnerLemma DEF Types, Session
<1> QED  BY <1>1, <1>3, <1>4 DEF Types, TimersOfThisConnection, EndIsFinal

LEMMA ErrorMessageStep ==
  ASSUME IInv, NEW c \in Conns, NEW fatal \in BOOLEAN, ErrorMessage(c, fatal)
  PROVE  IInv'
<1>1. UNCHANGED <<timers, net, tape, budget>>
  BY DEF ErrorMessage
<1>2. \A d \in Conns : net'[d].state = net[d].state
  BY <1>1
<1>3. session' = session \/ session' = [session EXCEPT !.fatal = fatal]
  BY DEF ErrorMessage
<1>4. /\ session' \in Session /\ session'.socket = session.socket /\ session'.isDone = session.isDone
      /\ session'.connecting = session.connecting /\ session'.waiting = session.waiting
  BY <1>3 DEF Types, Session
<1>5. Ownership'
  BY <1>2, <1>4, SameOwnerLemma DEF Types, Session
<1> QED  BY <1>1, <1>4, <1>5 DEF Types, TimersOfThisConnection, EndIsFinal

LEMMA TranscriptStep ==
  ASSUME IInv, NEW c \in Conns, Transcript(c)
  PROVE  IInv'
<1>1. UNCHANGED <<session, timers, net, budget>> /\ net[c].state = "open"
  BY DEF Transcript
<1>2. session.socket = c /\ ~session.isDone
  BY <1>1 DEF Ownership, Conns
<1>3. tape' = [tape EXCEPT !.late = tape.late \/ session.isDone]
  BY <1>2 DEF Transcript, Called
<1>4. tape' \in Tape /\ tape'.late = tape.late
  BY <1>2, <1>3 DEF Types, Tape
<1> QED  BY <1>1, <1>4 DEF Types, Ownership, Alive, TimersOfThisConnection, EndIsFinal

LEMMA ClosingStep ==
  ASSUME IInv, NEW c \in Conns, Closing(c)
  PROVE  IInv'
<1>1. UNCHANGED <<session, timers, tape>> /\ net[c].state = "open"
      /\ net' = [net EXCEPT ![c] = [net[c] EXCEPT !.state = "closing"]]
  BY DEF Closing
<1>2. budget' \in Budget
  BY SpendLemma DEF Closing, Types
<1>3. session.socket = c
  BY <1>1 DEF Ownership
<1>4. [net[c] EXCEPT !.state = "closing"] \in Connection
  BY DEF Types, Connection
<1>5. net' \in [Conns -> Connection]
  BY <1>1, <1>4 DEF Types
<1>6. net'[c].state = "closing" /\ \A d \in Conns : d # c => net'[d] = net[d]
  BY <1>1, <1>4 DEF Types, Connection
<1>7. Ownership'
  BY <1>1, <1>3, <1>6 DEF Ownership, Alive
<1> QED  BY <1>1, <1>2, <1>5, <1>7 DEF Types, TimersOfThisConnection, EndIsFinal

LEMMA ClosedStep ==
  ASSUME IInv, NEW c \in Conns, NEW inUse \in BOOLEAN, Closed(c, inUse)
  PROVE  IInv'
<1>1. UNCHANGED budget /\ net[c].state = "closing"
      /\ net' = [net EXCEPT ![c] = [net[c] EXCEPT !.state = "closed"]]
  BY DEF Closed
<1>2. [net[c] EXCEPT !.state = "closed"] \in Connection
  BY DEF Types, Connection
<1>3. net' \in [Conns -> Connection]
  BY <1>1, <1>2 DEF Types
<1>4. net'[c].state = "closed" /\ \A d \in Conns : d # c => net'[d] = net[d]
  BY <1>1, <1>2 DEF Types, Connection
<1>5. \A d \in Conns : ~Alive(d)'
  BY <1>1, <1>4 DEF Ownership, Alive
<1>6. CASE session.socket # c
  <2>1. UNCHANGED <<session, timers, tape>>
    BY <1>6 DEF Closed
  <2>2. session.isDone
    BY <1>1, <1>6 DEF Ownership
  <2>3. Ownership'
    BY <1>5, <2>1, <2>2 DEF Ownership, Alive
  <2> QED  BY <1>1, <1>3, <2>1, <2>3 DEF Types, TimersOfThisConnection, EndIsFinal
<1>7. CASE session.socket = c
  <2> DEFINE idle == [session EXCEPT !.socket = 0]
             s == [idle EXCEPT !.isReady = FALSE]
  <2>1. ~session.isDone /\ session.connecting = 0 /\ session.waiting = 0
    BY <1>1, <1>7 DEF Ownership, Alive, Conns
  <2>2. idle \in Session /\ idle.socket = 0 /\ idle.isDone = session.isDone
        /\ idle.connecting = session.connecting /\ idle.waiting = session.waiting
    BY DEF Types, Session
  <2>3. s = [session EXCEPT !.socket = 0, !.isReady = FALSE]
    OBVIOUS
  <2> HIDE DEF idle
  <2>4. s \in Session /\ s.socket = 0 /\ ~s.isDone /\ s.connecting = 0 /\ s.waiting = 0
    BY <2>1, <2>2 DEF Session
  <2> HIDE DEF s
  <2>5. /\ timers' = {}
        /\ session' = IF s.isDone THEN s
                      ELSE IF inUse \/ s.fatal THEN Stop(s, "failed")
                      ELSE IF IsFinished(c) THEN Stop(s, "ok")
                      ELSE Replace(s, net[c].finished)
        /\ tape' = IF net[c].finished THEN tape ELSE [tape EXCEPT !.inRow = tape.inRow + 1]
    BY <1>7, <2>3 DEF Closed, TimersAfterClose
  <2>6. net[c].finished \in BOOLEAN
    BY DEF Types, Connection
  <2>7. session' \in Session /\ session'.socket = 0 /\ session'.connecting + session'.waiting <= 1
    <3>1. CASE session' = Stop(s, "failed")
      BY <2>4, <3>1, StopLemma DEF Results
    <3>2. CASE session' = Stop(s, "ok")
      BY <2>4, <3>2, StopLemma DEF Results
    <3>3. CASE session' = Replace(s, net[c].finished)
      BY <2>4, <2>6, <3>3, ReplaceLemma
    <3> QED  BY <2>4, <2>5, <3>1, <3>2, <3>3
  <2>8. tape' \in Tape /\ tape'.late = tape.late
    BY <2>5 DEF Types, Tape
  <2>9. Ownership'
    BY <1>5, <2>7 DEF Ownership, Alive
  <2> QED  BY <1>1, <1>3, <2>5, <2>7, <2>8, <2>9 DEF Types, TimersOfThisConnection, EndIsFinal
<1> QED  BY <1>6, <1>7
-----------------------------------------------------------------------------
LEMMA InitIInv == Init => IInv
<1> SUFFICES ASSUME Init PROVE IInv
  OBVIOUS
<1>1. <<>> \in Seq(Chunks)
  OBVIOUS
<1>2. session \in Session
  BY <1>1, LimitsAssumption DEF Init, Session, Results
<1>3. net \in [Conns -> Connection] /\ \A c \in Conns : net[c].state = "unused"
  BY DEF Init, Connection
<1>4. tape \in Tape
  BY <1>1, BoundsAssumption DEF Init, Tape
<1>5. budget \in Budget
  BY BoundsAssumption DEF Init, Budget
<1>6. Types
  BY <1>2, <1>3, <1>4, <1>5 DEF Init, Types
<1>7. Ownership
  BY <1>3 DEF Init, Ownership, Alive
<1> QED  BY <1>6, <1>7 DEF Init, TimersOfThisConnection, EndIsFinal

LEMMA NextIInv == IInv /\ [Next]_vars => IInv'
<1> SUFFICES ASSUME IInv, [Next]_vars PROVE IInv'
  OBVIOUS
<1>1. ASSUME NEW quiet \in BOOLEAN, SendAudio(quiet) PROVE IInv'
  BY <1>1, SendAudioStep
<1>2. CASE ReconnectTimer
  BY <1>2, ReconnectTimerStep
<1>3. ASSUME NEW inUse \in BOOLEAN, ConnectFails(inUse) PROVE IInv'
  BY <1>3, ConnectFailsStep
<1>4. ASSUME NEW t \in timers, RolloverTimer(t) PROVE IInv'
  BY <1>4, RolloverTimerStep
<1>5. ASSUME NEW t \in timers, FinishTimer(t) PROVE IInv'
  BY <1>5, FinishTimerStep
<1>6. CASE Finish
  BY <1>6, FinishStep
<1>7. CASE Dispose
  BY <1>7, DisposeStep
<1>8. ASSUME NEW c \in Conns, Connected(c) \/ Ready(c) \/ Finished(c) \/ Transcript(c) \/ Closing(c)
      PROVE IInv'
  BY <1>8, ConnectedStep, ReadyStep, FinishedStep, TranscriptStep, ClosingStep
<1>9. ASSUME NEW c \in Conns, NEW b \in BOOLEAN, ErrorMessage(c, b) \/ Closed(c, b) PROVE IInv'
  BY <1>9, ErrorMessageStep, ClosedStep
<1>10. CASE UNCHANGED vars
  BY <1>10 DEF vars, Types, Ownership, Alive, TimersOfThisConnection, EndIsFinal
<1> QED  BY <1>1, <1>2, <1>3, <1>4, <1>5, <1>6, <1>7, <1>8, <1>9, <1>10 DEF Next

THEOREM Inductive == Spec => []IInv
BY InitIInv, NextIInv, PTL DEF Spec

\* Whatever breaks, ends or rolls over, and however late tickets come: the server never sees two
\* connections of one recording, and none that is open once the recording is over.
THEOREM OneConnectionTheorem == Spec => []OneConnection
<1>1. IInv => OneConnection
  BY DEF Types, Session, Ownership, OneConnection, Conns
<1> QED  BY <1>1, Inductive, PTL

\* No rollover or finish timeout ends after the connection it was armed for.
THEOREM TimersTheorem == Spec => []TimersOfThisConnection
BY Inductive, PTL

\* After onStopped or dispose no callback is called, whatever the server still sends.
THEOREM EndIsFinalTheorem == Spec => []EndIsFinal
BY Inductive, PTL

\* A recording is one session to the server and to the screen, whatever breaks and however late
\* tickets, timers and messages come: one connection, timers of that connection, silence at the end.
THEOREM OneSessionTheorem == Spec => []OneSession
<1>1. OneConnection /\ TimersOfThisConnection /\ EndIsFinal => OneSession
  BY DEF OneSession
<1> QED  BY <1>1, OneConnectionTheorem, TimersTheorem, EndIsFinalTheorem, PTL
-----------------------------------------------------------------------------
(* The audio. *)

Increasing(chunks) == \A i, j \in DOMAIN chunks : i < j => chunks[i] < chunks[j]

UpTo(chunks, n) == \A i \in DOMAIN chunks : chunks[i] <= n

Before(first, then) == \A i \in DOMAIN first, j \in DOMAIN then : first[i] < then[j]

\* What was sent comes before what waits, and both were recorded.
Order ==
  /\ Increasing(tape.sent) /\ UpTo(tape.sent, tape.recorded)
  /\ Increasing(session.pending) /\ UpTo(session.pending, tape.recorded)
  /\ Before(tape.sent, session.pending)

\* A session that is ready has a connection that takes audio, until it is told to finish.
Listens ==
  /\ session.isReady /\ ~session.isDone =>
       /\ session.socket # 0
       /\ net[session.socket].ready
       /\ ~session.isStopping => ~net[session.socket].finishSent
  /\ \A c \in Conns : net[c].finishSent => net[c].ready
  /\ CanSend(session) => session.pending = <<>>

AInv == Order /\ AudioIsKept /\ Listens
-----------------------------------------------------------------------------
(* Sequences of chunks. *)

\* A later chunk goes to the end.
LEMMA AppendLemma ==
  ASSUME NEW chunks \in Seq(Nat), NEW n \in Nat, NEW k \in Nat, k > n,
         Increasing(chunks), UpTo(chunks, n)
  PROVE  /\ Increasing(Append(chunks, k)) /\ UpTo(Append(chunks, k), k)
         /\ ToSet(Append(chunks, k)) = ToSet(chunks) \cup {k}
<1>1. \A i \in DOMAIN chunks : chunks[i] \in Nat /\ chunks[i] < k
  BY DEF UpTo
<1>2. DOMAIN Append(chunks, k) = 1..(Len(chunks) + 1) /\ DOMAIN chunks = 1..Len(chunks)
      /\ Len(chunks) \in Nat
  OBVIOUS
<1>3. \A i \in DOMAIN chunks : Append(chunks, k)[i] = chunks[i]
  OBVIOUS
<1>4. Append(chunks, k)[Len(chunks) + 1] = k
  OBVIOUS
<1>5. \A i \in DOMAIN Append(chunks, k) : i \in DOMAIN chunks \/ i = Len(chunks) + 1
  BY <1>2
<1>6. Increasing(Append(chunks, k))
  BY <1>1, <1>2, <1>3, <1>4, <1>5 DEF Increasing
<1>7. UpTo(Append(chunks, k), k)
  BY <1>1, <1>3, <1>4, <1>5 DEF UpTo
<1>8. ToSet(Append(chunks, k)) = ToSet(chunks) \cup {k}
  BY <1>2, <1>3, <1>4, <1>5 DEF ToSet
<1> QED  BY <1>6, <1>7, <1>8

\* Without the oldest chunk.
LEMMA TailLemma ==
  ASSUME NEW chunks \in Seq(Nat), chunks # <<>>, NEW n \in Nat,
         Increasing(chunks), UpTo(chunks, n)
  PROVE  /\ Tail(chunks) \in Seq(Nat) /\ Increasing(Tail(chunks)) /\ UpTo(Tail(chunks), n)
         /\ ToSet(chunks) = ToSet(Tail(chunks)) \cup {Head(chunks)}
         /\ \A k \in ToSet(Tail(chunks)) : Head(chunks) < k
<1>1. Tail(chunks) \in Seq(Nat) /\ Len(chunks) \in Nat \ {0} /\ DOMAIN chunks = 1..Len(chunks)
  OBVIOUS
<1>2. DOMAIN Tail(chunks) = 1..(Len(chunks) - 1)
  OBVIOUS
<1>3. \A i \in DOMAIN Tail(chunks) : Tail(chunks)[i] = chunks[i + 1] /\ i + 1 \in DOMAIN chunks
  BY <1>1, <1>2
<1>4. Head(chunks) = chunks[1] /\ 1 \in DOMAIN chunks
  BY <1>1
<1>5. \A i \in DOMAIN chunks : i = 1 \/ (i - 1 \in DOMAIN Tail(chunks) /\ (i - 1) + 1 = i)
  BY <1>1, <1>2
<1>6. \A i \in DOMAIN Tail(chunks) : Head(chunks) < Tail(chunks)[i]
  BY <1>1, <1>2, <1>3, <1>4 DEF Increasing
<1>7. Increasing(Tail(chunks))
  BY <1>1, <1>2, <1>3 DEF Increasing
<1>8. UpTo(Tail(chunks), n)
  BY <1>3 DEF UpTo
<1>9. ToSet(chunks) = ToSet(Tail(chunks)) \cup {Head(chunks)}
  <2>1. ASSUME NEW k \in ToSet(chunks) PROVE k \in ToSet(Tail(chunks)) \cup {Head(chunks)}
    BY <1>3, <1>4, <1>5 DEF ToSet
  <2>2. ASSUME NEW k \in ToSet(Tail(chunks)) PROVE k \in ToSet(chunks)
    BY <1>3 DEF ToSet
  <2>3. Head(chunks) \in ToSet(chunks)
    BY <1>4 DEF ToSet
  <2> QED  BY <2>1, <2>2, <2>3
<1> QED  BY <1>1, <1>6, <1>7, <1>8, <1>9 DEF ToSet

\* What waited is sent after what was sent.
LEMMA ConcatLemma ==
  ASSUME NEW sent \in Seq(Nat), NEW pending \in Seq(Nat), NEW n \in Nat,
         Increasing(sent), Increasing(pending), UpTo(sent, n), UpTo(pending, n),
         Before(sent, pending)
  PROVE  /\ Increasing(sent \o pending) /\ UpTo(sent \o pending, n)
         /\ ToSet(sent \o pending) = ToSet(sent) \cup ToSet(pending)
<1> DEFINE all == sent \o pending
<1>1. /\ DOMAIN all = 1..(Len(sent) + Len(pending))
      /\ DOMAIN sent = 1..Len(sent) /\ DOMAIN pending = 1..Len(pending)
      /\ Len(sent) \in Nat /\ Len(pending) \in Nat
  OBVIOUS
<1>2. \A i \in DOMAIN sent : all[i] = sent[i] /\ sent[i] \in Nat
  OBVIOUS
<1>3. \A i \in DOMAIN all : i \notin DOMAIN sent =>
        i - Len(sent) \in DOMAIN pending /\ all[i] = pending[i - Len(sent)]
  BY <1>1
<1>4. \A i \in DOMAIN pending : i + Len(sent) \in DOMAIN all /\ all[i + Len(sent)] = pending[i]
                               /\ pending[i] \in Nat
  BY <1>1
<1> HIDE DEF all
<1>5. ASSUME NEW i \in DOMAIN all, NEW j \in DOMAIN all, i < j PROVE all[i] < all[j]
  <2>1. CASE j \in DOMAIN sent
    <3>1. i \in DOMAIN sent
      BY <1>1, <1>5, <2>1
    <3> QED  BY <1>2, <1>5, <2>1, <3>1 DEF Increasing
  <2>2. CASE i \in DOMAIN sent /\ j \notin DOMAIN sent
    BY <1>2, <1>3, <2>2 DEF Before
  <2>3. CASE i \notin DOMAIN sent
    <3>1. j \notin DOMAIN sent
      BY <1>1, <1>5, <2>3
    <3>2. i - Len(sent) < j - Len(sent)
      BY <1>1, <1>5
    <3> QED  BY <1>3, <2>3, <3>1, <3>2 DEF Increasing
  <2> QED  BY <2>1, <2>2, <2>3
<1>6. UpTo(all, n)
  BY <1>2, <1>3 DEF UpTo
<1>7. ToSet(all) = ToSet(sent) \cup ToSet(pending)
  <2>1. ASSUME NEW k \in ToSet(all) PROVE k \in ToSet(sent) \cup ToSet(pending)
    BY <1>2, <1>3 DEF ToSet
  <2>2. ASSUME NEW k \in ToSet(sent) PROVE k \in ToSet(all)
    BY <1>1, <1>2 DEF ToSet
  <2>3. ASSUME NEW k \in ToSet(pending) PROVE k \in ToSet(all)
    BY <1>4 DEF ToSet
  <2> QED  BY <2>1, <2>2, <2>3
<1> QED  BY <1>5, <1>6, <1>7 DEF Increasing, all

\* Nothing is before or after nothing.
LEMMA EmptyLemma ==
  /\ <<>> \in Seq(Nat) /\ Increasing(<<>>) /\ ToSet(<<>>) = {}
  /\ \A n \in Nat : UpTo(<<>>, n)
  /\ \A chunks : Before(chunks, <<>>)
BY DEF Increasing, UpTo, Before, ToSet

LEMMA ChunksLemma == \A chunks \in Seq(Chunks) : chunks \in Seq(Nat)
BY BoundsAssumption DEF Chunks
-----------------------------------------------------------------------------
(* What the operators on the variables of the session do to its audio. *)

LEMMA StopAudio ==
  ASSUME NEW s \in Session, NEW r \in Results
  PROVE  Stop(s, r).pending = <<>> /\ Stop(s, r).isDone
BY DEF Stop, Session

LEMMA ConnectAudio ==
  ASSUME NEW s \in Session
  PROVE  /\ Connect(s).pending = s.pending /\ ~Connect(s).isReady
         /\ Connect(s).isDone = s.isDone
BY DEF Connect, Session

LEMMA ReconnectAudio ==
  ASSUME NEW s \in Session
  PROVE  /\ ScheduleReconnect(s).pending = s.pending /\ ScheduleReconnect(s).isReady = s.isReady
         /\ ScheduleReconnect(s).isDone = s.isDone /\ ScheduleReconnect(s).socket = s.socket
BY DEF ScheduleReconnect, Session

LEMMA ReplaceAudio ==
  ASSUME NEW s \in Session, NEW finished \in BOOLEAN, ~s.isReady
  PROVE  /\ Replace(s, finished).pending = s.pending \/ Replace(s, finished).isDone
         /\ Replace(s, finished).pending \in {s.pending, <<>>}
         /\ ~Replace(s, finished).isReady \/ Replace(s, finished).isDone
<1> DEFINE next == [s EXCEPT !.isRollingOver = FALSE]
<1>1. next \in Session /\ next.pending = s.pending /\ next.isReady = s.isReady
  BY DEF Session
<1>2. \/ Replace(s, finished) = Connect(next)
      \/ Replace(s, finished) = Stop(next, "failed")
      \/ Replace(s, finished) = ScheduleReconnect(next)
  BY DEF Replace
<1> HIDE DEF next
<1>3. CASE Replace(s, finished) = Connect(next)
  BY <1>1, <1>3, ConnectAudio
<1>4. CASE Replace(s, finished) = Stop(next, "failed")
  BY <1>1, <1>4, StopAudio DEF Results
<1>5. CASE Replace(s, finished) = ScheduleReconnect(next)
  BY <1>1, <1>5, ReconnectAudio
<1> QED  BY <1>2, <1>3, <1>4, <1>5
-----------------------------------------------------------------------------
(* Every action preserves the invariant. *)

USE DEF IInv, AInv

\* A step that neither records nor sends keeps the order, and what it discards it discards because
\* the session is over.
LEMMA QuietLemma ==
  ASSUME IInv, Order, AudioIsKept,
         tape'.sent = tape.sent, tape'.recorded = tape.recorded, tape'.overflow = tape.overflow,
         session'.pending \in {session.pending, <<>>},
         session'.isDone \/ (session'.pending = session.pending /\ ~session.isDone)
  PROVE  Order' /\ AudioIsKept'
<1>1. tape.recorded \in Nat /\ session.pending \in Seq(Nat)
  BY ChunksLemma DEF Types, Tape, Session
<1>2. Order'
  BY <1>1, EmptyLemma DEF Order
<1>3. ASSUME ~session'.isDone PROVE AudioIsKept'
  BY <1>3 DEF AudioIsKept, SentChunks
<1>4. ASSUME session'.isDone PROVE AudioIsKept'
  BY <1>4 DEF AudioIsKept
<1> QED  BY <1>2, <1>3, <1>4

\* A step that leaves the session what it was and tells nobody to finish keeps it listening.
LEMMA ListensLemma ==
  ASSUME IInv, Listens,
         session'.isReady = session.isReady, session'.isDone = session.isDone,
         session'.isStopping = session.isStopping, session'.socket = session.socket,
         session'.pending = session.pending,
         \A c \in Conns : /\ net'[c].ready = net[c].ready /\ net'[c].finishSent = net[c].finishSent
                          /\ net'[c].state = "open" => net[c].state = "open"
  PROVE  Listens'
<1>1. session.socket # 0 => session.socket \in Conns
  BY DEF Types, Session
<1>2. CanSend(session)' => CanSend(session)
  BY <1>1 DEF CanSend
<1> QED  BY <1>1, <1>2 DEF Listens

\* A session that is over, or not ready, has nothing to listen to.
LEMMA NotReadyLemma ==
  ASSUME IInv', session'.isDone \/ ~session'.isReady,
         \A c \in Conns : net'[c].finishSent => net'[c].ready
  PROVE  Listens'
<1>1. session'.isDone => session'.socket = 0
  BY DEF Ownership
<1>2. ~CanSend(session)'
  BY <1>1 DEF CanSend
<1> QED  BY <1>2 DEF Listens

LEMMA FinishConnAudio ==
  ASSUME NEW conn \in Connection
  PROVE  FinishConn(conn).ready = conn.ready
BY DEF FinishConn, Connection

LEMMA SendAudioAudio ==
  ASSUME IInv, AInv, IInv', NEW quiet \in BOOLEAN, SendAudio(quiet)
  PROVE  AInv'
<1> DEFINE chunk == tape.recorded + 1
<1>1. /\ tape.recorded \in Nat /\ chunk \in Nat /\ chunk > tape.recorded
      /\ session.pending \in Seq(Nat) /\ tape.sent \in Seq(Nat)
  BY ChunksLemma DEF Types, Tape, Session
<1>2. 1..chunk = 1..tape.recorded \cup {chunk}
  BY <1>1
<1>3. ~session.isDone /\ ~session.isStopping /\ UNCHANGED <<timers, net, budget>>
  BY DEF SendAudio
<1>4. tape'.recorded = chunk
  <2> DEFINE sent == IF Takes(net[session.socket]) THEN Append(tape.sent, chunk) ELSE tape.sent
             overflow == IF Len(session.pending) >= MaxPending
                         THEN tape.overflow \cup {Head(session.pending)} ELSE tape.overflow
  <2>1. \/ tape' = [tape EXCEPT !.recorded = chunk, !.sent = sent]
        \/ tape' = [tape EXCEPT !.recorded = chunk, !.overflow = overflow]
    BY DEF SendAudio
  <2> HIDE DEF chunk, sent, overflow
  <2> QED  BY <2>1 DEF Types, Tape
<1>5. CASE CanSend(session)
  <2>1. Takes(net[session.socket])
    BY <1>3, <1>5 DEF CanSend, AInv, Listens, Takes
  <2>2. session.pending = <<>> /\ session' = session
    BY <1>5 DEF AInv, Listens, SendAudio
  <2>3. tape'.sent = Append(tape.sent, chunk) /\ tape'.overflow = tape.overflow
    <3>1. tape' = [tape EXCEPT !.recorded = chunk, !.sent = Append(tape.sent, chunk)]
      BY <1>5, <2>1 DEF SendAudio
    <3> HIDE DEF chunk
    <3> QED  BY <3>1 DEF Types, Tape
  <2> HIDE DEF chunk
  <2>4. Increasing(tape'.sent) /\ UpTo(tape'.sent, chunk) /\ ToSet(tape'.sent) = ToSet(tape.sent) \cup {chunk}
    BY <1>1, <2>3, AppendLemma DEF AInv, Order
  <2>5. Order'
    BY <1>1, <1>4, <2>2, <2>4, EmptyLemma DEF Order
  <2>6. AudioIsKept'
    BY <1>2, <1>3, <1>4, <2>2, <2>3, <2>4, EmptyLemma DEF AInv, AudioIsKept, SentChunks
  <2>7. Listens'
    BY <1>3, <2>2, ListensLemma DEF AInv
  <2> QED  BY <2>5, <2>6, <2>7 DEF AInv
<1>6. CASE ~CanSend(session)
  <2> DEFINE kept == IF Len(session.pending) >= MaxPending THEN Tail(session.pending)
                     ELSE session.pending
             dropped == IF Len(session.pending) >= MaxPending THEN {Head(session.pending)} ELSE {}
  <2>1. /\ session'.pending = Keep(session.pending, chunk)
        /\ session'.isDone = session.isDone /\ session'.isReady = session.isReady
        /\ session'.socket = session.socket /\ session'.isStopping = session.isStopping
    <3>1. session' = [session EXCEPT !.pending = Keep(session.pending, chunk)]
      BY <1>6 DEF SendAudio
    <3> HIDE DEF chunk
    <3> QED  BY <3>1 DEF Types, Session
  <2>2. tape' = [tape EXCEPT !.recorded = chunk, !.overflow = tape.overflow \cup dropped]
    BY <1>6 DEF SendAudio, Types, Tape
  <2> HIDE DEF dropped
  <2>3. tape'.sent = tape.sent /\ tape'.overflow = tape.overflow \cup dropped
    <3> HIDE DEF chunk
    <3> QED  BY <2>2 DEF Types, Tape
  <2> USE DEF dropped
  <2>4. Keep(session.pending, chunk) = Append(kept, chunk)
    BY DEF Keep
  <2> HIDE DEF chunk
  <2>5. /\ kept \in Seq(Nat) /\ Increasing(kept) /\ UpTo(kept, tape.recorded)
        /\ ToSet(session.pending) = ToSet(kept) \cup dropped
        /\ \A k \in dropped, p \in ToSet(kept) : k < p
        /\ ToSet(kept) \subseteq ToSet(session.pending)
        /\ dropped \subseteq ToSet(session.pending)
    <3>1. CASE Len(session.pending) >= MaxPending
      <4>1. session.pending # <<>>
        BY <3>1, LimitsAssumption
      <4> QED  BY <1>1, <3>1, <4>1, TailLemma DEF AInv, Order
    <3>2. CASE ~(Len(session.pending) >= MaxPending)
      BY <1>1, <3>2 DEF AInv, Order
    <3> QED  BY <3>1, <3>2
  <2>6. \A k \in ToSet(session.pending) : k <= tape.recorded
    BY DEF AInv, Order, UpTo, ToSet
  <2>7. \A k \in tape.overflow : k <= tape.recorded
    BY <1>1, <1>3 DEF AInv, AudioIsKept
  <2>8. \A i \in DOMAIN tape.sent, p \in ToSet(session.pending) : tape.sent[i] < p
    BY DEF AInv, Order, Before, ToSet
  <2> HIDE DEF kept, dropped
  <2>9. /\ Increasing(Append(kept, chunk)) /\ UpTo(Append(kept, chunk), chunk)
        /\ ToSet(Append(kept, chunk)) = ToSet(kept) \cup {chunk}
    BY <1>1, <2>5, AppendLemma DEF chunk
  <2>10. \A i \in DOMAIN Append(kept, chunk) : Append(kept, chunk)[i] \in ToSet(kept) \cup {chunk}
    BY <2>9 DEF ToSet
  <2>11. \A i \in DOMAIN tape.sent : tape.sent[i] < chunk /\ tape.sent[i] <= chunk /\ tape.sent[i] \in Nat
    BY <1>1 DEF AInv, Order, UpTo, chunk
  <2>12. Before(tape.sent, Append(kept, chunk))
    BY <2>5, <2>8, <2>10, <2>11 DEF Before
  <2>13. UpTo(tape.sent, chunk)
    BY <2>11 DEF UpTo
  <2>14. Order'
    BY <1>4, <2>1, <2>2, <2>4, <2>9, <2>12, <2>13 DEF AInv, Order
  <2>15. 1..chunk = ToSet(tape.sent) \cup (ToSet(kept) \cup {chunk}) \cup (tape.overflow \cup dropped)
    BY <1>2, <1>3, <2>5 DEF AInv, AudioIsKept, SentChunks
  <2>16. \A k \in tape.overflow, p \in ToSet(kept) : k < p
    BY <1>3, <2>5 DEF AInv, AudioIsKept
  <2>17. \A k \in tape.overflow \cup dropped : k <= tape.recorded
    BY <2>5, <2>6, <2>7
  <2>18. tape.overflow \cup dropped \subseteq Nat
    BY <2>15, <1>1
  <2>19. \A k \in tape.overflow \cup dropped, p \in ToSet(kept) \cup {chunk} : k < p
    BY <1>1, <2>5, <2>16, <2>17, <2>18 DEF chunk
  <2>20. AudioIsKept'
    BY <1>4, <2>1, <2>2, <2>3, <2>4, <2>9, <2>15, <2>19 DEF AudioIsKept, SentChunks
  <2>21. Listens'
    BY <1>3, <1>6, <2>1 DEF AInv, Listens, CanSend
  <2> QED  BY <2>14, <2>20, <2>21 DEF AInv
<1> QED  BY <1>5, <1>6

LEMMA ReconnectTimerAudio ==
  ASSUME IInv, AInv, IInv', ReconnectTimer
  PROVE  AInv'
<1> DEFINE s == [session EXCEPT !.waiting = session.waiting - 1]
<1>1. s \in Session /\ s.pending = session.pending /\ s.isDone = session.isDone
  <2>1. session.waiting - 1 \in Nat /\ session \in Session
    BY DEF ReconnectTimer, Types, Session
  <2> QED  BY <2>1 DEF Session
<1>2. session' = IF s.isDone THEN s ELSE Connect(s)
  BY DEF ReconnectTimer
<1>3. UNCHANGED <<net, tape>>
  BY DEF ReconnectTimer
<1> HIDE DEF s
<1>4. session'.pending = session.pending /\ session'.isDone = session.isDone
      /\ (session'.isDone \/ ~session'.isReady)
  <2>1. CASE s.isDone
    <3>1. session' = s
      BY <1>2, <2>1
    <3> QED  BY <1>1, <2>1, <3>1
  <2>2. CASE ~s.isDone
    <3>1. session' = Connect(s)
      BY <1>2, <2>2
    <3> QED  BY <1>1, <3>1, ConnectAudio
  <2> QED  BY <2>1, <2>2
<1>5. Order' /\ AudioIsKept'
  BY <1>3, <1>4, QuietLemma
<1>6. Listens'
  BY <1>3, <1>4, NotReadyLemma DEF Listens
<1> QED  BY <1>5, <1>6

LEMMA ConnectFailsAudio ==
  ASSUME IInv, AInv, IInv', NEW inUse \in BOOLEAN, ConnectFails(inUse)
  PROVE  AInv'
<1> DEFINE s == [session EXCEPT !.connecting = session.connecting - 1]
<1>1. s \in Session /\ s.pending = session.pending /\ s.isDone = session.isDone
      /\ s.isReady = session.isReady
  <2>1. session.connecting - 1 \in Nat /\ session \in Session
    BY DEF ConnectFails, Types, Session
  <2> QED  BY <2>1 DEF Session
<1>2. \/ s.isDone /\ session' = s
      \/ session' = Stop(s, "failed")
      \/ ~s.isDone /\ session' = ScheduleReconnect(s)
  BY DEF ConnectFails
<1>3. net' = net /\ tape' = [tape EXCEPT !.inRow = tape.inRow + 1] /\ session.connecting > 0
  BY DEF ConnectFails
<1>4. tape'.sent = tape.sent /\ tape'.recorded = tape.recorded /\ tape'.overflow = tape.overflow
  BY <1>3 DEF Types, Tape
<1>5. session.socket = 0
  BY <1>3 DEF Ownership, Alive, Types, Session
<1> HIDE DEF s
<1>6. \/ session'.isDone /\ session'.pending \in {session.pending, <<>>}
      \/ session'.pending = session.pending /\ ~session.isDone /\ session'.isReady = session.isReady
  <2>1. CASE s.isDone /\ session' = s
    BY <1>1, <2>1
  <2>2. CASE session' = Stop(s, "failed")
    BY <1>1, <2>2, StopAudio DEF Results
  <2>3. CASE ~s.isDone /\ session' = ScheduleReconnect(s)
    BY <1>1, <2>3, ReconnectAudio
  <2> QED  BY <1>2, <2>1, <2>2, <2>3
<1>7. Order' /\ AudioIsKept'
  BY <1>4, <1>6, QuietLemma
<1>8. session'.isDone \/ ~session'.isReady
  BY <1>5, <1>6 DEF Listens
<1>9. Listens'
  BY <1>3, <1>8, NotReadyLemma DEF Listens
<1> QED  BY <1>7, <1>9

LEMMA RolloverTimerAudio ==
  ASSUME IInv, AInv, IInv', NEW t \in timers, RolloverTimer(t)
  PROVE  AInv'
<1>1. UNCHANGED tape
  BY DEF RolloverTimer
<1>2. session.socket \in Conns
  BY DEF TimersOfThisConnection, Types, Timer
<1>3. CASE UNCHANGED <<session, net>>
  <2>1. Order' /\ AudioIsKept'
    BY <1>1, <1>3, QuietLemma
  <2>2. Listens'
    BY <1>3, ListensLemma
  <2> QED  BY <2>1, <2>2
<1>4. CASE /\ ~session.isDone /\ session.isReady
           /\ session' = RollOver(session)
           /\ net' = [net EXCEPT ![session.socket] = FinishConn(net[session.socket])]
  <2>1. session'.pending = session.pending /\ ~session'.isReady
    BY <1>4 DEF RollOver, Types, Session
  <2>2. FinishConn(net[session.socket]).ready = net[session.socket].ready
    BY <1>2, FinishConnAudio DEF Types
  <2>3. net[session.socket].ready
    BY <1>4 DEF Listens
  <2>4. \A c \in Conns : net'[c].finishSent => net'[c].ready
    BY <1>2, <1>4, <2>2, <2>3 DEF Listens, Types
  <2>5. Order' /\ AudioIsKept'
    BY <1>1, <1>4, <2>1, QuietLemma
  <2>6. Listens'
    BY <2>1, <2>4, NotReadyLemma
  <2> QED  BY <2>5, <2>6
<1> QED  BY <1>3, <1>4 DEF RolloverTimer

LEMMA FinishTimerAudio ==
  ASSUME IInv, AInv, IInv', NEW t \in timers, FinishTimer(t)
  PROVE  AInv'
<1>1. UNCHANGED <<session, tape>>
  BY DEF FinishTimer
<1>2. session.socket \in Conns
  BY DEF TimersOfThisConnection, Types, Timer
<1>3. net' = [net EXCEPT ![session.socket] = [net[session.socket] EXCEPT !.state = "closing"]]
  BY <1>2 DEF FinishTimer, Conns
<1>4. \A c \in Conns : /\ net'[c].ready = net[c].ready /\ net'[c].finishSent = net[c].finishSent
                       /\ net'[c].state = "open" => net[c].state = "open"
  BY <1>2, <1>3 DEF Types, Connection
<1>5. Order' /\ AudioIsKept'
  BY <1>1, QuietLemma
<1>6. Listens'
  BY <1>1, <1>4, ListensLemma
<1> QED  BY <1>5, <1>6

LEMMA FinishAudio ==
  ASSUME IInv, AInv, IInv', Finish
  PROVE  AInv'
<1> DEFINE s == [session EXCEPT !.isStopping = TRUE]
<1>1. /\ s \in Session /\ s.socket = session.socket /\ s.isDone = session.isDone
      /\ s.pending = session.pending /\ s.isReady = session.isReady /\ s.isStopping
  BY DEF Types, Session
<1>2. UNCHANGED tape /\ ~session.isDone
  BY <1>1 DEF Finish
<1>3. \/ s.isReady /\ s.socket # 0 /\ session' = s /\ SendFinish(s.socket)
      \/ session' = s /\ net' = net
      \/ session' = Stop(s, "ok") /\ net' = net
  BY DEF Finish
<1> HIDE DEF s
<1>4. CASE s.isReady /\ s.socket # 0 /\ session' = s /\ SendFinish(s.socket)
  <2>1. session.socket \in Conns
    BY <1>1, <1>4 DEF Session
  <2>2. net' = [net EXCEPT ![session.socket] = FinishConn(net[session.socket])]
    BY <1>1, <1>4 DEF SendFinish
  <2>3. /\ FinishConn(net[session.socket]).ready = net[session.socket].ready
        /\ FinishConn(net[session.socket]).state = net[session.socket].state
    BY <2>1, FinishConnAudio, FinishConnLemma DEF Types
  <2>4. net[session.socket].ready
    BY <1>1, <1>2, <1>4 DEF Listens
  <2>5. \A c \in Conns : net'[c].ready = net[c].ready /\ net'[c].state = net[c].state
                         /\ (net'[c].finishSent => net'[c].ready)
    BY <2>1, <2>2, <2>3, <2>4 DEF Listens, Types
  <2>6. Order' /\ AudioIsKept'
    BY <1>1, <1>2, <1>4, QuietLemma
  <2>7. Listens'
    BY <1>1, <1>4, <2>1, <2>5 DEF Listens, CanSend
  <2> QED  BY <2>6, <2>7
<1>5. CASE session' = s /\ net' = net
  <2>1. Order' /\ AudioIsKept'
    BY <1>1, <1>2, <1>5, QuietLemma
  <2>2. Listens'
    BY <1>1, <1>5 DEF Listens, CanSend
  <2> QED  BY <2>1, <2>2
<1>6. CASE session' = Stop(s, "ok") /\ net' = net
  <2>1. session'.pending = <<>> /\ session'.isDone
    BY <1>1, <1>6, StopAudio DEF Results
  <2>2. Order' /\ AudioIsKept'
    BY <1>2, <2>1, QuietLemma
  <2>3. Listens'
    BY <1>6, <2>1, NotReadyLemma DEF Listens
  <2> QED  BY <2>2, <2>3
<1> QED  BY <1>3, <1>4, <1>5, <1>6

LEMMA DisposeAudio ==
  ASSUME IInv, AInv, IInv', Dispose
  PROVE  AInv'
<1>1. UNCHANGED tape
  BY DEF Dispose
<1>2. session'.isDone /\ session'.pending = session.pending
  BY DEF Dispose, Types, Session
<1>3. \/ net' = net
      \/ /\ session.socket \in Conns
         /\ net' = [net EXCEPT ![session.socket] = [net[session.socket] EXCEPT !.state = "closing"]]
  BY DEF Dispose, Types, Session
<1>4. \A c \in Conns : net'[c].finishSent => net'[c].ready
  BY <1>3 DEF Listens, Types, Connection
<1>5. Order' /\ AudioIsKept'
  BY <1>1, <1>2, QuietLemma
<1>6. Listens'
  BY <1>2, <1>4, NotReadyLemma
<1> QED  BY <1>5, <1>6

LEMMA ConnectedAudio ==
  ASSUME IInv, AInv, IInv', NEW c \in Conns, Connected(c)
  PROVE  AInv'
<1> DEFINE state == IF session.isDone THEN "closing" ELSE "open"
<1>1. UNCHANGED tape /\ session.connecting > 0
  BY DEF Connected
<1>2. session.socket = 0
  BY <1>1 DEF Ownership, Alive, Types, Session
<1>3. session'.pending = session.pending /\ session'.isDone = session.isDone
      /\ session'.isReady = session.isReady
  BY DEF Connected, Types, Session
<1>4. net' = [net EXCEPT ![c] = [net[c] EXCEPT !.state = state]]
  BY DEF Connected
<1> HIDE DEF state
<1>5. \A d \in Conns : net'[d].finishSent => net'[d].ready
  BY <1>4 DEF Listens, Types, Connection
<1>6. Order' /\ AudioIsKept'
  BY <1>1, <1>3, QuietLemma
<1>7. session'.isDone \/ ~session'.isReady
  BY <1>2, <1>3 DEF Listens
<1>8. Listens'
  BY <1>5, <1>7, NotReadyLemma
<1> QED  BY <1>6, <1>8

LEMMA ReadyAudio ==
  ASSUME IInv, AInv, IInv', NEW c \in Conns, Ready(c)
  PROVE  AInv'
<1> DEFINE conn == [net[c] EXCEPT !.ready = TRUE]
<1>1. net[c].state = "open" /\ ~net[c].ready /\ ~net[c].finishSent
  BY DEF Ready, Listens
<1>2. session.socket = c /\ c # 0 /\ ~session.isDone
  BY <1>1 DEF Ownership, Conns
<1>3. /\ conn \in Connection /\ conn.ready /\ ~conn.finishSent /\ conn.state = "open"
  BY <1>1 DEF Types, Connection
<1>4. Takes(conn)
  BY <1>3 DEF Takes
<1>5. FinishConn(conn).ready
  BY <1>3, FinishConnAudio
<1>6. net' = [net EXCEPT ![c] = IF session.isStopping THEN FinishConn(conn) ELSE conn]
  BY <1>2 DEF Ready
<1>7. /\ session' = [session EXCEPT !.pending = <<>>, !.isReady = TRUE, !.reconnects = 0]
      /\ tape' = [tape EXCEPT !.late = @ \/ session.isDone, !.inRow = 0,
                    !.sent = tape.sent \o session.pending]
  <2> HIDE DEF conn
  <2>1. session' = [AfterFlush(session) EXCEPT !.isReady = TRUE, !.reconnects = 0]
    BY <1>2 DEF Ready
  <2>2. tape' = [Called(tape) EXCEPT !.inRow = 0, !.sent = tape.sent \o session.pending]
    BY <1>2, <1>4 DEF Ready, conn, Called
  <2> QED  BY <2>1, <2>2 DEF AfterFlush, Called, Types, Session, Tape
<1> HIDE DEF conn
<1>8. /\ session'.pending = <<>> /\ session'.isDone = session.isDone
      /\ session'.socket = c /\ session'.isStopping = session.isStopping
  BY <1>2, <1>7 DEF Types, Session
<1>9. /\ tape'.sent = tape.sent \o session.pending /\ tape'.recorded = tape.recorded
      /\ tape'.overflow = tape.overflow
  BY <1>7 DEF Types, Tape
<1>10. tape.recorded \in Nat /\ tape.sent \in Seq(Nat) /\ session.pending \in Seq(Nat)
  BY ChunksLemma DEF Types, Tape, Session
<1>11. /\ Increasing(tape'.sent) /\ UpTo(tape'.sent, tape.recorded)
       /\ ToSet(tape'.sent) = ToSet(tape.sent) \cup ToSet(session.pending)
  BY <1>9, <1>10, ConcatLemma DEF Order
<1>12. Order'
  BY <1>8, <1>9, <1>10, <1>11, EmptyLemma DEF Order
<1>13. AudioIsKept'
  BY <1>2, <1>8, <1>9, <1>11, EmptyLemma DEF AudioIsKept, SentChunks
<1>14. net'[c].ready /\ (~session.isStopping => ~net'[c].finishSent)
       /\ \A d \in Conns : d # c => net'[d] = net[d]
  BY <1>3, <1>5, <1>6 DEF Types
<1>15. Listens'
  BY <1>2, <1>8, <1>14 DEF Listens
<1> QED  BY <1>12, <1>13, <1>15

LEMMA MessageAudio ==
  ASSUME IInv, AInv, IInv', NEW c \in Conns, NEW b \in BOOLEAN,
         Finished(c) \/ Transcript(c) \/ Closing(c) \/ ErrorMessage(c, b)
  PROVE  AInv'
<1>1. session' = session \/ session' = [session EXCEPT !.fatal = b]
  BY DEF Finished, Transcript, Closing, ErrorMessage
<1>2. /\ session'.isReady = session.isReady /\ session'.isDone = session.isDone
      /\ session'.isStopping = session.isStopping /\ session'.socket = session.socket
      /\ session'.pending = session.pending
  BY <1>1 DEF Types, Session
<1>3. tape' = tape \/ tape' = [tape EXCEPT !.late = tape.late \/ session.isDone]
  BY DEF Finished, Transcript, Closing, ErrorMessage, Called
<1>4. tape'.sent = tape.sent /\ tape'.recorded = tape.recorded /\ tape'.overflow = tape.overflow
  BY <1>3 DEF Types, Tape
<1>5. \/ net' = net
      \/ net' = [net EXCEPT ![c] = [net[c] EXCEPT !.finished = TRUE]]
      \/ net' = [net EXCEPT ![c] = [net[c] EXCEPT !.state = "closing"]]
  BY DEF Finished, Transcript, Closing, ErrorMessage
<1>6. \A d \in Conns : /\ net'[d].ready = net[d].ready /\ net'[d].finishSent = net[d].finishSent
                       /\ net'[d].state = "open" => net[d].state = "open"
  BY <1>5 DEF Types, Connection
<1>7. Order' /\ AudioIsKept'
  BY <1>2, <1>4, QuietLemma
<1>8. Listens'
  BY <1>2, <1>6, ListensLemma
<1> QED  BY <1>7, <1>8

LEMMA ClosedAudio ==
  ASSUME IInv, AInv, IInv', NEW c \in Conns, NEW inUse \in BOOLEAN, Closed(c, inUse)
  PROVE  AInv'
<1>1. net' = [net EXCEPT ![c] = [net[c] EXCEPT !.state = "closed"]] /\ net[c].state = "closing"
  BY DEF Closed
<1>2. \A d \in Conns : /\ net'[d].ready = net[d].ready /\ net'[d].finishSent = net[d].finishSent
                       /\ net'[d].state = "open" => net[d].state = "open"
  BY <1>1 DEF Types, Connection
<1>3. CASE session.socket # c
  <2>1. UNCHANGED <<session, tape>>
    BY <1>3 DEF Closed
  <2>2. Order' /\ AudioIsKept'
    BY <2>1, QuietLemma
  <2>3. Listens'
    BY <1>2, <2>1, ListensLemma
  <2> QED  BY <2>2, <2>3
<1>4. CASE session.socket = c
  <2> DEFINE idle == [session EXCEPT !.socket = 0]
             s == [idle EXCEPT !.isReady = FALSE]
  <2>1. ~session.isDone
    BY <1>4 DEF Ownership, Conns
  <2>2. idle \in Session /\ idle.isDone = session.isDone /\ idle.pending = session.pending
    BY DEF Types, Session
  <2>3. s = [session EXCEPT !.socket = 0, !.isReady = FALSE]
    OBVIOUS
  <2> HIDE DEF idle
  <2>4. s \in Session /\ ~s.isDone /\ ~s.isReady /\ s.pending = session.pending
    BY <2>1, <2>2 DEF Session
  <2> HIDE DEF s
  <2>5. /\ session' = IF s.isDone THEN s
                      ELSE IF inUse \/ s.fatal THEN Stop(s, "failed")
                      ELSE IF IsFinished(c) THEN Stop(s, "ok")
                      ELSE Replace(s, net[c].finished)
        /\ tape' = tape \/ tape' = [tape EXCEPT !.inRow = tape.inRow + 1]
    BY <1>4, <2>3 DEF Closed
  <2>6. net[c].finished \in BOOLEAN
    BY DEF Types, Connection
  <2>7. \/ session'.isDone /\ session'.pending \in {session.pending, <<>>}
        \/ session'.pending = session.pending /\ ~session'.isReady
    <3>1. CASE session' = Stop(s, "failed")
      BY <2>4, <3>1, StopAudio DEF Results
    <3>2. CASE session' = Stop(s, "ok")
      BY <2>4, <3>2, StopAudio DEF Results
    <3>3. CASE session' = Replace(s, net[c].finished)
      BY <2>4, <2>6, <3>3, ReplaceAudio
    <3> QED  BY <2>4, <2>5, <3>1, <3>2, <3>3
  <2>8. tape'.sent = tape.sent /\ tape'.recorded = tape.recorded /\ tape'.overflow = tape.overflow
    BY <2>5 DEF Types, Tape
  <2>9. Order' /\ AudioIsKept'
    BY <2>1, <2>7, <2>8, QuietLemma
  <2>10. Listens'
    BY <1>2, <2>7, NotReadyLemma DEF Listens
  <2> QED  BY <2>9, <2>10
<1> QED  BY <1>3, <1>4
-----------------------------------------------------------------------------
LEMMA InitAInv == Init => AInv
<1> SUFFICES ASSUME Init PROVE AInv
  OBVIOUS
<1>1. /\ tape.sent = <<>> /\ tape.recorded = 0 /\ tape.overflow = {} /\ session.pending = <<>>
      /\ ~session.isReady /\ \A c \in Conns : ~net[c].finishSent
  BY DEF Init
<1>2. Order
  BY <1>1, EmptyLemma DEF Order
<1>3. 1..0 = {}
  OBVIOUS
<1>4. AudioIsKept
  BY <1>1, <1>3, EmptyLemma DEF AudioIsKept, SentChunks
<1>5. Listens
  BY <1>1 DEF Listens
<1> QED  BY <1>2, <1>4, <1>5

LEMMA NextAInv == IInv /\ AInv /\ [Next]_vars /\ IInv' => AInv'
<1> SUFFICES ASSUME IInv, AInv, [Next]_vars, IInv' PROVE AInv'
  OBVIOUS
<1> HIDE DEF IInv, AInv
<1>1. ASSUME NEW quiet \in BOOLEAN, SendAudio(quiet) PROVE AInv'
  BY <1>1, SendAudioAudio
<1>2. CASE ReconnectTimer
  BY <1>2, ReconnectTimerAudio
<1>3. ASSUME NEW inUse \in BOOLEAN, ConnectFails(inUse) PROVE AInv'
  BY <1>3, ConnectFailsAudio
<1>4. ASSUME NEW t \in timers, RolloverTimer(t) PROVE AInv'
  BY <1>4, RolloverTimerAudio
<1>5. ASSUME NEW t \in timers, FinishTimer(t) PROVE AInv'
  BY <1>5, FinishTimerAudio
<1>6. CASE Finish
  BY <1>6, FinishAudio
<1>7. CASE Dispose
  BY <1>7, DisposeAudio
<1>8. ASSUME NEW c \in Conns, Connected(c) \/ Ready(c) PROVE AInv'
  BY <1>8, ConnectedAudio, ReadyAudio
<1>9. ASSUME NEW c \in Conns, NEW b \in BOOLEAN,
             Finished(c) \/ Transcript(c) \/ Closing(c) \/ ErrorMessage(c, b)
      PROVE AInv'
  BY <1>9, MessageAudio
<1>10. ASSUME NEW c \in Conns, NEW b \in BOOLEAN, Closed(c, b) PROVE AInv'
  BY <1>10, ClosedAudio
<1>11. CASE UNCHANGED vars
  BY <1>11 DEF vars, AInv, Order, AudioIsKept, SentChunks, Listens, CanSend
<1> QED  BY <1>1, <1>2, <1>3, <1>4, <1>5, <1>6, <1>7, <1>8, <1>9, <1>10, <1>11 DEF Next

THEOREM AudioInductive == Spec => []AInv
<1> HIDE DEF IInv, AInv
<1> QED  BY InitAInv, NextAInv, Inductive, PTL DEF Spec

\* However many connections break, are refused or roll over: the server gets the recording in the
\* order it was made, and no part of it twice.
THEOREM AudioInOrderTheorem == Spec => []AudioInOrder
<1>1. AInv => AudioInOrder
  BY DEF Order, Increasing, AudioInOrder
<1> QED  BY <1>1, AudioInductive, PTL

\* As long as the session lives, everything that was recorded was sent to a connection that took
\* it, waits, or was dropped at the limit as the oldest that waited.
THEOREM AudioIsKeptTheorem == Spec => []AudioIsKept
BY AudioInductive, PTL
-----------------------------------------------------------------------------
(* The end that is reported. A connection is told to finish when nothing   *)
(* waits any more, unless it is replaced.                                  *)

\* A connection has finished when it was told to, and the session only tells its connection when
\* it replaces it, or when it stops and everything that waited is sent.
Told ==
  /\ \A c \in Conns : net[c].state = "unused" => ~net[c].finishSent
  /\ \A c \in Conns : net[c].finished => net[c].finishSent
  /\ session.socket # 0 /\ net[session.socket].finishSent /\ ~session.isDone
       => session.isRollingOver \/ (session.isStopping /\ session.pending = <<>>)

\* The step of OkMeansSaved.
OkStep ==
  session.result = "none" /\ session'.result = "ok" =>
    /\ session.socket # 0 => net[session.socket].finished
    /\ session.isRollingOver \/ 1..tape.recorded \subseteq SentChunks \cup tape.overflow

\* What waits is all that is missing.
LEMMA NothingWaitsLemma ==
  ASSUME AInv, ~session.isDone, session.pending = <<>>
  PROVE  1..tape.recorded \subseteq SentChunks \cup tape.overflow
BY EmptyLemma DEF AudioIsKept

\* No connection is told anything new.
LEMMA ToldLemma ==
  ASSUME IInv, Told,
         session'.socket \in {0, session.socket},
         session'.isDone \in {session.isDone, TRUE},
         session'.isRollingOver = session.isRollingOver,
         session'.isStopping = session.isStopping \/ session'.isStopping,
         session'.pending = session.pending \/ ~session.isStopping,
         \A c \in Conns : /\ net'[c].finishSent = net[c].finishSent
                          /\ net'[c].finished => net[c].finished \/ net[c].finishSent
                          /\ net'[c].state = "unused" => net[c].state = "unused"
  PROVE  Told'
<1>1. session.socket # 0 => session.socket \in Conns
  BY DEF Types, Session
<1> QED  BY <1>1 DEF Told

\* A session without a connection has told none.
LEMMA AloneLemma ==
  ASSUME IInv, Told, session'.socket = 0 \/ session'.isDone,
         \A c \in Conns : /\ net'[c].finishSent = net[c].finishSent
                          /\ net'[c].finished = net[c].finished
                          /\ net'[c].state = "unused" => net[c].state = "unused"
  PROVE  Told'
BY DEF Told

LEMMA SendAudioTold ==
  ASSUME IInv, Told, NEW quiet \in BOOLEAN, SendAudio(quiet)
  PROVE  Told' /\ OkStep
<1> DEFINE pending == Keep(session.pending, tape.recorded + 1)
<1>1. session' = session \/ session' = [session EXCEPT !.pending = pending]
  BY DEF SendAudio
<1>2. net' = net /\ ~session.isStopping
  BY DEF SendAudio
<1> HIDE DEF pending
<1>3. /\ session'.socket = session.socket /\ session'.isDone = session.isDone
      /\ session'.isRollingOver = session.isRollingOver /\ session'.result = session.result
      /\ session'.isStopping = session.isStopping
  BY <1>1 DEF Types, Session
<1> QED  BY <1>2, <1>3, ToldLemma DEF OkStep

\* Only a stop ends the session, and only with what it is told.
LEMMA ResultLemma ==
  ASSUME NEW s \in Session, NEW r \in Results
  PROVE  /\ Stop(s, r).result = r /\ Stop(s, r).socket = s.socket /\ Stop(s, r).isDone
         /\ Connect(s).result = s.result /\ Connect(s).socket = s.socket
         /\ ScheduleReconnect(s).result = s.result /\ ScheduleReconnect(s).socket = s.socket
BY DEF Stop, Connect, ScheduleReconnect, Session

LEMMA ReconnectTimerTold ==
  ASSUME IInv, Told, ReconnectTimer
  PROVE  Told' /\ OkStep
<1> DEFINE s == [session EXCEPT !.waiting = session.waiting - 1]
<1>1. session.waiting > 0 /\ session.waiting \in Nat /\ session \in Session /\ net' = net
  BY DEF ReconnectTimer, Types, Session
<1>2. session.socket = 0
  BY <1>1 DEF Ownership, Alive, Types, Session
<1>3. s \in Session /\ s.socket = 0 /\ s.result = session.result
  <2>1. session.waiting - 1 \in Nat
    BY <1>1
  <2> QED  BY <1>1, <1>2, <2>1 DEF Session
<1>4. session' = s \/ session' = Connect(s)
  BY DEF ReconnectTimer
<1> HIDE DEF s
<1>5. session'.socket = 0 /\ session'.result = session.result
  BY <1>3, <1>4, ResultLemma DEF Results
<1> QED  BY <1>1, <1>5, AloneLemma DEF OkStep

LEMMA ConnectFailsTold ==
  ASSUME IInv, Told, NEW inUse \in BOOLEAN, ConnectFails(inUse)
  PROVE  Told' /\ OkStep
<1> DEFINE s == [session EXCEPT !.connecting = session.connecting - 1]
<1>1. session.connecting > 0 /\ session.connecting \in Nat /\ session \in Session /\ net' = net
  BY DEF ConnectFails, Types, Session
<1>2. session.socket = 0
  BY <1>1 DEF Ownership, Alive, Types, Session
<1>3. s \in Session /\ s.socket = 0 /\ s.result = session.result
  <2>1. session.connecting - 1 \in Nat
    BY <1>1
  <2> QED  BY <1>1, <1>2, <2>1 DEF Session
<1>4. session' \in {s, Stop(s, "failed"), ScheduleReconnect(s)}
  BY DEF ConnectFails
<1> HIDE DEF s
<1>5. session'.socket = 0 /\ session'.result \in {session.result, "failed"}
  BY <1>3, <1>4, ResultLemma DEF Results
<1> QED  BY <1>1, <1>5, AloneLemma DEF OkStep

LEMMA RolloverTimerTold ==
  ASSUME IInv, AInv, Told, NEW t \in timers, RolloverTimer(t)
  PROVE  Told' /\ OkStep
<1>1. session.socket \in Conns
  BY DEF TimersOfThisConnection, Types, Timer
<1>2. CASE UNCHANGED <<session, net>>
  BY <1>2, ToldLemma DEF OkStep
<1>3. CASE /\ session' = RollOver(session)
           /\ net' = [net EXCEPT ![session.socket] = FinishConn(net[session.socket])]
  <2>1. session'.isRollingOver /\ session'.result = session.result
    BY <1>3 DEF RollOver, Types, Session
  <2>2. net[session.socket] \in Connection
    BY <1>1 DEF Types
  <2>3. /\ FinishConn(net[session.socket]).state = net[session.socket].state
        /\ FinishConn(net[session.socket]).finished = net[session.socket].finished
        /\ \/ FinishConn(net[session.socket]) = net[session.socket]
           \/ net[session.socket].state = "open" /\ FinishConn(net[session.socket]).finishSent
    BY <2>2 DEF FinishConn, Connection
  <2>4. /\ \A c \in Conns : net'[c].state = "unused" => ~net'[c].finishSent
        /\ \A c \in Conns : net'[c].finished => net'[c].finishSent
    BY <1>1, <1>3, <2>3 DEF Told, Types
  <2> QED  BY <2>1, <2>4 DEF Told, OkStep
<1> QED  BY <1>2, <1>3 DEF RolloverTimer

LEMMA FinishTimerTold ==
  ASSUME IInv, Told, NEW t \in timers, FinishTimer(t)
  PROVE  Told' /\ OkStep
<1>1. session.socket \in Conns /\ session' = session
  BY DEF TimersOfThisConnection, Types, Timer, FinishTimer
<1>2. net' = [net EXCEPT ![session.socket] = [net[session.socket] EXCEPT !.state = "closing"]]
  BY <1>1 DEF FinishTimer, Conns
<1>3. \A c \in Conns : /\ net'[c].finishSent = net[c].finishSent
                       /\ net'[c].finished = net[c].finished
                       /\ net'[c].state = "unused" => net[c].state = "unused"
  BY <1>1, <1>2 DEF Types, Connection
<1> QED  BY <1>1, <1>3, ToldLemma DEF OkStep

LEMMA FinishTold ==
  ASSUME IInv, AInv, Told, Finish
  PROVE  Told' /\ OkStep
<1> DEFINE s == [session EXCEPT !.isStopping = TRUE]
           idle == session.socket = 0 /\ session.pending = <<>>
<1>1. /\ s \in Session /\ s.socket = session.socket /\ s.isDone = session.isDone
      /\ s.pending = session.pending /\ s.isReady = session.isReady /\ s.isStopping
      /\ s.isRollingOver = session.isRollingOver /\ s.result = session.result
  BY DEF Types, Session
<1>2. ~session.isDone /\ ~session.isStopping
  BY <1>1 DEF Finish
<1>3. \/ session.isReady /\ session.socket # 0 /\ session' = s /\ SendFinish(session.socket)
      \/ session' = s /\ net' = net
      \/ idle /\ session' = Stop(s, "ok") /\ net' = net
  BY <1>1 DEF Finish
<1> HIDE DEF s
<1>4. CASE session.isReady /\ session.socket # 0 /\ session' = s /\ SendFinish(session.socket)
  <2>1. session.socket \in Conns
    BY <1>1, <1>4 DEF Session
  <2>2. net' = [net EXCEPT ![session.socket] = FinishConn(net[session.socket])]
    BY <1>4 DEF SendFinish
  <2>3. net[session.socket] \in Connection
    BY <2>1 DEF Types
  <2>4. /\ FinishConn(net[session.socket]).state = net[session.socket].state
        /\ FinishConn(net[session.socket]).finished = net[session.socket].finished
        /\ \/ FinishConn(net[session.socket]) = net[session.socket]
           \/ net[session.socket].state = "open" /\ FinishConn(net[session.socket]).finishSent
    BY <2>3 DEF FinishConn, Connection
  <2>5. /\ \A c \in Conns : net'[c].state = "unused" => ~net'[c].finishSent
        /\ \A c \in Conns : net'[c].finished => net'[c].finishSent
    BY <2>1, <2>2, <2>4 DEF Told, Types
  <2>6. net[session.socket].state = "open" => session.pending = <<>>
    BY <1>2, <1>4 DEF Listens, CanSend
  <2>7. /\ net'[session.socket].finishSent
             => net[session.socket].finishSent \/ net[session.socket].state = "open"
    BY <2>1, <2>2, <2>4 DEF Types
  <2>8. net'[session.socket].finishSent
          => session.isRollingOver \/ session.pending = <<>>
    BY <1>2, <1>4, <2>6, <2>7 DEF Told
  <2>9. Told'
    BY <1>1, <1>4, <2>5, <2>8 DEF Told
  <2> QED  BY <1>1, <1>4, <2>9 DEF OkStep
<1>5. CASE session' = s /\ net' = net
  BY <1>1, <1>2, <1>5, ToldLemma DEF OkStep
<1>6. CASE idle /\ session' = Stop(s, "ok") /\ net' = net
  <2>1. session'.isDone
    BY <1>1, <1>6, ResultLemma DEF Results
  <2>2. Told'
    BY <1>6, <2>1, AloneLemma
  <2>3. OkStep
    BY <1>2, <1>6, NothingWaitsLemma DEF OkStep
  <2> QED  BY <2>2, <2>3
<1> QED  BY <1>3, <1>4, <1>5, <1>6

LEMMA DisposeTold ==
  ASSUME IInv, Told, Dispose
  PROVE  Told' /\ OkStep
<1>1. session'.isDone /\ session'.result = session.result
  BY DEF Dispose, Types, Session
<1>2. \/ net' = net
      \/ /\ session.socket \in Conns
         /\ net' = [net EXCEPT ![session.socket] = [net[session.socket] EXCEPT !.state = "closing"]]
  BY DEF Dispose, Types, Session
<1>3. \A c \in Conns : /\ net'[c].finishSent = net[c].finishSent
                       /\ net'[c].finished = net[c].finished
                       /\ net'[c].state = "unused" => net[c].state = "unused"
  BY <1>2 DEF Types, Connection
<1> QED  BY <1>1, <1>3, AloneLemma DEF OkStep

LEMMA ConnectedTold ==
  ASSUME IInv, Told, NEW c \in Conns, Connected(c)
  PROVE  Told' /\ OkStep
<1> DEFINE state == IF session.isDone THEN "closing" ELSE "open"
<1>1. net[c].state = "unused" /\ ~net[c].finishSent
  BY DEF Connected, IsNext, Told
<1>2. net' = [net EXCEPT ![c] = [net[c] EXCEPT !.state = state]]
  BY DEF Connected
<1>3. session'.isDone = session.isDone /\ session'.result = session.result
      /\ (~session.isDone => session'.socket = c)
  BY DEF Connected, Types, Session
<1>4. state # "unused"
  OBVIOUS
<1> HIDE DEF state
<1>5. \A d \in Conns : /\ net'[d].finishSent = net[d].finishSent
                       /\ net'[d].finished = net[d].finished
                       /\ net'[d].state = "unused" => net[d].state = "unused"
  BY <1>2, <1>4 DEF Types, Connection
<1> QED  BY <1>1, <1>3, <1>5 DEF Told, OkStep

LEMMA ReadyTold ==
  ASSUME IInv, AInv, Told, NEW c \in Conns, Ready(c)
  PROVE  Told' /\ OkStep
<1> DEFINE conn == [net[c] EXCEPT !.ready = TRUE]
<1>1. net[c].state = "open" /\ ~net[c].finishSent
  BY DEF Ready, Listens
<1>2. session.socket = c
  BY <1>1 DEF Ownership
<1>3. /\ conn \in Connection /\ conn.state = "open" /\ ~conn.finishSent
      /\ conn.finished = net[c].finished
  BY <1>1 DEF Types, Connection
<1>4. net' = [net EXCEPT ![c] = IF session.isStopping THEN FinishConn(conn) ELSE conn]
  BY <1>2 DEF Ready
<1>5. session' = [AfterFlush(session) EXCEPT !.isReady = TRUE, !.reconnects = 0]
  BY <1>2 DEF Ready
<1> HIDE DEF conn
<1>6. /\ session'.pending = <<>> /\ session'.isStopping = session.isStopping
      /\ session'.socket = c /\ session'.result = session.result
  BY <1>2, <1>5 DEF AfterFlush, Types, Session
<1>7. FinishConn(conn).state = "open" /\ FinishConn(conn).finishSent
  BY <1>3 DEF FinishConn, Connection
<1>8. /\ net'[c].state = "open" /\ (~session.isStopping => ~net'[c].finishSent)
      /\ \A d \in Conns : d # c => net'[d] = net[d]
  BY <1>3, <1>4, <1>7 DEF Types
<1>9. net'[c].finished = net[c].finished
  <2>1. FinishConn(conn).finished = conn.finished
    BY <1>3 DEF FinishConn, Connection
  <2> QED  BY <1>3, <1>4, <2>1 DEF Types
<1>10. ~net[c].finished
  BY <1>1 DEF Told
<1> QED  BY <1>6, <1>8, <1>9, <1>10 DEF Told, OkStep

LEMMA MessageTold ==
  ASSUME IInv, Told, NEW c \in Conns, NEW b \in BOOLEAN,
         Finished(c) \/ Transcript(c) \/ Closing(c) \/ ErrorMessage(c, b)
  PROVE  Told' /\ OkStep
<1>1. session' = session \/ session' = [session EXCEPT !.fatal = b]
  BY DEF Finished, Transcript, Closing, ErrorMessage
<1>2. /\ session'.isDone = session.isDone /\ session'.isRollingOver = session.isRollingOver
      /\ session'.isStopping = session.isStopping /\ session'.socket = session.socket
      /\ session'.pending = session.pending /\ session'.result = session.result
  BY <1>1 DEF Types, Session
<1>3. \/ net' = net
      \/ net[c].finishSent /\ net' = [net EXCEPT ![c] = [net[c] EXCEPT !.finished = TRUE]]
      \/ net' = [net EXCEPT ![c] = [net[c] EXCEPT !.state = "closing"]]
  BY DEF Finished, Transcript, Closing, ErrorMessage
<1>4. \A d \in Conns : /\ net'[d].finishSent = net[d].finishSent
                       /\ net'[d].finished => net[d].finished \/ net[d].finishSent
                       /\ net'[d].state = "unused" => net[d].state = "unused"
  BY <1>3 DEF Types, Connection
<1> QED  BY <1>2, <1>4, ToldLemma DEF OkStep

LEMMA ClosedTold ==
  ASSUME IInv, AInv, Told, NEW c \in Conns, NEW inUse \in BOOLEAN, Closed(c, inUse)
  PROVE  Told' /\ OkStep
<1>1. net' = [net EXCEPT ![c] = [net[c] EXCEPT !.state = "closed"]]
  BY DEF Closed
<1>2. \A d \in Conns : /\ net'[d].finishSent = net[d].finishSent
                       /\ net'[d].finished = net[d].finished
                       /\ net'[d].state = "unused" => net[d].state = "unused"
  BY <1>1 DEF Types, Connection
<1>3. CASE session.socket # c
  <2>1. session' = session
    BY <1>3 DEF Closed
  <2> QED  BY <1>2, <2>1, ToldLemma DEF OkStep
<1>4. CASE session.socket = c
  <2> DEFINE s == [session EXCEPT !.socket = 0, !.isReady = FALSE]
             next == [s EXCEPT !.isRollingOver = FALSE]
  <2>1. ~session.isDone /\ session.socket # 0
    BY <1>4 DEF Ownership, Conns
  <2>2. s \in Session /\ s.socket = 0 /\ s.result = session.result
    BY DEF Types, Session
  <2>3. next \in Session /\ next.socket = 0 /\ next.result = session.result
    BY DEF Types, Session
  <2>4. \/ session' = s
        \/ session' = Stop(s, "failed")
        \/ IsFinished(c) /\ session' = Stop(s, "ok")
        \/ session' = Replace(s, net[c].finished)
    BY <1>4 DEF Closed
  <2>5. Replace(s, net[c].finished) \in {Connect(next), Stop(next, "failed"), ScheduleReconnect(next)}
    BY DEF Replace
  <2> HIDE DEF s, next
  <2>6. session'.socket = 0 /\ (session'.result \in {session.result, "failed"} \/ IsFinished(c))
    BY <2>2, <2>3, <2>4, <2>5, ResultLemma DEF Results
  <2>7. Told'
    BY <1>2, <2>6, AloneLemma
  <2>8. ASSUME IsFinished(c) PROVE OkStep
    <3>1. net[c].finished /\ net[c].finishSent
      BY <2>8 DEF IsFinished, Told
    <3>2. session.isRollingOver \/ session.pending = <<>>
      BY <1>4, <2>1, <3>1 DEF Told
    <3> QED  BY <1>4, <2>1, <3>1, <3>2, NothingWaitsLemma DEF OkStep
  <2> QED  BY <2>6, <2>7, <2>8 DEF OkStep
<1> QED  BY <1>3, <1>4

LEMMA NextTold == IInv /\ AInv /\ Told /\ [Next]_vars => Told' /\ OkStep
<1> SUFFICES ASSUME IInv, AInv, Told, [Next]_vars PROVE Told' /\ OkStep
  OBVIOUS
<1> HIDE DEF IInv, AInv
<1>1. ASSUME NEW quiet \in BOOLEAN, SendAudio(quiet) PROVE Told' /\ OkStep
  BY <1>1, SendAudioTold
<1>2. CASE ReconnectTimer
  BY <1>2, ReconnectTimerTold
<1>3. ASSUME NEW inUse \in BOOLEAN, ConnectFails(inUse) PROVE Told' /\ OkStep
  BY <1>3, ConnectFailsTold
<1>4. ASSUME NEW t \in timers, RolloverTimer(t) PROVE Told' /\ OkStep
  BY <1>4, RolloverTimerTold
<1>5. ASSUME NEW t \in timers, FinishTimer(t) PROVE Told' /\ OkStep
  BY <1>5, FinishTimerTold
<1>6. CASE Finish
  BY <1>6, FinishTold
<1>7. CASE Dispose
  BY <1>7, DisposeTold
<1>8. ASSUME NEW c \in Conns, Connected(c) \/ Ready(c) PROVE Told' /\ OkStep
  BY <1>8, ConnectedTold, ReadyTold
<1>9. ASSUME NEW c \in Conns, NEW b \in BOOLEAN,
             Finished(c) \/ Transcript(c) \/ Closing(c) \/ ErrorMessage(c, b)
      PROVE Told' /\ OkStep
  BY <1>9, MessageTold
<1>10. ASSUME NEW c \in Conns, NEW b \in BOOLEAN, Closed(c, b) PROVE Told' /\ OkStep
  BY <1>10, ClosedTold
<1>11. CASE UNCHANGED vars
  BY <1>11 DEF vars, Told, OkStep
<1> QED  BY <1>1, <1>2, <1>3, <1>4, <1>5, <1>6, <1>7, <1>8, <1>9, <1>10, <1>11 DEF Next

\* When the session reports "ok", the server has confirmed what it received, and nothing of the
\* recording still waits - unless it was stopped while one connection replaced another.
THEOREM OkMeansSavedTheorem == Spec => OkMeansSaved
<1> HIDE DEF IInv, AInv
<1>1. Init => Told
  BY DEF Init, Told
<1>2. IInv /\ AInv /\ Told /\ [Next]_vars => Told' /\ [OkStep]_vars
  BY NextTold
<1>3. Spec => [][OkStep]_vars
  BY <1>1, <1>2, Inductive, AudioInductive, PTL DEF Spec
<1> QED  BY <1>3 DEF OkMeansSaved, OkStep
=============================================================================
