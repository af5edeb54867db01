--------------------------- MODULE EditLock_proofs ---------------------------
(***************************************************************************)
(* Theorems about EditLock, for any number of editors, visits to the       *)
(* back/forward cache, failures and events of the clock: an editor that    *)
(* shows "granted" has a heartbeat ahead of it, within its deadline it     *)
(* holds the lock at the server, and a lock that is lost stays lost.       *)
(*                                                                         *)
(* The second is not inductive: an answer that is on its way, or a lock    *)
(* that is kept for the next editor, becomes an editor's lock later. When  *)
(* the server's lock is gone and no DELETE of this page took it (Lock),    *)
(* whatever may still become a lock is too late already (NoClaim).         *)
(* The last rests on the heartbeats of an editor being one chain, as long  *)
(* as the page was never left (OneChain).                                  *)
(***************************************************************************)
EXTENDS EditLock, FiniteSetTheorems, TLAPS

Sent == ToSet(requests)

\* "timer" names a timeout that is armed.
Armed(ed) == ed.current => ed.timers > 0

\* Who acquires waits for a POST that is not answered yet.
Waits(e) ==
  /\ Armed(editors[e])
  /\ editors[e].acquiring => /\ Born(e) /\ ~editors[e].initialLeft
                             /\ editors[e].promise # 0 /\ grants[editors[e].promise] = "none"
  /\ ~Born(e) => editors[e].timers = 0 /\ grants[e] = "none"

\* A request belongs to an editor that was mounted, and is answered as the service answers it.
Fits(r) ==
  /\ r.by # 0 => Born(r.by)
  /\ r.why # "handoff" => r.by # 0
  /\ r.why = "beat" => r.answer # "held"

Sane ==
  /\ requests \in Seq(Request)
  /\ \A e \in Editors : Waits(e)
  /\ \A r \in Sent : Fits(r)
  /\ handoff.armed /\ handoff.promise # 0 => grants[handoff.promise] # "ok"

\* The continuation of this request gives the lock to this editor, or to the handoff, or extends it.
Grants(r, e) ==
  /\ r.answer = "ok" /\ Mounted(e)
  /\ \/ r.why = "reacquire" /\ r.by = e
     \/ r.why = "initial" /\ editors[e].acquiring /\ editors[e].promise = r.by
HandsOver(r) == r.answer = "ok" /\ r.why = "initial" /\ handoff.armed /\ handoff.promise = r.by
Extends(r) == r.answer = "ok" /\ r.why = "beat" /\ ~r.stale /\ Mounted(r.by)

\* Nobody counts on the lock, now or when the answers on their way have arrived.
NoClaim ==
  /\ \A e \in Editors : Holds(e) => editors[e].late
  /\ handoff.armed /\ handoff.promise = 0 => handoff.late
  /\ \A r \in Sent : \A e \in Editors : Grants(r, e) => r.stale
  /\ \A r \in Sent : HandsOver(r) => r.stale
  /\ \A r \in Sent : Extends(r) => ~Holds(r.by) /\ \A s \in Sent : ~Grants(s, r.by)

Lock == evicted \/ holder = "me" \/ NoClaim

IInv == TypeOK /\ Sane /\ GrantedBeats /\ Lock
-----------------------------------------------------------------------------
(* Sequences of requests, and what they contain. *)

LEMMA EditorFacts == MaxMounts \in Nat /\ Editors \subseteq Nat /\ 0 \notin Editors
BY BoundsAssumption DEF Editors

LEMMA AppendLemma ==
  ASSUME NEW S, NEW s \in Seq(S), NEW x \in S
  PROVE  Append(s, x) \in Seq(S) /\ ToSet(Append(s, x)) = ToSet(s) \cup {x}
<1>1. Append(s, x) \in Seq(S) /\ Len(s) \in Nat /\ DOMAIN s = 1..Len(s)
      /\ DOMAIN Append(s, x) = 1..(Len(s) + 1)
  OBVIOUS
<1>2. \A k \in DOMAIN s : Append(s, x)[k] = s[k]
  OBVIOUS
<1>3. Append(s, x)[Len(s) + 1] = x
  OBVIOUS
<1>4. \A k \in DOMAIN Append(s, x) : k \in DOMAIN s \/ k = Len(s) + 1
  BY <1>1
<1>5. Len(s) + 1 \in DOMAIN Append(s, x) /\ DOMAIN s \subseteq DOMAIN Append(s, x)
  BY <1>1
<1> QED  BY <1>1, <1>2, <1>3, <1>4, <1>5 DEF ToSet

LEMMA ConcatLemma ==
  ASSUME NEW S, NEW s \in Seq(S), NEW t \in Seq(S)
  PROVE  s \o t \in Seq(S) /\ ToSet(s \o t) = ToSet(s) \cup ToSet(t)
<1>1. /\ s \o t \in Seq(S) /\ Len(s) \in Nat /\ Len(t) \in Nat
      /\ DOMAIN s = 1..Len(s) /\ DOMAIN t = 1..Len(t) /\ DOMAIN (s \o t) = 1..(Len(s) + Len(t))
  OBVIOUS
<1>2. \A k \in DOMAIN s : k \in DOMAIN (s \o t) /\ (s \o t)[k] = s[k]
  BY <1>1
<1>3. \A k \in DOMAIN t : Len(s) + k \in DOMAIN (s \o t) /\ (s \o t)[Len(s) + k] = t[k]
  BY <1>1
<1>4. \A k \in DOMAIN (s \o t) : k \in DOMAIN s \/ \E m \in DOMAIN t : k = Len(s) + m
  <2> SUFFICES ASSUME NEW k \in DOMAIN (s \o t), k \notin DOMAIN s  PROVE \E m \in DOMAIN t : k = Len(s) + m
    OBVIOUS
  <2>1. k - Len(s) \in DOMAIN t /\ k = Len(s) + (k - Len(s))
    BY <1>1
  <2> QED  BY <2>1
<1>5. ToSet(s \o t) \subseteq ToSet(s) \cup ToSet(t)
  BY <1>2, <1>3, <1>4 DEF ToSet
<1>6. ToSet(s) \subseteq ToSet(s \o t) /\ ToSet(t) \subseteq ToSet(s \o t)
  BY <1>2, <1>3 DEF ToSet
<1> QED  BY <1>1, <1>5, <1>6

\* What is taken off is all that goes.
LEMMA RemoveLemma ==
  ASSUME NEW S, NEW s \in Seq(S), NEW i \in DOMAIN s
  PROVE  /\ RemoveAt(s, i) \in Seq(S)
         /\ ToSet(RemoveAt(s, i)) \subseteq ToSet(s)
         /\ ToSet(s) \subseteq ToSet(RemoveAt(s, i)) \cup {s[i]}
<1> DEFINE a == SubSeq(s, 1, i - 1)
           b == SubSeq(s, i + 1, Len(s))
<1>1. Len(s) \in Nat /\ DOMAIN s = 1..Len(s) /\ i \in 1..Len(s)
  OBVIOUS
<1>2. a \in Seq(S) /\ DOMAIN a = 1..(i - 1) /\ \A k \in 1..(i - 1) : a[k] = s[k]
  BY <1>1
<1>3. b \in Seq(S) /\ DOMAIN b = 1..(Len(s) - i) /\ \A k \in 1..(Len(s) - i) : b[k] = s[k + i]
  BY <1>1
<1>4. RemoveAt(s, i) = a \o b
  BY DEF RemoveAt
<1>5. RemoveAt(s, i) \in Seq(S) /\ ToSet(RemoveAt(s, i)) = ToSet(a) \cup ToSet(b)
  BY <1>2, <1>3, <1>4, ConcatLemma
<1>6. ToSet(a) \subseteq ToSet(s)
  BY <1>1, <1>2 DEF ToSet
<1>7. ToSet(b) \subseteq ToSet(s)
  <2>1. \A k \in 1..(Len(s) - i) : k + i \in DOMAIN s
    BY <1>1
  <2> QED  BY <2>1, <1>3 DEF ToSet
<1>8. ASSUME NEW k \in DOMAIN s, k # i  PROVE s[k] \in ToSet(a) \cup ToSet(b)
  <2>1. CASE k < i
    BY <2>1, <1>1, <1>2 DEF ToSet
  <2>2. CASE k > i
    <3>1. k - i \in 1..(Len(s) - i) /\ (k - i) + i = k
      BY <2>2, <1>1
    <3>2. b[k - i] = s[k]
      BY <3>1, <1>3
    <3> QED  BY <3>1, <3>2, <1>3 DEF ToSet
  <2> QED  BY <1>1, <1>8, <2>1, <2>2
<1> HIDE DEF a, b
<1> QED  BY <1>5, <1>6, <1>7, <1>8 DEF ToSet

\* Setting the answer of a request.
LEMMA ReplaceLemma ==
  ASSUME NEW S, NEW s \in Seq(S), NEW i \in DOMAIN s, NEW x \in S
  PROVE  /\ [s EXCEPT ![i] = x] \in Seq(S)
         /\ ToSet([s EXCEPT ![i] = x]) \subseteq ToSet(s) \cup {x} /\ x \in ToSet([s EXCEPT ![i] = x])
         /\ ToSet(s) \subseteq ToSet([s EXCEPT ![i] = x]) \cup {s[i]}
<1> DEFINE t == [s EXCEPT ![i] = x]
<1>1. t \in Seq(S) /\ DOMAIN t = DOMAIN s /\ t[i] = x /\ \A k \in DOMAIN s : k # i => t[k] = s[k]
  OBVIOUS
<1> HIDE DEF t
<1>2. ToSet(t) \subseteq ToSet(s) \cup {x} /\ x \in ToSet(t) /\ ToSet(s) \subseteq ToSet(t) \cup {s[i]}
  BY <1>1 DEF ToSet
<1> QED  BY <1>1, <1>2 DEF t

\* The sequence of a finite set has its elements.
LEMMA SetToSeqLemma ==
  ASSUME NEW S, IsFiniteSet(S)
  PROVE  SetToSeq(S) \in Seq(S) /\ ToSet(SetToSeq(S)) = S
<1> DEFINE n == Cardinality(S)
           f == SetToSeq(S)
<1>1. n \in Nat /\ ExistsBijection(1..n, S)
  BY FS_CardinalityType
<1>2. \E g \in [1..n -> S] : IsInjective(g)
  BY <1>1 DEF ExistsBijection, Bijection, Injection
<1>3. f \in [1..n -> S] /\ IsInjective(f)
  BY <1>2 DEF SetToSeq
<1>4. f \in Injection(1..n, S)
  BY <1>3 DEF Injection
<1>5. Cardinality(1..n) = n /\ IsFiniteSet(1..n)
  BY <1>1, FS_Interval
<1> HIDE DEF f
<1>6. f \in Surjection(1..n, S)
  BY <1>4, <1>5, FS_Injection
<1>7. f \in Seq(S)
  BY <1>1, <1>3
<1>8. ToSet(f) = S
  BY <1>3, <1>6 DEF Surjection, ToSet
<1> QED  BY <1>7, <1>8 DEF f
-----------------------------------------------------------------------------
(* What the callbacks make of an editor. *)

\* A callback neither mounts nor unmounts, and acquires no other POST.
Continues(new, old) ==
  /\ new \in Editor
  /\ new.life = old.life /\ new.promise = old.promise
  /\ new.initialLeft = old.initialLeft /\ new.left = old.left

\* It differs in what no part of the invariant reads, or in left.
Alike(new, old) ==
  /\ new \in Editor
  /\ new.life = old.life /\ new.promise = old.promise /\ new.initialLeft = old.initialLeft
  /\ new.phase = old.phase /\ new.holding = old.holding /\ new.acquiring = old.acquiring
  /\ new.timers = old.timers /\ new.current = old.current /\ new.late = old.late

\* An editor whose leaving is settled differs only in left and returning.
LEMMA ReturnLemma ==
  ASSUME NEW ed \in Editor
  PROVE  Alike([ed EXCEPT !.left = FALSE, !.returning = FALSE], ed)
<1> DEFINE new == [ed EXCEPT !.left = FALSE, !.returning = FALSE]
<1>1. new \in Editor
  BY DEF Editor
<1>2. /\ new.life = ed.life /\ new.promise = ed.promise /\ new.initialLeft = ed.initialLeft
      /\ new.phase = ed.phase /\ new.holding = ed.holding /\ new.acquiring = ed.acquiring
      /\ new.timers = ed.timers /\ new.current = ed.current /\ new.late = ed.late
  BY DEF Editor
<1> QED  BY <1>1, <1>2 DEF Alike

LEMMA ClearLemma ==
  ASSUME NEW ed \in Editor, Armed(ed)
  PROVE  LET new == ClearTimer(ed)
         IN  /\ Continues(new, ed) /\ ~new.current
             /\ new.phase = ed.phase /\ new.holding = ed.holding /\ new.acquiring = ed.acquiring
             /\ new.late = ed.late
<1>1. ed.timers \in Nat /\ (ed.current => ed.timers - 1 \in Nat)
  BY DEF Armed, Editor
<1> QED  BY <1>1 DEF ClearTimer, Continues, Editor

LEMMA ArmLemma ==
  ASSUME NEW ed \in Editor
  PROVE  LET new == ArmTimer(ed)
         IN  /\ Continues(new, ed) /\ Armed(new) /\ new.timers > 0
             /\ new.phase = ed.phase /\ new.holding = ed.holding /\ new.acquiring = ed.acquiring
             /\ new.late = ed.late
<1>1. ed.timers \in Nat /\ ed.timers + 1 \in Nat /\ ed.timers + 1 > 0
  BY DEF Editor
<1> QED  BY <1>1 DEF ArmTimer, Armed, Continues, Editor

LEMMA ScheduleLemma ==
  ASSUME NEW ed \in Editor, NEW stale \in BOOLEAN
  PROVE  LET new == ScheduleHeartbeat(ed, stale)
         IN  /\ Continues(new, ed) /\ Armed(new) /\ new.timers > 0
             /\ new.phase = ed.phase /\ new.holding = ed.holding /\ new.acquiring = ed.acquiring
             /\ new.late = stale
<1> DEFINE arm == ArmTimer(ed)
<1>1. /\ Continues(arm, ed) /\ Armed(arm) /\ arm.timers > 0
      /\ arm.phase = ed.phase /\ arm.holding = ed.holding /\ arm.acquiring = ed.acquiring
  BY ArmLemma
<1>2. ScheduleHeartbeat(ed, stale) = [arm EXCEPT !.late = stale]
  BY DEF ScheduleHeartbeat
<1> HIDE DEF arm
<1> QED  BY <1>1, <1>2 DEF Armed, Continues, Editor

LEMMA GrantLemma ==
  ASSUME NEW ed \in Editor, NEW stale \in BOOLEAN
  PROVE  LET new == Grant(ed, stale)
         IN  /\ Continues(new, ed) /\ Armed(new) /\ new.timers > 0
             /\ new.phase = "granted" /\ new.holding /\ new.acquiring = ed.acquiring
             /\ new.late = stale
<1> DEFINE held == [ed EXCEPT !.holding = TRUE, !.phase = "granted"]
<1>1. Continues(held, ed) /\ held.phase = "granted" /\ held.holding /\ held.acquiring = ed.acquiring
  BY DEF Continues, Editor, Phases
<1>2. Grant(ed, stale) = ScheduleHeartbeat(held, stale)
  BY DEF Grant
<1> HIDE DEF held
<1> QED  BY <1>1, <1>2, ScheduleLemma DEF Continues

LEMMA LoseLemma ==
  ASSUME NEW ed \in Editor
  PROVE  LET new == LoseLock(ed)
         IN  /\ Continues(new, ed) /\ Armed(new) /\ new.timers = ed.timers
             /\ ~new.holding /\ new.acquiring = ed.acquiring
             /\ ed.life = "mounted" => new.phase = "lost"
BY DEF LoseLock, Armed, Continues, Editor, Phases

LEMMA EndBeatLemma ==
  ASSUME NEW ed \in Editor, NEW r
  PROVE  LET new == EndBeat(ed, r)
         IN  /\ Continues(new, ed) /\ new.timers = ed.timers /\ new.current = ed.current
             /\ new.phase = ed.phase /\ new.holding = ed.holding /\ new.acquiring = ed.acquiring
             /\ new.late = ed.late
BY DEF EndBeat, Continues, Editor

\* Who waited for the first POST acquires no more; who gets the lock has a heartbeat ahead.
LEMMA AnsweredLemma ==
  ASSUME NEW ed \in Editor, Armed(ed), ed.acquiring \/ ed.initialLeft, ed.acquiring => ~ed.initialLeft,
         NEW answer \in Answers, NEW stale \in BOOLEAN
  PROVE  LET new == InitialAnswered(ed, answer, stale)
         IN  /\ Continues(new, ed) /\ Armed(new) /\ ~new.acquiring
             /\ ed.life = "mounted" /\ new.phase = "granted" =>
                  new.timers > 0 \/ (ed.phase = "granted" /\ answer = "ok")
             /\ new.timers = ed.timers \/ new.timers > 0
             /\ \/ new.holding = ed.holding /\ new.late = ed.late
                \/ ed.acquiring /\ ed.life = "mounted" /\ answer = "ok" /\ new.late = stale
<1> DEFINE done == [ed EXCEPT !.acquiring = FALSE]
           refused == [done EXCEPT !.phase = IF answer = "held" THEN "held" ELSE "error"]
           new == InitialAnswered(ed, answer, stale)
<1>1. /\ Continues(done, ed) /\ ~done.acquiring /\ done.timers = ed.timers /\ done.current = ed.current
      /\ done.holding = ed.holding /\ done.late = ed.late
  BY DEF Continues, Editor
<1>2. /\ Continues(refused, ed) /\ ~refused.acquiring /\ refused.timers = ed.timers
      /\ refused.current = ed.current /\ refused.holding = ed.holding /\ refused.late = ed.late
      /\ refused.phase # "granted"
  BY DEF Continues, Editor, Phases
<1>3. new = IF answer = "ok"
            THEN IF ed.initialLeft THEN ed ELSE IF ed.life = "mounted" THEN Grant(done, stale) ELSE done
            ELSE IF ed.life = "mounted" THEN refused ELSE done
  BY DEF InitialAnswered
<1> HIDE DEF done, refused, new
<1>4. CASE new = ed /\ ed.initialLeft /\ answer = "ok"
  BY <1>4 DEF Continues, new
<1>5. CASE new = Grant(done, stale) /\ answer = "ok" /\ ed.life = "mounted" /\ ~ed.initialLeft
  BY <1>1, <1>5, GrantLemma DEF Continues, new
<1>6. CASE new = done /\ ed.life # "mounted"
  BY <1>1, <1>6 DEF Armed, new
<1>7. CASE new = refused
  BY <1>2, <1>7 DEF Armed, new
<1> QED  BY <1>3, <1>4, <1>5, <1>6, <1>7

LEMMA LeaveLemma ==
  ASSUME NEW ed \in Editor, Armed(ed)
  PROVE  LET new == LeaveEditor(ed)
         IN  /\ new \in Editor /\ new.life = ed.life /\ new.left /\ Armed(new)
             /\ ~new.acquiring /\ ~new.holding
<1> DEFINE clear == ClearTimer(ed)
<1>1. clear \in Editor /\ clear.life = ed.life /\ ~clear.current
  BY ClearLemma DEF Continues
<1>2. LeaveEditor(ed) = [clear EXCEPT !.left = TRUE, !.acquiring = FALSE, !.holding = FALSE,
                           !.initialLeft = ed.acquiring,
                           !.leaveRelease = IF ed.acquiring THEN "waiting" ELSE "sent"]
  BY DEF LeaveEditor
<1>3. ed.acquiring \in BOOLEAN
  BY DEF Editor
<1> HIDE DEF clear
<1> QED  BY <1>1, <1>2, <1>3 DEF Armed, Editor
-----------------------------------------------------------------------------
(* The parts of the invariant, over the requests that are on their way. *)

Beats(e) == editors[e].timers > 0 \/ \E r \in Sent : r.by = e /\ r.why \in {"beat", "reacquire"}

LEMMA BeatsLemma ==
  GrantedBeats <=> \A e \in Editors :
                     Mounted(e) /\ editors[e].phase = "granted" /\ ~editors[e].left => Beats(e)
BY DEF GrantedBeats, InFlight, Beats, Sent, ToSet

LEMMA BeatsNextLemma ==
  GrantedBeats' <=> \A e \in Editors :
                      Mounted(e)' /\ editors'[e].phase = "granted" /\ ~editors'[e].left => Beats(e)'
BY DEF GrantedBeats, InFlight, Beats, Sent, ToSet, Mounted

LEMMA RequestLemma ==
  ASSUME NEW why \in Acquires \cup Releases \cup {"beat"}, NEW e \in Editors \cup {0}, NEW inBeat \in BOOLEAN
  PROVE  LET r == NewRequest(why, e, inBeat)
         IN  r \in Request /\ r.why = why /\ r.by = e /\ r.answer = "none" /\ ~r.stale
BY DEF NewRequest, Request, Answers

\* T is what the editors of S send.
Sends(T, why, S) ==
  /\ IsFiniteSet(T) /\ T \subseteq Request
  /\ \A s \in T : s.by \in S /\ s.why = why /\ s.answer = "none"
  /\ \A e \in S : \E s \in T : s.by = e /\ s.why = why

LEMMA RequestsLemma ==
  ASSUME NEW S \in SUBSET Editors, NEW why \in Acquires \cup Releases
  PROVE  Sends({NewRequest(why, e, FALSE) : e \in S}, why, S)
<1> DEFINE T == {NewRequest(why, e, FALSE) : e \in S}
           f == [e \in S |-> NewRequest(why, e, FALSE)]
<1>1. IsFiniteSet(S)
  <2>1. IsFiniteSet(Editors)
    BY BoundsAssumption, FS_Interval DEF Editors
  <2> QED  BY <2>1, FS_Subset
<1>2. f \in Surjection(S, T)
  BY DEF Surjection
<1>3. IsFiniteSet(T)
  BY <1>1, <1>2, FS_Surjection
<1>4. \A e \in S : LET r == NewRequest(why, e, FALSE)
                   IN  r \in Request /\ r.by = e /\ r.why = why /\ r.answer = "none"
  BY RequestLemma DEF NewRequest, Request, Answers, Acquires, Releases
<1>5. \A s \in T : \E e \in S : s = NewRequest(why, e, FALSE)
  OBVIOUS
<1>6. T \subseteq Request /\ \A s \in T : s.by \in S /\ s.why = why /\ s.answer = "none"
  BY <1>4, <1>5
<1>7. \A e \in S : NewRequest(why, e, FALSE) \in T
  OBVIOUS
<1>8. \A e \in S : \E s \in T : s.by = e /\ s.why = why
  BY <1>4, <1>7
<1> HIDE DEF T
<1>9. Sends(T, why, S)
  BY <1>3, <1>6, <1>8 DEF Sends
<1> QED  BY <1>9 DEF T

LEMMA SpendLemma ==
  ASSUME TypeOK, NEW name \in {"leaves", "failures", "events"}, Spend(name)
  PROVE  budget' \in [leaves : 0..MaxLeaves, failures : 0..MaxFailures, events : 0..MaxEvents]
<1>1. budget \in [leaves : 0..MaxLeaves, failures : 0..MaxFailures, events : 0..MaxEvents]
  BY DEF TypeOK
<1>2. CASE name = "leaves"
  <2>1. budget.leaves - 1 \in 0..MaxLeaves
    BY <1>1, <1>2, BoundsAssumption DEF Spend
  <2> QED  BY <1>1, <1>2, <2>1 DEF Spend
<1>3. CASE name = "failures"
  <2>1. budget.failures - 1 \in 0..MaxFailures
    BY <1>1, <1>3, BoundsAssumption DEF Spend
  <2> QED  BY <1>1, <1>3, <2>1 DEF Spend
<1>4. CASE name = "events"
  <2>1. budget.events - 1 \in 0..MaxEvents
    BY <1>1, <1>4, BoundsAssumption DEF Spend
  <2> QED  BY <1>1, <1>4, <2>1 DEF Spend
<1> QED  BY <1>2, <1>3, <1>4

LEMMA TypedLemma == TypeOK /\ Sane => /\ \A e \in Editors : editors[e] \in Editor
                                      /\ \A r \in Sent : r \in Request
BY DEF TypeOK, Sane, Sent, ToSet

\* A step that adds nothing that could become a lock makes no claim.
LEMMA QuietLemma ==
  ASSUME NoClaim, TypeOK, Sane,
         \A e \in Editors : Mounted(e)' => Mounted(e),
         \A e \in Editors : editors'[e].acquiring => editors[e].acquiring /\ editors'[e].promise = editors[e].promise,
         \A e \in Editors : Holds(e)' => Holds(e) /\ (editors[e].late => editors'[e].late),
         handoff'.armed => handoff.armed /\ handoff'.promise = handoff.promise /\ (handoff.late => handoff'.late),
         \A r \in Sent' : r.answer = "ok" /\ r.why \in Acquires \cup {"beat"} => r \in Sent
  PROVE  NoClaim'
<1>1. \A r \in Sent' : \A e \in Editors : Grants(r, e)' => r \in Sent /\ Grants(r, e)
  BY DEF Grants, Acquires
<1>2. \A r \in Sent' : HandsOver(r)' => r \in Sent /\ HandsOver(r)
  BY DEF HandsOver, Acquires
<1>3. \A r \in Sent' : Extends(r)' => r \in Sent /\ r.by \in Editors /\ Extends(r)
  <2> SUFFICES ASSUME NEW r \in Sent', Extends(r)'  PROVE r \in Sent /\ r.by \in Editors /\ Extends(r)
    OBVIOUS
  <2>1. r \in Sent /\ r.why = "beat" /\ r.answer = "ok" /\ ~r.stale
    BY DEF Extends
  <2>2. r \in Request /\ Fits(r)
    BY <2>1, TypedLemma DEF Sane
  <2>3. r.by \in Editors
    BY <2>1, <2>2 DEF Fits, Request
  <2> QED  BY <2>1, <2>3 DEF Extends
<1> QED  BY <1>1, <1>2, <1>3 DEF NoClaim

\* Who waits still waits, when no editor acquires anew and no first POST is answered.
LEMMA WaitsLemma ==
  ASSUME Sane, grants' = grants,
         \A e \in Editors : \/ editors'[e] = editors[e]
                            \/ /\ Born(e) /\ Born(e)' /\ Armed(editors'[e])
                               /\ editors'[e].acquiring =>
                                    /\ editors[e].acquiring /\ editors'[e].promise = editors[e].promise
                                    /\ editors'[e].initialLeft = editors[e].initialLeft
  PROVE  \A e \in Editors : Waits(e)'
BY DEF Sane, Waits, Armed, Born

LEMMA FitsLemma ==
  ASSUME TypeOK, Sane, \A e \in Editors : Born(e) => Born(e)',
         \A r \in Sent' : r \in Sent \/ Fits(r)'
  PROVE  \A r \in Sent' : Fits(r)'
<1> SUFFICES ASSUME NEW r \in Sent', r \in Sent  PROVE Fits(r)'
  OBVIOUS
<1>1. Fits(r) /\ r.by \in Editors \cup {0}
  BY TypedLemma DEF Sane, Request
<1> QED  BY <1>1 DEF Fits

LEMMA TypeStep ==
  ASSUME TypeOK, requests' \in Seq(Request),
         editors' \in [Editors -> Editor], grants' \in [Editors -> Answers],
         handoff' \in Handoff, abandoned' \subseteq Editors,
         UNCHANGED <<away, holder, evicted, budget>>
  PROVE  TypeOK'
BY DEF TypeOK
LEMMA SaneStep ==
  ASSUME TypeOK, Sane, requests' \in Seq(Request), grants' = grants,
         \A e \in Editors : \/ editors'[e] = editors[e]
                            \/ /\ Born(e) /\ Born(e)' /\ Armed(editors'[e])
                               /\ editors'[e].acquiring =>
                                    /\ editors[e].acquiring /\ editors'[e].promise = editors[e].promise
                                    /\ editors'[e].initialLeft = editors[e].initialLeft,
         \A r \in Sent' : \/ r \in Sent
                          \/ /\ (r.by \in Editors /\ Born(r.by)) \/ (r.by = 0 /\ r.why = "handoff")
                             /\ r.why = "beat" => r.answer # "held",
         handoff'.armed /\ handoff'.promise # 0 => grants[handoff'.promise] # "ok"
  PROVE  Sane'
<1>1. \A e \in Editors : Born(e) => Born(e)'
  BY DEF Born
<1>2. ASSUME NEW r \in Sent', r \notin Sent  PROVE Fits(r)'
  BY <1>1, <1>2, EditorFacts DEF Fits, Born
<1>3. \A r \in Sent' : Fits(r)'
  BY <1>1, <1>2, FitsLemma
<1> QED  BY <1>3, WaitsLemma DEF Sane

\* Who beats goes on when nothing that keeps it beating is taken away.
LEMMA BeatsStep ==
  ASSUME GrantedBeats,
         \A r \in Sent : r.why \in {"beat", "reacquire"} => \E s \in Sent' : s.by = r.by /\ s.why = r.why,
         \A e \in Editors : Mounted(e)' /\ editors'[e].phase = "granted" /\ ~editors'[e].left =>
           \/ Beats(e)'
           \/ /\ Mounted(e) /\ editors[e].phase = "granted" /\ ~editors[e].left
              /\ editors[e].timers > 0 => editors'[e].timers > 0
  PROVE  GrantedBeats'
<1>1. \A e \in Editors : Beats(e) /\ (editors[e].timers > 0 => editors'[e].timers > 0) => Beats(e)'
  BY DEF Beats
<1> QED  BY <1>1, BeatsLemma, BeatsNextLemma
-----------------------------------------------------------------------------
(* Every action preserves the invariant. *)

LEMMA SendBeatStep ==
  ASSUME IInv, NEW e \in Editors, NEW ed, Continues(ed, editors[e]), Born(e), ~ed.current,
         ed.acquiring = editors[e].acquiring, ed.holding = editors[e].holding, ed.late = editors[e].late,
         SendBeat(e, ed)
  PROVE  IInv'
<1> DEFINE new == [ed EXCEPT !.beating = TRUE]
           r == NewRequest("beat", e, TRUE)
<1>1. /\ new \in Editor /\ new.life = editors[e].life /\ new.promise = editors[e].promise
      /\ new.initialLeft = editors[e].initialLeft /\ new.left = editors[e].left
      /\ ~new.current /\ new.acquiring = editors[e].acquiring
      /\ new.holding = editors[e].holding /\ new.late = editors[e].late
  BY DEF Continues, Editor
<1>2. r \in Request /\ r.why = "beat" /\ r.by = e /\ r.answer = "none"
  BY DEF NewRequest, Request, Answers
<1> HIDE DEF new, r
<1>3. editors' = [editors EXCEPT ![e] = new] /\ requests' = Append(requests, r)
      /\ UNCHANGED <<grants, handoff, abandoned, away, holder, evicted, budget>>
  BY DEF SendBeat, new, r
<1>4. editors \in [Editors -> Editor] /\ requests \in Seq(Request)
  BY DEF IInv, TypeOK, Sane
<1>5. /\ editors' \in [Editors -> Editor] /\ editors'[e] = new
      /\ \A d \in Editors : d # e => editors'[d] = editors[d]
  BY <1>1, <1>3, <1>4
<1>6. requests' \in Seq(Request) /\ Sent' = Sent \cup {r}
  BY <1>2, <1>3, <1>4, AppendLemma DEF Sent
<1>7. TypeOK'
  BY <1>3, <1>5, <1>6, TypeStep DEF IInv, TypeOK
<1>8. \A d \in Editors : Born(d) <=> Born(d)'
  BY <1>1, <1>5 DEF Born
<1>9. Sane'
  <2>1. \A d \in Editors : Waits(d)'
    BY <1>1, <1>3, <1>5, <1>8, WaitsLemma DEF IInv, Armed
  <2>2. ASSUME NEW s \in Sent', s \notin Sent  PROVE Fits(s)'
    <3>1. s.why = "beat" /\ s.by = e /\ s.answer = "none"
      BY <1>2, <1>6, <2>2
    <3> QED  BY <1>8, <3>1, EditorFacts DEF Fits, Born
  <2>3. \A s \in Sent' : Fits(s)'
    BY <1>8, <2>2, FitsLemma DEF IInv
  <2> QED  BY <1>3, <1>6, <2>1, <2>3 DEF IInv, Sane
<1>10. GrantedBeats'
  <2>1. \A d \in Editors : Beats(d) => Beats(d)'
    BY <1>2, <1>5, <1>6 DEF Beats
  <2>2. Beats(e)'
    BY <1>2, <1>6 DEF Beats
  <2> QED  BY <1>1, <1>5, <2>1, <2>2, BeatsLemma, BeatsNextLemma DEF IInv, Mounted
<1>11. Lock'
  <2>1. ASSUME NoClaim  PROVE NoClaim'
    BY <1>1, <1>2, <1>3, <1>5, <1>6, <2>1, QuietLemma DEF IInv, Holds, Mounted
  <2> QED  BY <1>3, <2>1 DEF IInv, Lock
<1> QED  BY <1>7, <1>9, <1>10, <1>11 DEF IInv

LEMMA BeatStep == ASSUME IInv, NEW e \in Editors, Beat(e)  PROVE IInv'
<1> DEFINE ed == [editors[e] EXCEPT !.timers = @ - 1, !.current = FALSE]
<1>1. editors[e] \in Editor /\ editors[e].timers > 0 /\ Waits(e)
  BY TypedLemma DEF IInv, Sane, Beat
<1>2. Born(e)
  BY <1>1 DEF Waits
<1>3. editors[e].timers - 1 \in Nat
  BY <1>1 DEF Editor
<1>4. /\ Continues(ed, editors[e]) /\ ~ed.current /\ ed.acquiring = editors[e].acquiring
      /\ ed.holding = editors[e].holding /\ ed.late = editors[e].late
  BY <1>1, <1>3 DEF Continues, Editor
<1>5. SendBeat(e, ed)
  BY DEF Beat
<1> HIDE DEF ed
<1> QED  BY <1>2, <1>4, <1>5, SendBeatStep

LEMMA BeatNowStep == ASSUME IInv, NEW e \in Editors, BeatNow(e)  PROVE IInv'
<1>1. editors[e] \in Editor /\ Armed(editors[e]) /\ Born(e) /\ SendBeat(e, ClearTimer(editors[e]))
  BY TypedLemma DEF IInv, Sane, Waits, BeatNow, Holds, Mounted, Born
<1> QED  BY <1>1, ClearLemma, SendBeatStep

\* The handoff is given up: nobody waits for its lock any more.
LEMMA HandoffTimerStep == ASSUME IInv, HandoffTimer  PROVE IInv'
<1> DEFINE r == NewRequest("handoff", 0, FALSE)
<1>1. r \in Request /\ r.why = "handoff" /\ r.by = 0
  BY DEF NewRequest, Request, Releases, Answers
<1> HIDE DEF r
<1>2. /\ handoff' = NoHandoff /\ (requests' = requests \/ requests' = Append(requests, r))
      /\ abandoned' \subseteq Editors /\ UNCHANGED <<editors, grants, away, holder, evicted, budget>>
  BY DEF HandoffTimer, ReleaseHandoff, r, IInv, TypeOK
<1>3. requests' \in Seq(Request) /\ Sent \subseteq Sent' /\ Sent' \subseteq Sent \cup {r}
  <2>1. requests \in Seq(Request)
    BY DEF IInv, Sane
  <2>2. CASE requests' = Append(requests, r)
    BY <1>1, <2>1, <2>2, AppendLemma DEF Sent
  <2> QED  BY <1>2, <2>1, <2>2 DEF Sent
<1>4. NoHandoff \in Handoff /\ ~NoHandoff.armed
  BY DEF NoHandoff, Handoff
<1>5. TypeOK'
  BY <1>2, <1>3, <1>4, TypeStep DEF IInv, TypeOK
<1>6. Sane'
  BY <1>1, <1>2, <1>3, <1>4, SaneStep DEF IInv
<1>7. GrantedBeats'
  BY <1>2, <1>3, BeatsStep DEF IInv, Mounted
<1>8. ASSUME NoClaim  PROVE NoClaim'
  BY <1>1, <1>2, <1>3, <1>4, <1>8, QuietLemma DEF IInv, Holds, Mounted, Acquires
<1> QED  BY <1>2, <1>5, <1>6, <1>7, <1>8 DEF IInv, Lock

\* The editor that is gone leaves its lock, or its POST, to the next one.
LEMMA UnmountStep == ASSUME IInv, NEW e \in Editors, Unmount(e)  PROVE IInv'
<1> DEFINE ed == editors[e]
           new == [ClearTimer(ed) EXCEPT !.life = "gone", !.holding = FALSE, !.late = FALSE]
<1>1. /\ editors \in [Editors -> Editor] /\ ed \in Editor /\ Waits(e) /\ Mounted(e)
      /\ requests \in Seq(Request)
  BY TypedLemma DEF IInv, Sane, Unmount, TypeOK
<1>2. /\ ClearTimer(ed) \in Editor /\ ~ClearTimer(ed).current
      /\ ClearTimer(ed).acquiring = ed.acquiring
      /\ ClearTimer(ed).promise = ed.promise /\ ClearTimer(ed).initialLeft = ed.initialLeft
  BY <1>1, ClearLemma DEF Waits, Continues
<1>3. /\ new \in Editor /\ new.life = "gone" /\ ~new.current /\ new.acquiring = ed.acquiring
      /\ new.promise = ed.promise /\ new.initialLeft = ed.initialLeft
  BY <1>2 DEF Editor
<1> HIDE DEF new
<1>4. /\ editors' = [editors EXCEPT ![e] = new]
      /\ \/ ed.acquiring /\ handoff' = [promise |-> ed.promise, late |-> FALSE, armed |-> TRUE]
         \/ ed.holding /\ handoff' = [promise |-> 0, late |-> ed.late, armed |-> TRUE]
         \/ handoff' = handoff
      /\ UNCHANGED <<grants, abandoned, requests, away, holder, evicted, budget>>
  BY DEF Unmount, new
<1>5. /\ editors' \in [Editors -> Editor] /\ editors'[e] = new
      /\ \A d \in Editors : d # e => editors'[d] = editors[d]
  BY <1>1, <1>3, <1>4
<1>6. handoff' \in Handoff
  <2>1. ed.promise \in Editors \cup {0} /\ ed.late \in BOOLEAN /\ handoff \in Handoff
    BY <1>1 DEF Editor, IInv, TypeOK
  <2>2. \A p \in Editors \cup {0}, l \in BOOLEAN : [promise |-> p, late |-> l, armed |-> TRUE] \in Handoff
    BY DEF Handoff
  <2> HIDE DEF ed
  <2> QED  BY <1>4, <2>1, <2>2
<1>7. Sent' = Sent
  BY <1>4 DEF Sent
<1>8. TypeOK'
  BY <1>1, <1>4, <1>5, <1>6, TypeStep DEF IInv, TypeOK
<1>9. Sane'
  <2>1. handoff'.armed /\ handoff'.promise # 0 => grants[handoff'.promise] # "ok"
    BY <1>1, <1>4 DEF Waits, IInv, Sane
  <2>2. Born(e) /\ Born(e)'
    BY <1>1, <1>3, <1>5 DEF Born, Mounted
  <2> QED  BY <1>1, <1>3, <1>4, <1>5, <1>7, <2>1, <2>2, SaneStep DEF IInv, Armed
<1>10. GrantedBeats'
  BY <1>3, <1>5, <1>7, BeatsStep DEF IInv, Mounted
<1>11. ASSUME NoClaim  PROVE NoClaim'
  <2>1. \A d \in Editors : Mounted(d)' => Mounted(d) /\ editors'[d] = editors[d]
    BY <1>3, <1>5 DEF Mounted
  <2>2. \A r \in Sent, d \in Editors : Grants(r, d)' => Grants(r, d)
    BY <2>1 DEF Grants, Mounted
  <2>3. \A r \in Sent : Extends(r)' => Extends(r) /\ r.by \in Editors /\ (Holds(r.by)' => Holds(r.by))
    <3> SUFFICES ASSUME NEW r \in Sent, Extends(r)'
                 PROVE  Extends(r) /\ r.by \in Editors /\ (Holds(r.by)' => Holds(r.by))
      OBVIOUS
    <3>1. r.by \in Editors
      BY TypedLemma DEF IInv, Sane, Fits, Extends, Request
    <3> QED  BY <2>1, <3>1 DEF Extends, Holds, Mounted
  <2>4. \A r \in Sent : HandsOver(r)' => HandsOver(r) \/ Grants(r, e)
    <3>1. \A r \in Sent : r.why = "initial" => r.by # 0
      BY DEF IInv, Sane, Fits
    <3> QED  BY <1>1, <1>4, <3>1 DEF HandsOver, Grants
  <2>5. handoff'.armed /\ handoff'.promise = 0 => handoff'.late
    BY <1>1, <1>4, <1>11 DEF Waits, NoClaim, Holds
  <2> QED  BY <1>7, <1>11, <2>1, <2>2, <2>3, <2>4, <2>5 DEF NoClaim, Holds
<1> QED  BY <1>4, <1>8, <1>9, <1>10, <1>11 DEF IInv, Lock

\* Who leaves holds nothing and acquires nothing any more.
LEMMA LeaveStep == ASSUME IInv, Leave  PROVE IInv'
<1> DEFINE L == {e \in Editors : Mounted(e) /\ ~editors[e].left
                                 /\ (editors[e].holding \/ editors[e].acquiring)}
           D == {e \in L : ~editors[e].acquiring}
           T == {NewRequest("leave", e, FALSE) : e \in D}
           h == NewRequest("handoff", 0, FALSE)
           flush == IF handoff.armed /\ handoff.promise = 0 THEN <<h>> ELSE <<>>
<1>1. /\ editors \in [Editors -> Editor] /\ requests \in Seq(Request)
      /\ \A e \in Editors : Waits(e) /\ editors[e] \in Editor
  BY TypedLemma DEF IInv, Sane, TypeOK
<1>2. /\ IsFiniteSet(T) /\ T \subseteq Request
      /\ \A s \in T : s.by \in D /\ s.why = "leave" /\ s.answer = "none"
      /\ \A e \in D : \E s \in T : s.by = e /\ s.why = "leave"
  <2>1. D \in SUBSET Editors /\ "leave" \in Acquires \cup Releases
    BY DEF Releases
  <2>2. Sends(T, "leave", D)
    BY <2>1, RequestsLemma
  <2> QED  BY <2>2 DEF Sends
<1>3. h \in Request /\ h.why = "handoff" /\ h.by = 0 /\ h.answer = "none"
  BY DEF NewRequest, Request, Releases, Answers
<1>4. /\ handoff' = NoHandoff /\ away' = TRUE /\ abandoned' \subseteq Editors
      /\ editors' = [e \in Editors |-> IF e \in L THEN LeaveEditor(editors[e]) ELSE editors[e]]
      /\ requests' = (requests \o flush) \o SetToSeq(T)
      /\ UNCHANGED <<grants, holder, evicted>>
      /\ budget' \in [leaves : 0..MaxLeaves, failures : 0..MaxFailures, events : 0..MaxEvents]
  BY SpendLemma DEF Leave, IInv, TypeOK
<1> HIDE DEF T, h
<1>5. flush \in Seq(Request) /\ ToSet(flush) \subseteq {h}
  BY <1>3 DEF ToSet
<1> HIDE DEF flush
<1>6. requests' \in Seq(Request) /\ Sent \subseteq Sent' /\ Sent' \subseteq Sent \cup {h} \cup T
  <2>1. SetToSeq(T) \in Seq(Request) /\ ToSet(SetToSeq(T)) = T
    BY <1>2, SetToSeqLemma
  <2>2. requests \o flush \in Seq(Request) /\ ToSet(requests \o flush) = ToSet(requests) \cup ToSet(flush)
    BY <1>1, <1>5, ConcatLemma
  <2>3. \A u, v \in Seq(Request) : u \o v \in Seq(Request) /\ ToSet(u \o v) = ToSet(u) \cup ToSet(v)
    BY ConcatLemma
  <2>4. /\ requests' \in Seq(Request)
        /\ ToSet(requests') = ToSet(requests \o flush) \cup ToSet(SetToSeq(T))
    BY <1>4, <2>1, <2>2, <2>3
  <2> QED  BY <1>5, <2>1, <2>2, <2>4 DEF Sent
<1>7. \A e \in L : LET new == LeaveEditor(editors[e])
                   IN  /\ new \in Editor /\ new.life = "mounted" /\ new.left /\ Armed(new)
                       /\ ~new.acquiring /\ ~new.holding
  BY <1>1, LeaveLemma DEF Waits, Mounted
<1>8. /\ editors' \in [Editors -> Editor]
      /\ \A e \in Editors \ L : editors'[e] = editors[e]
      /\ \A e \in L : editors'[e] = LeaveEditor(editors[e])
  BY <1>1, <1>4, <1>7
<1>9. L \subseteq Editors /\ \A e \in L : Mounted(e)
  OBVIOUS
<1> HIDE DEF L, D
<1>10. NoHandoff \in Handoff /\ ~NoHandoff.armed
  BY DEF NoHandoff, Handoff
<1>11. TypeOK'
  BY <1>4, <1>6, <1>8, <1>10 DEF IInv, TypeOK
<1>12. Sane'
  <2>1. \A e \in L : Born(e) /\ Born(e)' /\ Armed(editors'[e]) /\ ~editors'[e].acquiring
    BY <1>7, <1>8, <1>9 DEF Born, Mounted
  <2>2. \A r \in T : r.by \in Editors /\ Born(r.by) /\ r.why # "beat"
    BY <1>2, <1>9, <2>1 DEF D
  <2>3. \A r \in Sent' : \/ r \in Sent
                         \/ /\ (r.by \in Editors /\ Born(r.by)) \/ (r.by = 0 /\ r.why = "handoff")
                            /\ r.why = "beat" => r.answer # "held"
    BY <1>3, <1>6, <2>2
  <2> QED  BY <1>4, <1>6, <1>8, <1>10, <2>1, <2>3, SaneStep DEF IInv
<1>13. GrantedBeats'
  BY <1>6, <1>7, <1>8, BeatsStep DEF IInv, Mounted
<1>14. ASSUME NoClaim  PROVE NoClaim'
  <2>1. \A e \in Editors : Mounted(e)' => Mounted(e)
    BY <1>8, <1>9 DEF Mounted
  <2>2. \A e \in Editors : Holds(e)' => Holds(e) /\ editors'[e] = editors[e]
    BY <1>7, <1>8, <2>1 DEF Holds, Mounted
  <2> QED  BY <1>2, <1>3, <1>4, <1>6, <1>7, <1>8, <1>10, <1>14, <2>1, <2>2, QuietLemma DEF IInv, Acquires
<1> QED  BY <1>4, <1>11, <1>12, <1>13, <1>14 DEF IInv, Lock

\* Who comes back has a POST on its way, or waits for the DELETE of leaving.
LEMMA ReturnStep == ASSUME IInv, Return  PROVE IInv'
<1> DEFINE B == {e \in Editors : Mounted(e) /\ editors[e].left}
           N == {e \in B : editors[e].leaveRelease = "settled"}
           T == {NewRequest("reacquire", e, FALSE) : e \in N}
<1>1. /\ editors \in [Editors -> Editor] /\ requests \in Seq(Request)
      /\ \A e \in Editors : Waits(e) /\ editors[e] \in Editor
  BY TypedLemma DEF IInv, Sane, TypeOK
<1>2. /\ IsFiniteSet(T) /\ T \subseteq Request
      /\ \A s \in T : s.by \in N /\ s.why = "reacquire" /\ s.answer = "none"
      /\ \A e \in N : \E s \in T : s.by = e /\ s.why = "reacquire"
  <2>1. N \in SUBSET Editors /\ "reacquire" \in Acquires \cup Releases
    BY DEF Acquires
  <2>2. Sends(T, "reacquire", N)
    BY <2>1, RequestsLemma
  <2> QED  BY <2>2 DEF Sends
<1>3. /\ away' = FALSE
      /\ editors' = [e \in Editors |-> IF e \in N THEN [editors[e] EXCEPT !.left = FALSE]
                                       ELSE IF e \in B THEN [editors[e] EXCEPT !.returning = TRUE]
                                       ELSE editors[e]]
      /\ requests' = requests \o SetToSeq(T)
      /\ UNCHANGED <<grants, handoff, abandoned, holder, evicted, budget>>
  BY DEF Return
<1> HIDE DEF T
<1>4. requests' \in Seq(Request) /\ Sent' = Sent \cup T
  <2>1. SetToSeq(T) \in Seq(Request) /\ ToSet(SetToSeq(T)) = T
    BY <1>2, SetToSeqLemma
  <2> QED  BY <1>1, <1>3, <2>1, ConcatLemma DEF Sent
<1>5. \A e \in Editors : Alike(editors'[e], editors[e]) /\ (editors'[e].left \/ ~editors[e].left \/ e \in N)
  <2> SUFFICES ASSUME NEW e \in Editors
               PROVE  Alike(editors'[e], editors[e]) /\ (editors'[e].left \/ ~editors[e].left \/ e \in N)
    OBVIOUS
  <2>1. editors[e] \in Editor
    BY <1>1
  <2>2. CASE e \in N
    BY <1>3, <2>1, <2>2 DEF Alike, Editor
  <2>3. CASE e \notin N /\ e \in B
    BY <1>3, <2>1, <2>3 DEF Alike, Editor
  <2>4. CASE e \notin N /\ e \notin B
    BY <1>3, <2>1, <2>4 DEF Alike
  <2> QED  BY <2>2, <2>3, <2>4
<1>6. /\ editors' \in [Editors -> Editor]
      /\ \A e \in Editors : /\ editors'[e].life = editors[e].life
                             /\ editors'[e].promise = editors[e].promise
                             /\ editors'[e].initialLeft = editors[e].initialLeft
                             /\ editors'[e].phase = editors[e].phase
                             /\ editors'[e].timers = editors[e].timers
                             /\ editors'[e].current = editors[e].current
                             /\ editors'[e].holding = editors[e].holding
                             /\ editors'[e].acquiring = editors[e].acquiring
                             /\ editors'[e].late = editors[e].late
  BY <1>3, <1>5 DEF Alike
<1>7. N \subseteq Editors /\ \A e \in N : Mounted(e)
  OBVIOUS
<1>8. \A e \in Editors : e \notin B => editors'[e] = editors[e]
  BY <1>3
<1>9. B \subseteq Editors /\ \A e \in B : Mounted(e)
  OBVIOUS
<1> HIDE DEF N, B
<1>10. TypeOK'
  <2>1. \A i \in DOMAIN requests' : requests'[i] \in Request
    BY <1>4
  <2> QED  BY <1>3, <1>6, <2>1 DEF IInv, TypeOK
<1>11. Sane'
  <2>1. \A e \in Editors : Armed(editors'[e])
    BY <1>1, <1>6 DEF Waits, Armed
  <2>2. \A e \in B : Born(e) /\ Born(e)'
    BY <1>6, <1>8, <1>9 DEF Born, Mounted
  <2>3. \A r \in T : r.by \in Editors /\ Born(r.by) /\ r.why # "beat"
    BY <1>2, <1>7 DEF Born, Mounted
  <2>4. \A e \in Editors : \/ editors'[e] = editors[e]
                            \/ /\ Born(e) /\ Born(e)' /\ Armed(editors'[e])
                               /\ editors'[e].acquiring =>
                                    /\ editors[e].acquiring /\ editors'[e].promise = editors[e].promise
                                    /\ editors'[e].initialLeft = editors[e].initialLeft
    BY <1>6, <1>8, <2>1, <2>2
  <2>5. \A r \in Sent' : \/ r \in Sent
                         \/ /\ (r.by \in Editors /\ Born(r.by)) \/ (r.by = 0 /\ r.why = "handoff")
                            /\ r.why = "beat" => r.answer # "held"
    BY <1>4, <2>3
  <2>6. handoff'.armed /\ handoff'.promise # 0 => grants[handoff'.promise] # "ok"
    BY <1>3 DEF IInv, Sane
  <2> QED  BY <1>3, <1>4, <2>4, <2>5, <2>6, SaneStep DEF IInv
<1>12. GrantedBeats'
  <2>1. \A e \in N : Beats(e)'
    BY <1>2, <1>4 DEF Beats
  <2> QED  BY <1>4, <1>5, <1>6, <2>1, BeatsStep DEF IInv, Mounted
<1>13. ASSUME NoClaim  PROVE NoClaim'
  BY <1>2, <1>3, <1>4, <1>5, <1>6, <1>13, QuietLemma DEF IInv, Holds, Mounted
<1> QED  BY <1>3, <1>10, <1>11, <1>12, <1>13 DEF IInv, Lock
-----------------------------------------------------------------------------
(* The service and the clock. *)

\* What becomes of the requests when one is answered, or taken off unanswered.
LEMMA ReplyLemma ==
  ASSUME TypeOK, Sane, NEW i \in DOMAIN requests, NEW a \in Answers, Reply(i, a)
  PROVE  LET r == requests[i]
         IN  /\ requests' \in Seq(Request)
             /\ \A s \in Sent' : \/ s \in Sent
                                 \/ /\ s.why = r.why /\ s.by = r.by /\ s.answer = a
                                    /\ s.by = 0 => s.why = "handoff"
                                    /\ s.by \in Editors => Born(s.by)
                                    /\ s.by \in Editors \cup {0}
             /\ \A s \in Sent : s.why \in {"beat", "reacquire"} => \E t \in Sent' : t.by = s.by /\ t.why = s.why
<1> DEFINE r == requests[i]
           x == [r EXCEPT !.answer = a]
<1>1. requests \in Seq(Request) /\ r \in Sent /\ r \in Request /\ Fits(r)
  BY DEF Sane, Sent, ToSet
<1>2. x \in Request /\ x.why = r.why /\ x.by = r.by /\ x.answer = a
  BY <1>1 DEF Request
<1>3. /\ r.by = 0 => r.why = "handoff"
      /\ r.by \in Editors => Born(r.by)
      /\ r.by \in Editors \cup {0}
  BY <1>1, EditorFacts DEF Fits, Request
<1> HIDE DEF x
<1>4. CASE requests' = RemoveAt(requests, i) /\ r.why \in {"late", "handoff"}
  <2>1. requests' \in Seq(Request) /\ Sent' \subseteq Sent /\ Sent \subseteq Sent' \cup {r}
    BY <1>1, <1>4, RemoveLemma DEF Sent
  <2> QED  BY <1>4, <2>1
<1>5. CASE requests' = [requests EXCEPT ![i] = x]
  <2> DEFINE t == [requests EXCEPT ![i] = x]
  <2>1. /\ t \in Seq(Request) /\ ToSet(t) \subseteq ToSet(requests) \cup {x} /\ x \in ToSet(t)
        /\ ToSet(requests) \subseteq ToSet(t) \cup {requests[i]}
    BY <1>1, <1>2, ReplaceLemma
  <2>2. requests' = t /\ Sent' = ToSet(t)
    BY <1>5 DEF Sent
  <2> HIDE DEF t
  <2> QED  BY <1>2, <1>3, <2>1, <2>2 DEF Sent
<1> QED  BY <1>4, <1>5 DEF Reply, x

\* A reply that grants nothing to a client whose claims are gone.
LEMMA ReplyStep ==
  ASSUME IInv, ClientUnchanged, NEW i \in DOMAIN requests, NEW a \in Answers, Reply(i, a),
         requests[i].why = "beat" => a # "held"
  PROVE  /\ \A k \in DOMAIN requests' : requests'[k] \in Request
         /\ Sane' /\ GrantedBeats'
         /\ NoClaim /\ (a # "ok" \/ requests[i].why \in Releases) => NoClaim'
<1>1. UNCHANGED <<editors, grants, handoff>> /\ TypeOK /\ Sane /\ GrantedBeats
  BY DEF ClientUnchanged, IInv
<1>2. /\ requests' \in Seq(Request)
      /\ \A s \in Sent' : \/ s \in Sent
                          \/ /\ s.why = requests[i].why /\ s.by = requests[i].by /\ s.answer = a
                             /\ s.by = 0 => s.why = "handoff"
                             /\ s.by \in Editors => Born(s.by)
                             /\ s.by \in Editors \cup {0}
      /\ \A s \in Sent : s.why \in {"beat", "reacquire"} => \E t \in Sent' : t.by = s.by /\ t.why = s.why
  BY <1>1, ReplyLemma
<1>3. Sane'
  <2>1. \A s \in Sent' : \/ s \in Sent
                         \/ /\ (s.by \in Editors /\ Born(s.by)) \/ (s.by = 0 /\ s.why = "handoff")
                            /\ s.why = "beat" => s.answer # "held"
    BY <1>2
  <2>2. handoff'.armed /\ handoff'.promise # 0 => grants[handoff'.promise] # "ok"
    BY <1>1 DEF Sane
  <2> QED  BY <1>1, <1>2, <2>1, <2>2, SaneStep
<1>4. GrantedBeats'
  BY <1>1, <1>2, BeatsStep DEF Mounted
<1>5. ASSUME NoClaim, a # "ok" \/ requests[i].why \in Releases  PROVE NoClaim'
  BY <1>1, <1>2, <1>5, QuietLemma DEF Holds, Mounted, Acquires, Releases
<1> QED  BY <1>2, <1>3, <1>4, <1>5

LEMMA ServeAcquireStep ==
  ASSUME IInv, NEW i \in DOMAIN requests, ServeAcquire(i), ClientUnchanged, UNCHANGED budget
  PROVE  IInv'
<1>1. CASE holder = "other" /\ Reply(i, "held") /\ UNCHANGED <<holder, evicted>>
  <2>1. "held" \in Answers /\ requests[i].why # "beat"
    BY DEF Answers, Acquires, ServeAcquire
  <2>2. Sane' /\ GrantedBeats' /\ (NoClaim => NoClaim') /\ \A k \in DOMAIN requests' : requests'[k] \in Request
    BY <1>1, <2>1, ReplyStep
  <2>3. TypeOK'
    BY <1>1, <2>2 DEF IInv, TypeOK, ClientUnchanged
  <2> QED  BY <1>1, <2>2, <2>3 DEF IInv, Lock
<1>2. CASE Reply(i, "ok") /\ holder' = "me" /\ evicted' = FALSE
  <2>1. "ok" \in Answers
    BY DEF Answers
  <2>2. Sane' /\ GrantedBeats' /\ \A k \in DOMAIN requests' : requests'[k] \in Request
    BY <1>2, <2>1, ReplyStep
  <2>3. TypeOK'
    BY <1>2, <2>2 DEF IInv, TypeOK, ClientUnchanged
  <2> QED  BY <1>2, <2>2, <2>3 DEF IInv, Lock
<1> QED  BY <1>1, <1>2 DEF ServeAcquire

LEMMA ServeBeatStep ==
  ASSUME IInv, NEW i \in DOMAIN requests, ServeBeat(i), ClientUnchanged, UNCHANGED budget
  PROVE  IInv'
<1> DEFINE a == IF holder = "me" THEN "ok" ELSE "lost"
<1>1. a \in Answers /\ a # "held" /\ (a = "ok" => holder = "me") /\ Reply(i, a) /\ UNCHANGED <<holder, evicted>>
  BY DEF Answers, ServeBeat
<1> HIDE DEF a
<1>2. /\ Sane' /\ GrantedBeats' /\ (NoClaim /\ a # "ok" => NoClaim')
      /\ \A k \in DOMAIN requests' : requests'[k] \in Request
  BY <1>1, ReplyStep
<1>3. TypeOK'
  BY <1>1, <1>2 DEF IInv, TypeOK, ClientUnchanged
<1> QED  BY <1>1, <1>2, <1>3 DEF IInv, Lock

\* A DELETE that removes the lock of nobody who counts on it leaves no claim.
LEMMA ServeReleaseStep ==
  ASSUME IInv, NEW i \in DOMAIN requests, ServeRelease(i), ClientUnchanged, UNCHANGED budget
  PROVE  IInv'
<1>1. "ok" \in Answers /\ Reply(i, "ok") /\ requests[i].why \in Releases
  BY DEF Answers, ServeRelease
<1>2. Sane' /\ GrantedBeats' /\ (NoClaim => NoClaim') /\ \A k \in DOMAIN requests' : requests'[k] \in Request
  BY <1>1, ReplyStep
<1>3. TypeOK'
  <2>1. holder' \in {"none", "me", "other"} /\ evicted' \in BOOLEAN
    BY DEF ServeRelease, IInv, TypeOK
  <2> QED  BY <1>2, <2>1 DEF IInv, TypeOK, ClientUnchanged
<1>4. ASSUME holder = "me", ~evicted'  PROVE NoClaim'
  <2>1. UNCHANGED <<editors, handoff>>
    BY DEF ClientUnchanged
  <2>2. ~handoff.armed /\ \A e \in Editors : ~Holds(e) /\ ~Granted(e)
    BY <1>4 DEF ServeRelease
  <2>3. \A s \in Sent' : s \in Sent \/ s.why \in Releases
    BY <1>1, ReplyLemma DEF IInv
  <2>4. \A s \in Sent, e \in Editors : ~Grants(s, e)
    BY <2>2 DEF Grants, Granted, Acquires, Sent, ToSet
  <2>5. \A s \in Sent', e \in Editors : ~Grants(s, e)'
    BY <2>1, <2>3, <2>4 DEF Grants, Releases, Mounted
  <2>6. \A s \in Sent' : Extends(s)' => s.by \in Editors
    <3> SUFFICES ASSUME NEW s \in Sent', Extends(s)'  PROVE s.by \in Editors
      OBVIOUS
    <3>1. s \in Sent /\ s.why = "beat"
      BY <2>3 DEF Extends, Releases
    <3> QED  BY <3>1, TypedLemma DEF Fits, Request, IInv, Sane
  <2> QED  BY <2>1, <2>2, <2>5, <2>6 DEF NoClaim, HandsOver, Holds, Mounted
<1> QED  BY <1>2, <1>3, <1>4 DEF IInv, Lock, ServeRelease

LEMMA FailStep == ASSUME IInv, Fail  PROVE IInv'
<1>1. PICK i \in DOMAIN requests : \/ Reply(i, "failed")
                                   \/ requests[i].why = "beat" /\ Reply(i, "session")
  BY DEF Fail
<1>2. /\ ClientUnchanged /\ UNCHANGED <<holder, evicted>>
      /\ budget' \in [leaves : 0..MaxLeaves, failures : 0..MaxFailures, events : 0..MaxEvents]
  BY SpendLemma DEF Fail, IInv
<1>3. "failed" \in Answers /\ "session" \in Answers
  BY DEF Answers
<1>4. Sane' /\ GrantedBeats' /\ (NoClaim => NoClaim') /\ \A k \in DOMAIN requests' : requests'[k] \in Request
  BY <1>1, <1>2, <1>3, ReplyStep
<1>5. TypeOK'
  BY <1>2, <1>4 DEF IInv, TypeOK, ClientUnchanged
<1> QED  BY <1>2, <1>4, <1>5 DEF IInv, Lock

LEMMA LoseAnswerStep == ASSUME IInv, LoseAnswer  PROVE IInv'
<1>1. PICK i \in DOMAIN requests : requests[i].why \notin Releases
                                   /\ requests' = [requests EXCEPT ![i].answer = "failed"]
  BY DEF LoseAnswer
<1>2. Reply(i, "failed")
  BY <1>1 DEF Reply, Releases
<1>3. /\ ClientUnchanged /\ UNCHANGED <<holder, evicted>>
      /\ budget' \in [leaves : 0..MaxLeaves, failures : 0..MaxFailures, events : 0..MaxEvents]
  BY SpendLemma DEF LoseAnswer, IInv
<1>4. "failed" \in Answers
  BY DEF Answers
<1>5. Sane' /\ GrantedBeats' /\ (NoClaim => NoClaim') /\ \A k \in DOMAIN requests' : requests'[k] \in Request
  BY <1>2, <1>3, <1>4, ReplyStep
<1>6. TypeOK'
  BY <1>3, <1>5 DEF IInv, TypeOK, ClientUnchanged
<1> QED  BY <1>3, <1>5, <1>6 DEF IInv, Lock

\* A deadline that passes: who was late stays late.
LEMMA LapseStep == ASSUME IInv, Lapse  PROVE IInv'
<1>1. /\ UNCHANGED <<grants, abandoned, requests, away, holder, evicted>>
      /\ budget' \in [leaves : 0..MaxLeaves, failures : 0..MaxFailures, events : 0..MaxEvents]
  BY SpendLemma DEF Lapse, IInv
<1>2. /\ editors \in [Editors -> Editor] /\ handoff \in Handoff /\ requests \in Seq(Request)
      /\ \A e \in Editors : editors[e] \in Editor /\ Waits(e)
  BY TypedLemma DEF IInv, TypeOK, Sane
<1>3. /\ editors' \in [Editors -> Editor] /\ handoff' \in Handoff
      /\ \A e \in Editors : /\ editors[e].late => editors'[e].late
                            /\ editors'[e] = editors[e] \/ Mounted(e)
                            /\ editors'[e].life = editors[e].life
                            /\ editors'[e].left = editors[e].left
                            /\ editors'[e].promise = editors[e].promise
                            /\ editors'[e].initialLeft = editors[e].initialLeft
                            /\ editors'[e].phase = editors[e].phase
                            /\ editors'[e].holding = editors[e].holding
                            /\ editors'[e].acquiring = editors[e].acquiring
                            /\ editors'[e].timers = editors[e].timers
                            /\ editors'[e].current = editors[e].current
      /\ handoff'.armed = handoff.armed /\ handoff'.promise = handoff.promise /\ (handoff.late => handoff'.late)
  <2>1. CASE \E e \in Editors : Holds(e) /\ editors' = [editors EXCEPT ![e].late = TRUE] /\ UNCHANGED handoff
    <3>1. PICK e \in Editors : Holds(e) /\ editors' = [editors EXCEPT ![e].late = TRUE]
      BY <2>1
    <3> DEFINE new == [editors[e] EXCEPT !.late = TRUE]
    <3>2. /\ new \in Editor /\ new.late /\ new.life = editors[e].life /\ new.left = editors[e].left
          /\ new.promise = editors[e].promise /\ new.initialLeft = editors[e].initialLeft
          /\ new.phase = editors[e].phase /\ new.holding = editors[e].holding
          /\ new.acquiring = editors[e].acquiring /\ new.timers = editors[e].timers
          /\ new.current = editors[e].current
      BY <1>2 DEF Editor
    <3>3. editors' = [editors EXCEPT ![e] = new]
      BY <3>1
    <3> HIDE DEF new
    <3>4. /\ editors' \in [Editors -> Editor] /\ editors'[e] = new
          /\ \A d \in Editors : d # e => editors'[d] = editors[d]
      BY <1>2, <3>2, <3>3
    <3> QED  BY <1>2, <2>1, <3>1, <3>2, <3>4 DEF Holds
  <2>2. CASE handoff' = [handoff EXCEPT !.late = TRUE] /\ UNCHANGED editors
    <3>1. handoff' \in Handoff /\ handoff'.armed = handoff.armed /\ handoff'.promise = handoff.promise
          /\ handoff'.late
      BY <1>2, <2>2 DEF Handoff
    <3> QED  BY <1>2, <2>2, <3>1
  <2> QED  BY <2>1, <2>2 DEF Lapse
<1>4. Sent' = Sent
  BY <1>1 DEF Sent
<1>5. TypeOK'
  BY <1>1, <1>3 DEF IInv, TypeOK
<1>6. Sane'
  <2>1. \A e \in Editors : Armed(editors'[e])
    BY <1>2, <1>3 DEF Waits, Armed
  <2>2. \A e \in Editors : editors'[e] = editors[e] \/ (Born(e) /\ Born(e)')
    BY <1>3 DEF Born, Mounted
  <2>3. handoff'.armed /\ handoff'.promise # 0 => grants[handoff'.promise] # "ok"
    BY <1>3 DEF IInv, Sane
  <2> QED  BY <1>1, <1>2, <1>3, <1>4, <2>1, <2>2, <2>3, SaneStep DEF IInv
<1>7. GrantedBeats'
  BY <1>3, <1>4, BeatsStep DEF IInv, Mounted
<1>8. ASSUME NoClaim  PROVE NoClaim'
  BY <1>3, <1>4, <1>8, QuietLemma DEF IInv, Holds, Mounted
<1> QED  BY <1>1, <1>5, <1>6, <1>7, <1>8 DEF IInv, Lock

\* A lock expires when everyone who holds it is late; the grants on their way are over as well.
LEMMA ExpireStep == ASSUME IInv, Expire  PROVE IInv'
<1>1. /\ UNCHANGED <<editors, grants, handoff, abandoned, away, evicted>> /\ holder' = "none"
      /\ \A e \in Editors : Holds(e) => editors[e].late
      /\ handoff.armed => handoff.late \/ handoff.promise # 0
      /\ requests' = [i \in DOMAIN requests |-> [requests[i] EXCEPT !.stale = @ \/ requests[i].answer = "ok"]]
      /\ budget' \in [leaves : 0..MaxLeaves, failures : 0..MaxFailures, events : 0..MaxEvents]
  BY SpendLemma DEF Expire, ClientUnchanged, IInv
<1>2. requests \in Seq(Request)
  BY DEF IInv, Sane
<1>3. /\ DOMAIN requests' = DOMAIN requests
      /\ \A i \in DOMAIN requests :
           /\ requests'[i] \in Request /\ requests'[i].why = requests[i].why
           /\ requests'[i].by = requests[i].by /\ requests'[i].answer = requests[i].answer
           /\ requests'[i].answer = "ok" => requests'[i].stale
  <2>1. DOMAIN requests' = DOMAIN requests
    BY <1>1
  <2>2. ASSUME NEW i \in DOMAIN requests
        PROVE  /\ requests[i] \in Request
               /\ requests'[i] = [requests[i] EXCEPT !.stale = @ \/ requests[i].answer = "ok"]
    BY <1>1, <1>2
  <2>3. \A r \in Request : \A s : s = [r EXCEPT !.stale = @ \/ r.answer = "ok"]
          => /\ s \in Request /\ s.why = r.why /\ s.by = r.by /\ s.answer = r.answer
             /\ s.answer = "ok" => s.stale
    BY DEF Request
  <2>4. ASSUME NEW i \in DOMAIN requests
        PROVE  /\ requests'[i] \in Request /\ requests'[i].why = requests[i].why
               /\ requests'[i].by = requests[i].by /\ requests'[i].answer = requests[i].answer
               /\ requests'[i].answer = "ok" => requests'[i].stale
    BY <2>2, <2>3
  <2> QED  BY <2>1, <2>4
<1>4. requests' \in Seq(Request)
  <2>1. Len(requests) \in Nat /\ DOMAIN requests = 1..Len(requests)
    BY <1>2
  <2>2. requests' \in [1..Len(requests) -> Request]
    BY <1>1, <1>3, <2>1
  <2> QED  BY <2>1, <2>2
<1>5. TypeOK'
  BY <1>1, <1>3 DEF IInv, TypeOK
<1>6. /\ \A s \in Sent' : /\ s.answer = "ok" => s.stale
                          /\ \E r \in Sent : s.why = r.why /\ s.by = r.by /\ s.answer = r.answer
      /\ \A r \in Sent : \E s \in Sent' : s.by = r.by /\ s.why = r.why
  BY <1>3 DEF Sent, ToSet
<1>7. Sane'
  <2>1. \A s \in Sent' : Fits(s)'
    BY <1>1, <1>6 DEF Fits, Born, IInv, Sane
  <2>2. \A e \in Editors : Waits(e)'
    BY <1>1 DEF IInv, Sane, Waits, Born
  <2> QED  BY <1>1, <1>4, <2>1, <2>2 DEF IInv, Sane
<1>8. GrantedBeats'
  BY <1>1, <1>6, BeatsStep DEF IInv, Mounted
<1>9. NoClaim'
  BY <1>1, <1>6 DEF NoClaim, Grants, HandsOver, Extends, Holds, Mounted
<1> QED  BY <1>5, <1>7, <1>8, <1>9 DEF IInv, Lock

\* What the other user does makes no claim of ours.
LEMMA OtherStep ==
  ASSUME IInv, OtherTakes \/ OtherLeaves
  PROVE  IInv'
<1>1. ClientUnchanged /\ UNCHANGED <<requests, evicted>> /\ holder # "me" /\ holder' \in {"none", "other"}
  BY DEF OtherTakes, OtherLeaves
<1>2. budget' \in [leaves : 0..MaxLeaves, failures : 0..MaxFailures, events : 0..MaxEvents]
  BY SpendLemma DEF OtherTakes, OtherLeaves, IInv, TypeOK
<1>3. Sent' = Sent /\ UNCHANGED <<editors, grants, handoff, abandoned, away>>
  BY <1>1 DEF Sent, ClientUnchanged
<1>4. TypeOK'
  BY <1>1, <1>2, <1>3 DEF IInv, TypeOK
<1>5. Sane'
  BY <1>1, <1>3 DEF IInv, Sane, Waits, Fits, Born
<1>6. GrantedBeats'
  BY <1>1, <1>3 DEF IInv, GrantedBeats, InFlight, Mounted
<1>7. NoClaim => NoClaim'
  BY <1>3 DEF NoClaim, Grants, HandsOver, Extends, Holds, Mounted
<1> QED  BY <1>1, <1>4, <1>5, <1>6, <1>7 DEF IInv, Lock

\* An editor that was not there takes over the handoff, or sends a POST of its own.
LEMMA MountStep == ASSUME IInv, NEW e \in Editors, Mount(e)  PROVE IInv'
<1> DEFINE kept    == handoff.promise
           fresh   == [Unborn EXCEPT !.life = "mounted", !.claimed = handoff.armed]
           waiting == [fresh EXCEPT !.acquiring = TRUE, !.promise = IF handoff.armed THEN kept ELSE e]
           answered == InitialAnswered(waiting, grants[kept], FALSE)
           r       == NewRequest("initial", e, FALSE)
           new     == editors'[e]
<1>1. /\ editors \in [Editors -> Editor] /\ requests \in Seq(Request) /\ handoff \in Handoff
      /\ \A d \in Editors : Waits(d)
  BY DEF IInv, Sane, TypeOK
<1>2. ~Born(e) /\ grants[e] = "none" /\ ~Mounted(e)
  BY <1>1 DEF Mount, Waits, Born, Mounted
<1>3. handoff.armed \in BOOLEAN /\ kept \in Editors \cup {0} /\ handoff.late \in BOOLEAN
  BY <1>1 DEF Handoff
<1>4. r \in Request /\ r.why = "initial" /\ r.by = e /\ r.answer = "none"
  BY DEF NewRequest, Request, Acquires, Answers
<1>5. /\ fresh \in Editor /\ fresh.life = "mounted" /\ ~fresh.holding /\ ~fresh.acquiring
      /\ ~fresh.initialLeft /\ fresh.phase = "acquiring"
  BY <1>3 DEF Unborn, Editor, Phases
<1>6. /\ waiting \in Editor /\ waiting.life = "mounted" /\ ~waiting.holding /\ waiting.acquiring
      /\ ~waiting.initialLeft /\ waiting.phase = "acquiring" /\ ~waiting.current
      /\ waiting.promise = IF handoff.armed THEN kept ELSE e
  BY <1>3 DEF Unborn, Editor, Phases
<1>7. /\ handoff' = NoHandoff /\ ~NoHandoff.armed /\ NoHandoff \in Handoff
      /\ editors' = [editors EXCEPT ![e] =
                       IF handoff.armed /\ kept = 0 THEN Grant(fresh, handoff.late)
                       ELSE IF handoff.armed /\ grants[kept] # "none" THEN answered ELSE waiting]
      /\ requests' = IF handoff.armed THEN requests ELSE Append(requests, r)
      /\ UNCHANGED <<grants, abandoned, away, holder, evicted, budget>>
  BY DEF Mount, NoHandoff, Handoff
<1> HIDE DEF fresh, waiting, r, answered
\* The first editor of a lock that is held, of a POST that was refused, or of one that is awaited.
<1>8. \/ /\ handoff.armed /\ kept = 0 /\ new = Grant(fresh, handoff.late)
      \/ /\ handoff.armed /\ kept \in Editors /\ grants[kept] # "none" /\ new = answered
      \/ /\ handoff.armed /\ kept \in Editors /\ grants[kept] = "none" /\ new = waiting
      \/ /\ ~handoff.armed /\ new = waiting
  BY <1>1, <1>3, <1>7
<1>9. /\ new \in Editor /\ new.life = "mounted" /\ Armed(new)
      /\ new.phase = "granted" => new.timers > 0
      /\ new.holding => handoff.armed /\ kept = 0 /\ new.late = handoff.late
      /\ new.acquiring => /\ ~new.initialLeft
                          /\ new.promise \in Editors /\ grants[new.promise] = "none"
                          /\ new.promise = e \/ (handoff.armed /\ new.promise = kept)
  <2>1. CASE handoff.armed /\ kept = 0 /\ new = Grant(fresh, handoff.late)
    BY <1>3, <1>5, <2>1, GrantLemma DEF Continues
  <2>2. CASE handoff.armed /\ kept \in Editors /\ grants[kept] # "none" /\ new = answered
    <3>1. grants[kept] \in Answers /\ grants[kept] # "ok"
      BY <2>2, EditorFacts DEF IInv, TypeOK, Sane
    <3>2. /\ waiting \in Editor /\ Armed(waiting) /\ (waiting.acquiring \/ waiting.initialLeft)
          /\ waiting.acquiring => ~waiting.initialLeft
      BY <1>6 DEF Armed
    <3> DEFINE a  == grants[kept]
               no == FALSE       \* named, so that the lemma about any "stale" applies to it
    <3> HIDE DEF a, no
    <3>3. /\ Continues(answered, waiting) /\ Armed(answered) /\ ~answered.acquiring
          /\ waiting.life = "mounted" /\ answered.phase = "granted" =>
               answered.timers > 0 \/ (waiting.phase = "granted" /\ a = "ok")
          /\ answered.holding = waiting.holding \/ a = "ok"
      <4>1. a \in Answers /\ no \in BOOLEAN /\ answered = InitialAnswered(waiting, a, no)
        BY <3>1 DEF a, no, answered
      <4> QED  BY <3>2, <4>1, AnsweredLemma
    <3> QED  BY <1>6, <2>2, <3>1, <3>3 DEF Continues, a
  <2>3. CASE new = waiting /\ (handoff.armed => kept \in Editors /\ grants[kept] = "none")
    BY <1>2, <1>3, <1>6, <2>3 DEF Armed
  <2> QED  BY <1>8, <2>1, <2>2, <2>3
<1>10. editors' \in [Editors -> Editor] /\ \A d \in Editors : d # e => editors'[d] = editors[d]
  BY <1>1, <1>7, <1>9
<1> HIDE DEF new
<1>11. requests' \in Seq(Request) /\ Sent \subseteq Sent' /\ Sent' \subseteq Sent \cup {r}
  <2>1. CASE requests' = Append(requests, r)
    BY <1>1, <1>4, <2>1, AppendLemma DEF Sent
  <2>2. CASE requests' = requests
    BY <1>1, <2>2 DEF Sent
  <2> QED  BY <1>7, <2>1, <2>2
<1>12. TypeOK'
  BY <1>7, <1>10, <1>11, TypeStep DEF IInv, TypeOK
<1>13. Born(e)' /\ Mounted(e)' /\ \A d \in Editors : d # e => (Born(d)' <=> Born(d)) /\ (Mounted(d)' <=> Mounted(d))
  BY <1>9, <1>10 DEF Born, Mounted, new
<1>14. \A s \in Sent : s.by # e
  BY <1>2, EditorFacts DEF IInv, Sane, Fits
<1>15. Sane'
  <2>1. Waits(e)'
    BY <1>2, <1>7, <1>9, <1>13, EditorFacts DEF Waits, new
  <2>2. \A d \in Editors : d # e => Waits(d)'
    BY <1>1, <1>7, <1>10 DEF Waits, Born
  <2>3. \A s \in Sent' : s \in Sent \/ Fits(s)'
    BY <1>4, <1>11, <1>13, EditorFacts DEF Fits
  <2>4. \A s \in Sent' : Fits(s)'
    BY <1>11, <1>13, <2>3, FitsLemma DEF IInv
  <2> QED  BY <1>7, <1>11, <2>1, <2>2, <2>4 DEF Sane
<1>16. GrantedBeats'
  <2>1. Mounted(e)' /\ editors'[e].phase = "granted" => Beats(e)'
    BY <1>9 DEF Beats, new
  <2> QED  BY <1>10, <1>11, <1>13, <2>1, BeatsStep DEF IInv
<1>17. ASSUME NoClaim  PROVE NoClaim'
  <2>1. \A d \in Editors : Holds(d)' => editors'[d].late
    BY <1>9, <1>10, <1>13, <1>17 DEF NoClaim, Holds, new
  <2>2. \A s \in Sent', d \in Editors : d # e /\ Grants(s, d)' => s \in Sent /\ Grants(s, d)
    BY <1>4, <1>10, <1>11, <1>13 DEF Grants
  <2>3. \A s \in Sent' : Grants(s, e)' => s.stale
    <3> SUFFICES ASSUME NEW s \in Sent', Grants(s, e)'  PROVE s.stale
      OBVIOUS
    <3>1. s \in Sent /\ s.by # e /\ s.answer = "ok"
      BY <1>4, <1>11, <1>14 DEF Grants
    <3>2. s.why = "initial" /\ new.acquiring /\ new.promise = s.by
      BY <3>1 DEF Grants, new
    <3>3. HandsOver(s)
      BY <1>9, <3>1, <3>2 DEF HandsOver
    <3> QED  BY <1>17, <3>1, <3>3 DEF NoClaim
  <2>4. \A s \in Sent' : Extends(s)' => s \in Sent /\ s.by \in Editors /\ s.by # e /\ Extends(s)
    <3> SUFFICES ASSUME NEW s \in Sent', Extends(s)'
                 PROVE  s \in Sent /\ s.by \in Editors /\ s.by # e /\ Extends(s)
      OBVIOUS
    <3>1. s \in Sent /\ s.by # e /\ s.why = "beat"
      BY <1>4, <1>11, <1>14 DEF Extends
    <3>2. s.by \in Editors
      BY <3>1, TypedLemma DEF IInv, Sane, Fits, Request
    <3> QED  BY <1>13, <3>1, <3>2 DEF Extends
  <2>5. \A d \in Editors : d # e /\ Holds(d)' => Holds(d)
    BY <1>10 DEF Holds, Mounted
  <2> QED  BY <1>7, <1>17, <2>1, <2>2, <2>3, <2>4, <2>5 DEF NoClaim, HandsOver
<1> QED  BY <1>7, <1>12, <1>15, <1>16, <1>17 DEF IInv, Lock
-----------------------------------------------------------------------------
(* Answers. *)

LEMMA DeliveredLemma ==
  ASSUME TypeOK, Sane, NEW i \in DOMAIN requests, NEW sent \in Seq(Request), Answered(i, sent)
  PROVE  /\ requests[i] \in Sent /\ requests[i] \in Request /\ Fits(requests[i])
         /\ requests' \in Seq(Request)
         /\ Sent' \subseteq Sent \cup ToSet(sent) /\ ToSet(sent) \subseteq Sent'
         /\ Sent \subseteq Sent' \cup {requests[i]}
<1> DEFINE rest == RemoveAt(requests, i)
<1>1. requests \in Seq(Request) /\ requests[i] \in Sent /\ requests[i] \in Request /\ Fits(requests[i])
  BY DEF Sane, Sent, ToSet
<1>2. /\ rest \in Seq(Request) /\ ToSet(rest) \subseteq ToSet(requests)
      /\ ToSet(requests) \subseteq ToSet(rest) \cup {requests[i]}
  BY <1>1, RemoveLemma
<1>3. rest \o sent \in Seq(Request) /\ ToSet(rest \o sent) = ToSet(rest) \cup ToSet(sent)
  BY <1>2, ConcatLemma
<1>4. requests' = rest \o sent /\ Sent' = ToSet(rest \o sent)
  BY DEF Answered, Sent
<1> HIDE DEF rest
<1> QED  BY <1>1, <1>2, <1>3, <1>4 DEF Sent

\* No request, or one.
LEMMA OneLemma ==
  ASSUME NEW r \in Request, NEW sent, sent = <<>> \/ sent = <<r>>
  PROVE  sent \in Seq(Request) /\ ToSet(sent) \subseteq {r} /\ (sent = <<r>> => r \in ToSet(sent))
<1>1. CASE sent = <<>>
  <2>1. sent \in Seq(Request) /\ DOMAIN sent = {} /\ sent # <<r>>
    BY <1>1
  <2> QED  BY <2>1 DEF ToSet
<1>2. CASE sent = <<r>>
  <2>1. sent \in Seq(Request) /\ DOMAIN sent = {1} /\ sent[1] = r
    BY <1>2
  <2> QED  BY <2>1 DEF ToSet
<1> QED  BY <1>1, <1>2

\* An answer whose continuation is that of one editor, and sends at most one request of its own.
LEMMA ContinueStep ==
  ASSUME IInv, NEW i \in DOMAIN requests, NEW new, NEW sent \in Seq(Request),
         UNCHANGED <<grants, handoff, abandoned, away, holder, evicted, budget>>,
         requests[i].by # 0, requests[i].why # "initial",
         editors' = [editors EXCEPT ![requests[i].by] = new],
         Answered(i, sent),
         LET ed == editors[requests[i].by]
         IN  /\ new \in Editor /\ Armed(new) /\ new.life = ed.life /\ new.promise = ed.promise
             /\ new.initialLeft = ed.initialLeft /\ new.acquiring = ed.acquiring
             /\ \A s \in ToSet(sent) : s.by = requests[i].by /\ s.answer = "none"
             /\ new.life = "mounted" /\ new.phase = "granted" /\ ~new.left =>
                  \/ new.timers > 0
                  \/ \E s \in ToSet(sent) : s.why = "reacquire"
                  \/ /\ requests[i].why \notin {"beat", "reacquire"}
                     /\ ed.phase = "granted" /\ ~ed.left /\ new.timers = ed.timers
             /\ new.life = "mounted" /\ new.holding =>
                  \/ ed.holding /\ new.late = ed.late
                  \/ Grants(requests[i], requests[i].by) /\ new.late = requests[i].stale
                  \/ ed.holding /\ Extends(requests[i]) /\ ~new.late
                  \/ ed.holding /\ new.late
  PROVE  IInv'
<1>0. PICK r : r = requests[i]
  OBVIOUS
<1> DEFINE e == r.by
           ed == editors[e]
<1>1. /\ r \in Sent /\ r \in Request /\ Fits(r)
      /\ requests' \in Seq(Request)
      /\ Sent' \subseteq Sent \cup ToSet(sent) /\ ToSet(sent) \subseteq Sent'
      /\ Sent \subseteq Sent' \cup {r}
  <2>1. /\ requests[i] \in Sent /\ requests[i] \in Request /\ Fits(requests[i])
        /\ requests' \in Seq(Request)
        /\ Sent' \subseteq Sent \cup ToSet(sent) /\ ToSet(sent) \subseteq Sent'
        /\ Sent \subseteq Sent' \cup {requests[i]}
    BY DeliveredLemma DEF IInv
  <2> QED  BY <1>0, <2>1
<1>2. e \in Editors /\ Born(e)
  BY <1>0, <1>1 DEF Fits, Request
<1>3. editors \in [Editors -> Editor] /\ ed \in Editor /\ Waits(e)
  BY <1>2 DEF IInv, TypeOK, Sane
<1>4. /\ new \in Editor /\ Armed(new) /\ new.life = ed.life /\ new.promise = ed.promise
      /\ new.initialLeft = ed.initialLeft /\ new.acquiring = ed.acquiring
      /\ \A s \in ToSet(sent) : s.by = e /\ s.answer = "none"
  BY <1>0
<1>5. new.life = "mounted" /\ new.phase = "granted" /\ ~new.left =>
                  \/ new.timers > 0
                  \/ \E s \in ToSet(sent) : s.why = "reacquire"
                  \/ /\ r.why \notin {"beat", "reacquire"}
                     /\ ed.phase = "granted" /\ ~ed.left /\ new.timers = ed.timers
  BY <1>0
<1>6. new.life = "mounted" /\ new.holding =>
                  \/ ed.holding /\ new.late = ed.late
                  \/ Grants(r, e) /\ new.late = r.stale
                  \/ ed.holding /\ Extends(r) /\ ~new.late
                  \/ ed.holding /\ new.late
  BY <1>0
<1>7. /\ editors' \in [Editors -> Editor] /\ editors'[e] = new
      /\ \A d \in Editors : d # e => editors'[d] = editors[d]
  BY <1>0, <1>2, <1>3, <1>4
<1>8. /\ UNCHANGED <<grants, handoff, abandoned, away, holder, evicted, budget>> /\ r.why # "initial"
  BY <1>0
<1> HIDE DEF e, ed
<1>9. TypeOK'
  BY <1>1, <1>7, <1>8, TypeStep DEF IInv, TypeOK
<1>10. \A d \in Editors : (Born(d)' <=> Born(d)) /\ (Mounted(d)' <=> Mounted(d))
  BY <1>4, <1>7 DEF Born, Mounted, ed
<1>11. \A s \in Sent' : s.answer = "ok" => s \in Sent
  BY <1>1, <1>4
<1>12. Sane'
  <2>1. \A s \in Sent' : \/ s \in Sent
                         \/ /\ (s.by \in Editors /\ Born(s.by)) \/ (s.by = 0 /\ s.why = "handoff")
                            /\ s.why = "beat" => s.answer # "held"
    BY <1>1, <1>2, <1>4
  <2>2. \A d \in Editors : \/ editors'[d] = editors[d]
                           \/ /\ Born(d) /\ Born(d)' /\ Armed(editors'[d])
                              /\ editors'[d].acquiring =>
                                   /\ editors[d].acquiring /\ editors'[d].promise = editors[d].promise
                                   /\ editors'[d].initialLeft = editors[d].initialLeft
    BY <1>2, <1>4, <1>7, <1>10 DEF ed
  <2>3. handoff'.armed /\ handoff'.promise # 0 => grants[handoff'.promise] # "ok"
    BY <1>8 DEF IInv, Sane
  <2> QED  BY <1>1, <1>8, <2>1, <2>2, <2>3, SaneStep DEF IInv
<1>13. GrantedBeats'
  <2>1. \A d \in Editors : d # e /\ Beats(d) => Beats(d)'
    BY <1>1, <1>7 DEF Beats, e
  <2>2. Mounted(e)' /\ editors'[e].phase = "granted" /\ ~editors'[e].left => Beats(e)'
    <3> SUFFICES ASSUME Mounted(e)', editors'[e].phase = "granted", ~editors'[e].left  PROVE Beats(e)'
      OBVIOUS
    <3>1. CASE new.timers > 0
      BY <1>7, <3>1 DEF Beats
    <3>2. CASE \E s \in ToSet(sent) : s.why = "reacquire"
      BY <1>1, <1>4, <3>2 DEF Beats
    <3>3. CASE r.why \notin {"beat", "reacquire"} /\ ed.phase = "granted" /\ ~ed.left /\ new.timers = ed.timers
      <4>1. Beats(e)
        BY <1>2, <1>10, <3>3, BeatsLemma DEF IInv, ed
      <4> QED  BY <1>1, <1>7, <3>3, <4>1 DEF Beats, ed
    <3> QED  BY <1>5, <1>7, <3>1, <3>2, <3>3 DEF Mounted
  <2> QED  BY <1>7, <1>10, <2>1, <2>2, BeatsLemma, BeatsNextLemma DEF IInv
<1>14. ASSUME NoClaim  PROVE NoClaim'
  <2>1. \A s \in Sent', d \in Editors : Grants(s, d)' => s \in Sent /\ Grants(s, d)
    BY <1>4, <1>7, <1>10, <1>11 DEF Grants, ed
  <2>2. \A s \in Sent' : HandsOver(s)' => s \in Sent /\ HandsOver(s)
    BY <1>8, <1>11 DEF HandsOver
  <2>3. \A s \in Sent' : Extends(s)' => s \in Sent /\ s.by \in Editors /\ Extends(s)
    <3> SUFFICES ASSUME NEW s \in Sent', Extends(s)'  PROVE s \in Sent /\ s.by \in Editors /\ Extends(s)
      OBVIOUS
    <3>1. s \in Sent /\ s.why = "beat"
      BY <1>11 DEF Extends
    <3>2. s.by \in Editors
      BY <3>1, TypedLemma DEF IInv, Sane, Fits, Request
    <3> QED  BY <1>10, <3>1, <3>2 DEF Extends
  <2>4. \A d \in Editors : d # e => (Holds(d)' <=> Holds(d)) /\ editors'[d].late = editors[d].late
    BY <1>7 DEF Holds, Mounted
  <2>5. Holds(e)' => Holds(e) \/ Grants(r, e)
    BY <1>6, <1>7, <1>10 DEF Holds, Mounted, ed
  <2>6. Holds(e)' => editors'[e].late
    <3>1. Extends(r) => ~Holds(e)
      BY <1>1, <1>14 DEF NoClaim, e
    <3>2. Grants(r, e) => r.stale
      BY <1>1, <1>2, <1>14 DEF NoClaim
    <3>3. Holds(e) => ed.late
      BY <1>2, <1>14 DEF NoClaim, ed
    <3> QED  BY <1>4, <1>6, <1>7, <3>1, <3>2, <3>3 DEF Holds, Mounted, ed
  <2>7. \A s \in Sent' : Extends(s)' => ~Holds(s.by)' /\ \A t \in Sent' : ~Grants(t, s.by)'
    BY <1>1, <1>2, <1>14, <2>1, <2>3, <2>4, <2>5 DEF NoClaim
  <2>8. handoff'.armed /\ handoff'.promise = 0 => handoff'.late
    BY <1>8, <1>14 DEF NoClaim
  <2> QED  BY <1>14, <2>1, <2>2, <2>4, <2>6, <2>7, <2>8 DEF NoClaim
<1> QED  BY <1>8, <1>9, <1>12, <1>13, <1>14 DEF IInv, Lock

\* An editor that is gone or has left gives the lock back, any other editor takes it.
LEMMA ReacquireDeliveredStep ==
  ASSUME IInv, NEW i \in DOMAIN requests, ReacquireDelivered(i), UNCHANGED <<away, holder, evicted, budget>>
  PROVE  IInv'
<1> DEFINE r     == requests[i]
           ed    == editors[r.by]
           on    == EndBeat(ed, r)
           left  == on.life = "gone" \/ on.left
           new   == IF r.answer # "ok" THEN LoseLock(on) ELSE IF left THEN on ELSE Grant(on, r.stale)
           late  == NewRequest("late", r.by, FALSE)
           sent  == IF r.answer = "ok" /\ left THEN <<late>> ELSE <<>>
<1>1. r \in Request /\ r.why = "reacquire" /\ r.by \in Editors /\ r.by # 0 /\ Born(r.by)
  <2>1. r \in Request /\ Fits(r)
    BY TypedLemma DEF IInv, Sane, Sent, ToSet
  <2> QED  BY <2>1, EditorFacts DEF ReacquireDelivered, Fits, Request
<1>2. ed \in Editor /\ Armed(ed) /\ r.stale \in BOOLEAN
  BY <1>1 DEF IInv, TypeOK, Sane, Waits, Request
<1>3. /\ late \in Request /\ late.by = r.by /\ late.answer = "none"
  BY <1>1 DEF NewRequest, Request, Releases, Answers
<1>4. /\ editors' = [editors EXCEPT ![r.by] = new] /\ Answered(i, sent)
      /\ UNCHANGED <<grants, handoff, abandoned, away, holder, evicted, budget>>
  BY DEF ReacquireDelivered
<1> HIDE DEF late
<1>5. sent \in Seq(Request) /\ \A s \in ToSet(sent) : s.by = r.by /\ s.answer = "none"
  BY <1>3, OneLemma
<1>6. /\ Continues(on, ed) /\ Armed(on) /\ on.phase = ed.phase /\ on.holding = ed.holding
      /\ on.acquiring = ed.acquiring /\ on.late = ed.late
  BY <1>2, EndBeatLemma DEF Armed
<1> HIDE DEF on, sent
<1>7. /\ Continues(new, ed) /\ Armed(new) /\ new.acquiring = ed.acquiring
      /\ new.life = "mounted" /\ new.phase = "granted" /\ ~new.left => new.timers > 0
      /\ new.life = "mounted" /\ new.holding =>
           \/ ed.holding /\ new.late = ed.late
           \/ r.answer = "ok" /\ ed.life = "mounted" /\ new.late = r.stale
  <2>1. CASE r.answer # "ok"
    BY <1>6, <2>1, LoseLemma DEF Continues
  <2>2. CASE r.answer = "ok" /\ left
    BY <1>2, <1>6, <2>2 DEF Continues
  <2>3. CASE r.answer = "ok" /\ ~left
    <3>1. ed.life \in {"unborn", "mounted", "gone"} /\ ed.life # "unborn"
      BY <1>1, <1>2 DEF Editor, Born
    <3> QED  BY <1>2, <1>6, <2>3, <3>1, GrantLemma DEF Continues
  <2> QED  BY <2>1, <2>2, <2>3
<1> HIDE DEF new
<1>8. r.answer = "ok" /\ ed.life = "mounted" => Grants(r, r.by)
  BY <1>1 DEF Grants, Mounted
<1> QED  BY <1>1, <1>4, <1>5, <1>7, <1>8, ContinueStep DEF Continues

\* A heartbeat that was answered: extended, lost, failed.
LEMMA BeatDeliveredStep ==
  ASSUME IInv, NEW i \in DOMAIN requests, requests[i].answer # "none", BeatDelivered(i),
         UNCHANGED <<away, holder, evicted, budget>>
  PROVE  IInv'
<1> DEFINE r      == requests[i]
           ed     == editors[r.by]
           ended  == EndBeat(ed, r)
           verify == ed.life = "mounted" /\ (r.answer = "lost" \/ (r.answer = "failed" /\ ed.late))
           new    == CASE verify -> ed
                       [] r.answer = "session" -> LoseLock(ended)
                       [] r.answer = "failed" /\ ~ed.late -> BeatFailed(ended)
                       [] r.answer = "ok" /\ ed.life = "mounted" /\ ~ed.left -> ScheduleHeartbeat(ended, r.stale)
                       [] OTHER -> ended
           again  == NewRequest("reacquire", r.by, TRUE)
           sent   == IF verify THEN <<again>> ELSE <<>>
<1>1. /\ r \in Request /\ r.why = "beat" /\ r.by \in Editors /\ r.by # 0 /\ Born(r.by)
      /\ r.answer \in {"ok", "lost", "failed", "session"}
  <2>1. r \in Request /\ Fits(r)
    BY TypedLemma DEF IInv, Sane, Sent, ToSet
  <2> QED  BY <2>1, EditorFacts DEF BeatDelivered, Fits, Request, Answers
<1>2. ed \in Editor /\ Armed(ed) /\ r.stale \in BOOLEAN
  BY <1>1 DEF IInv, TypeOK, Sane, Waits, Request
<1>3. /\ again \in Request /\ again.by = r.by /\ again.answer = "none" /\ again.why = "reacquire"
  BY <1>1 DEF NewRequest, Request, Acquires, Answers
<1>4. /\ editors' = [editors EXCEPT ![r.by] = new] /\ Answered(i, sent)
      /\ UNCHANGED <<grants, handoff, abandoned, away, holder, evicted, budget>>
  BY DEF BeatDelivered
<1> HIDE DEF again
<1>5. /\ sent \in Seq(Request) /\ \A s \in ToSet(sent) : s.by = r.by /\ s.answer = "none"
      /\ verify => \E s \in ToSet(sent) : s.why = "reacquire"
  BY <1>3, OneLemma
<1>6. /\ Continues(ended, ed) /\ Armed(ended) /\ ended.phase = ed.phase /\ ended.holding = ed.holding
      /\ ended.acquiring = ed.acquiring /\ ended.late = ed.late
  BY <1>2, EndBeatLemma DEF Armed
<1> HIDE DEF ended, sent
<1>7. /\ Continues(new, ed) /\ Armed(new) /\ new.acquiring = ed.acquiring
      /\ new.life = "mounted" /\ new.phase = "granted" /\ ~new.left => new.timers > 0 \/ verify
      /\ new.life = "mounted" /\ new.holding =>
           \/ ed.holding /\ new.late = ed.late
           \/ ed.holding /\ r.answer = "ok" /\ ed.life = "mounted" /\ new.late = r.stale
  <2>1. CASE verify
    BY <1>2, <2>1 DEF Continues
  <2>2. CASE ~verify /\ r.answer = "session"
    <3>1. new = LoseLock(ended)
      BY <2>2
    <3> QED  BY <1>6, <3>1, LoseLemma DEF Continues
  <2>3. CASE ~verify /\ r.answer = "failed" /\ ~ed.late
    <3>1. new = IF ended.life = "mounted" THEN ArmTimer(ended) ELSE ended
      BY <2>3 DEF BeatFailed
    <3> QED  BY <1>6, <3>1, ArmLemma DEF Continues
  <2>4. CASE ~verify /\ r.answer = "ok" /\ ed.life = "mounted" /\ ~ed.left
    <3>1. new = ScheduleHeartbeat(ended, r.stale)
      BY <2>4
    <3> QED  BY <1>2, <1>6, <2>4, <3>1, ScheduleLemma DEF Continues
  <2>5. CASE ~verify /\ (ed.life # "mounted" \/ ed.left) /\ r.answer # "session"
                     /\ ~(r.answer = "failed" /\ ~ed.late)
    <3>1. new = ended
      BY <2>5
    <3> QED  BY <1>6, <2>5, <3>1 DEF Continues
  <2> QED  BY <1>1, <2>1, <2>2, <2>3, <2>4, <2>5
<1>8. ed.life = "mounted" /\ r.answer = "ok" => r.stale \/ Extends(r)
  BY <1>1 DEF Extends, Mounted
<1> HIDE DEF new, verify
<1> QED  BY <1>1, <1>2, <1>4, <1>5, <1>7, <1>8, ContinueStep DEF Continues

\* The DELETE of leaving is done; who came back meanwhile acquires again.
LEMMA LeaveDeliveredStep ==
  ASSUME IInv, NEW i \in DOMAIN requests, LeaveDelivered(i), UNCHANGED <<away, holder, evicted, budget>>
  PROVE  IInv'
<1> DEFINE r      == requests[i]
           ed     == editors[r.by]
           done   == [ed EXCEPT !.leaveRelease = "settled", !.returning = FALSE]
           resume == ed.returning /\ done.life = "mounted" /\ done.left
           new    == IF resume THEN [done EXCEPT !.left = FALSE] ELSE done
           again  == NewRequest("reacquire", r.by, FALSE)
           sent   == IF resume THEN <<again>> ELSE <<>>
<1>1. r \in Request /\ r.why = "leave" /\ r.by \in Editors /\ r.by # 0 /\ Born(r.by)
  <2>1. r \in Request /\ Fits(r)
    BY TypedLemma DEF IInv, Sane, Sent, ToSet
  <2> QED  BY <2>1, EditorFacts DEF LeaveDelivered, Fits, Request
<1>2. ed \in Editor /\ Armed(ed)
  BY <1>1 DEF IInv, TypeOK, Sane, Waits
<1>3. /\ again \in Request /\ again.by = r.by /\ again.answer = "none" /\ again.why = "reacquire"
  BY <1>1 DEF NewRequest, Request, Acquires, Answers
<1>4. /\ editors' = [editors EXCEPT ![r.by] = new] /\ Answered(i, sent)
      /\ UNCHANGED <<grants, handoff, abandoned, away, holder, evicted, budget>>
  BY DEF LeaveDelivered
<1> HIDE DEF again
<1>5. /\ sent \in Seq(Request) /\ \A s \in ToSet(sent) : s.by = r.by /\ s.answer = "none"
      /\ resume => \E s \in ToSet(sent) : s.why = "reacquire"
  BY <1>3, OneLemma
<1>6. /\ Alike(new, ed) /\ (resume \/ new.left = ed.left)
  BY <1>2 DEF Alike, Editor
<1> HIDE DEF sent, resume, new
<1>7. Armed(new)
  BY <1>2, <1>6 DEF Alike, Armed
<1> QED  BY <1>1, <1>4, <1>5, <1>6, <1>7, ContinueStep DEF Alike

\* The first POST is answered: who waits for it acquires no more, and gets the lock or gives it back.
LEMMA InitialDeliveredStep ==
  ASSUME IInv, NEW i \in DOMAIN requests, requests[i].answer # "none", InitialDelivered(i),
         UNCHANGED <<away, holder, evicted, budget>>
  PROVE  IInv'
<1>0. PICK r : r = requests[i]
  OBVIOUS
<1>1. r \in Sent /\ r \in Request /\ r.why = "initial" /\ r.by \in Editors /\ r.by # 0 /\ Born(r.by)
  <2>1. r \in Sent
    BY <1>0 DEF Sent, ToSet
  <2>2. r \in Request /\ Fits(r)
    BY <2>1, TypedLemma DEF IInv, Sane
  <2> QED  BY <1>0, <2>1, <2>2, EditorFacts DEF InitialDelivered, Fits, Request
<1>2. r.answer \in Answers /\ r.stale \in BOOLEAN
  BY <1>1 DEF Request
<1> DEFINE W == {e \in Editors : Born(e) /\ editors[e].promise = r.by
                                 /\ (editors[e].acquiring \/ editors[e].initialLeft)}
           L == {e \in W : editors[e].leaveRelease = "waiting"}
           R == {e \in L : r.answer # "ok" /\ editors[e].returning /\ Mounted(e)}
           h == NewRequest("handoff", 0, FALSE)
           T == {NewRequest("leave", e, FALSE) : e \in L}
           H == {NewRequest("handoff", 0, FALSE) : o \in abandoned \cap {r.by}}
           F == IF r.answer # "ok" THEN {} ELSE T \cup H
           A == {NewRequest("reacquire", e, FALSE) : e \in R}
           sent == SetToSeq(F) \o SetToSeq(A)
           a(e) == InitialAnswered(editors[e], r.answer, r.stale)
           after(e) == IF e \notin L THEN a(e)
                       ELSE [a(e) EXCEPT !.leaveRelease = IF r.answer = "ok" THEN "sent" ELSE "settled"]
           new(e) == IF e \in R THEN [after(e) EXCEPT !.left = FALSE, !.returning = FALSE]
                     ELSE IF e \in W THEN after(e) ELSE editors[e]
<1>3. /\ grants' = [grants EXCEPT ![r.by] = r.answer]
      /\ abandoned' = abandoned \ {r.by}
      /\ handoff' = IF handoff.armed /\ handoff.promise = r.by /\ r.answer = "ok"
                    THEN [handoff EXCEPT !.promise = 0, !.late = r.stale] ELSE handoff
      /\ editors' = [e \in Editors |-> new(e)]
      /\ Answered(i, sent)
  BY <1>0 DEF InitialDelivered
<1>4. /\ editors \in [Editors -> Editor] /\ grants \in [Editors -> Answers] /\ handoff \in Handoff
      /\ abandoned \subseteq Editors
      /\ \A e \in Editors : editors[e] \in Editor /\ Waits(e)
  BY DEF IInv, TypeOK, Sane
<1>5. /\ W \subseteq Editors /\ L \subseteq W /\ R \subseteq L
      /\ \A e \in W : /\ editors[e] \in Editor /\ Armed(editors[e]) /\ Born(e) /\ editors[e].promise = r.by
                      /\ editors[e].acquiring \/ editors[e].initialLeft
                      /\ editors[e].acquiring => ~editors[e].initialLeft
      /\ \A e \in Editors \ W : editors[e].acquiring => editors[e].promise # r.by
  BY <1>4 DEF Waits
\* What is sent.
<1>6. h \in Request /\ h.why = "handoff" /\ h.by = 0 /\ h.answer = "none"
  BY DEF NewRequest, Request, Releases, Answers
<1>7. /\ IsFiniteSet(T) /\ T \subseteq Request
      /\ \A s \in T : s.by \in L /\ s.why = "leave" /\ s.answer = "none"
      /\ \A e \in L : \E s \in T : s.by = e /\ s.why = "leave"
  <2>1. L \in SUBSET Editors /\ "leave" \in Acquires \cup Releases
    BY <1>5 DEF Releases
  <2>2. Sends(T, "leave", L)
    BY <2>1, RequestsLemma
  <2> QED  BY <2>2 DEF Sends
<1>8. /\ IsFiniteSet(A) /\ A \subseteq Request
      /\ \A s \in A : s.by \in R /\ s.why = "reacquire" /\ s.answer = "none"
      /\ \A e \in R : \E s \in A : s.by = e /\ s.why = "reacquire"
  <2>1. R \in SUBSET Editors /\ "reacquire" \in Acquires \cup Releases
    BY <1>5 DEF Acquires
  <2>2. Sends(A, "reacquire", R)
    BY <2>1, RequestsLemma
  <2> QED  BY <2>2 DEF Sends
<1>9. H \subseteq {h}
  OBVIOUS
<1> HIDE DEF T, A, h, H
<1>10. IsFiniteSet(F) /\ F \subseteq Request /\ F \subseteq T \cup {h}
  <2>1. IsFiniteSet({h}) /\ H \in SUBSET {h}
    BY <1>9, FS_Singleton
  <2>2. IsFiniteSet(H)
    BY <2>1, FS_Subset
  <2>3. IsFiniteSet(T \cup H)
    BY <1>7, <2>2, FS_Union
  <2> QED  BY <1>6, <1>7, <1>9, <2>3, FS_EmptySet
<1> HIDE DEF F
<1>11. sent \in Seq(Request) /\ ToSet(sent) = F \cup A
  <2>1. SetToSeq(F) \in Seq(F) /\ ToSet(SetToSeq(F)) = F /\ SetToSeq(A) \in Seq(A) /\ ToSet(SetToSeq(A)) = A
    BY <1>8, <1>10, SetToSeqLemma
  <2>2. SetToSeq(F) \in Seq(Request) /\ SetToSeq(A) \in Seq(Request)
    BY <1>8, <1>10, <2>1
  <2> QED  BY <2>1, <2>2, ConcatLemma
<1> HIDE DEF sent
<1>12. /\ requests' \in Seq(Request)
       /\ Sent' \subseteq Sent \cup ToSet(sent) /\ ToSet(sent) \subseteq Sent'
       /\ Sent \subseteq Sent' \cup {r}
  BY <1>0, <1>3, <1>11, DeliveredLemma DEF IInv
<1>13. \A s \in Sent' : \/ s \in Sent
                        \/ /\ s.answer = "none"
                           /\ (s.by \in Editors /\ Born(s.by)) \/ (s.by = 0 /\ s.why = "handoff")
                           /\ s.why # "initial" /\ s.why # "beat"
  BY <1>5, <1>6, <1>7, <1>8, <1>10, <1>11, <1>12
\* What becomes of the editors.
<1>14. ASSUME NEW e \in W
       PROVE  /\ Continues(a(e), editors[e]) /\ Armed(a(e)) /\ ~a(e).acquiring
              /\ editors[e].life = "mounted" /\ a(e).phase = "granted" =>
                   a(e).timers > 0 \/ (editors[e].phase = "granted" /\ r.answer = "ok")
              /\ a(e).timers = editors[e].timers \/ a(e).timers > 0
              /\ \/ a(e).holding = editors[e].holding /\ a(e).late = editors[e].late
                 \/ editors[e].acquiring /\ editors[e].life = "mounted" /\ r.answer = "ok" /\ a(e).late = r.stale
  BY <1>2, <1>5, AnsweredLemma
<1>15. ASSUME NEW e \in W
       PROVE  Alike(new(e), a(e)) /\ (e \notin R => new(e).left = a(e).left)
  <2> DEFINE b == a(e)
  <2>1. b \in Editor
    BY <1>14 DEF Continues
  <2> HIDE DEF b
  <2>2. new(e) = IF e \in R THEN [(IF e \notin L THEN b ELSE [b EXCEPT !.leaveRelease =
                                     IF r.answer = "ok" THEN "sent" ELSE "settled"])
                                    EXCEPT !.left = FALSE, !.returning = FALSE]
                 ELSE IF e \notin L THEN b
                 ELSE [b EXCEPT !.leaveRelease = IF r.answer = "ok" THEN "sent" ELSE "settled"]
    BY DEF b
  <2> HIDE DEF new
  <2> DEFINE c == IF e \notin L THEN b
                  ELSE [b EXCEPT !.leaveRelease = IF r.answer = "ok" THEN "sent" ELSE "settled"]
  <2>3. Alike(c, b) /\ c.left = b.left
    BY <2>1 DEF Alike, Editor
  <2>4. new(e) = IF e \in R THEN [c EXCEPT !.left = FALSE, !.returning = FALSE] ELSE c
    BY <2>2
  <2> HIDE DEF c, R
  <2>5. ASSUME e \in R PROVE Alike(new(e), b)
    <3>1. c \in Editor
      BY <2>3 DEF Alike
    <3>2. Alike([c EXCEPT !.left = FALSE, !.returning = FALSE], c)
      BY <3>1, ReturnLemma
    <3>3. new(e) = [c EXCEPT !.left = FALSE, !.returning = FALSE]
      BY <2>4, <2>5
    <3>4. Alike(new(e), c)
      BY <3>2, <3>3
    <3> QED  BY <2>3, <3>4 DEF Alike
  <2>6. ASSUME e \notin R PROVE Alike(new(e), b) /\ new(e).left = b.left
    <3>1. new(e) = c
      BY <2>4, <2>6
    <3> QED  BY <2>3, <3>1
  <2> QED  BY <2>5, <2>6 DEF b
<1>16. \A e \in Editors \ W : new(e) = editors[e]
  BY <1>5
<1>17. ASSUME NEW e \in W
       PROVE  /\ new(e) \in Editor /\ Armed(new(e)) /\ ~new(e).acquiring
              /\ new(e).life = editors[e].life
              /\ e \notin R => new(e).left = editors[e].left
              /\ new(e).life = "mounted" /\ new(e).phase = "granted" =>
                   new(e).timers > 0 \/ editors[e].phase = "granted"
              /\ new(e).timers = editors[e].timers \/ new(e).timers > 0
              /\ \/ new(e).holding = editors[e].holding /\ new(e).late = editors[e].late
                 \/ editors[e].acquiring /\ editors[e].life = "mounted" /\ r.answer = "ok" /\ new(e).late = r.stale
  <2> HIDE DEF a, new
  <2> QED  BY <1>14, <1>15 DEF Alike, Continues, Armed
<1> HIDE DEF new
<1>18. /\ editors' \in [Editors -> Editor] /\ \A e \in Editors : editors'[e] = new(e)
  BY <1>3, <1>4, <1>5, <1>16, <1>17
<1>19. handoff' \in Handoff /\ grants' \in [Editors -> Answers]
  BY <1>1, <1>2, <1>3, <1>4 DEF Handoff
<1>20. TypeOK'
  <2>1. \A k \in DOMAIN requests' : requests'[k] \in Request
    BY <1>12
  <2> QED  BY <1>3, <1>4, <1>18, <1>19, <2>1 DEF IInv, TypeOK
<1>21. \A e \in Editors : (Born(e)' <=> Born(e)) /\ (Mounted(e)' <=> Mounted(e))
  BY <1>16, <1>17, <1>18 DEF Born, Mounted
<1>22. Sane'
  <2>1. ASSUME NEW e \in W  PROVE Waits(e)'
    BY <1>5, <1>17, <1>18, <1>21, <2>1 DEF Waits
  <2>2. ASSUME NEW e \in Editors \ W  PROVE Waits(e)'
    <3>1. editors'[e] = editors[e] /\ Waits(e)
      BY <1>4, <1>16, <1>18
    <3>2. ~Born(e) => grants'[e] = grants[e]
      BY <1>1, <1>3, <1>4
    <3>3. editors[e].acquiring => editors[e].promise # r.by /\ editors[e].promise \in Editors
      BY <1>4, <1>5, <3>1 DEF Editor, Waits
    <3>4. editors[e].acquiring => grants'[editors[e].promise] = grants[editors[e].promise]
      BY <1>3, <1>4, <3>3
    <3> QED  BY <1>21, <3>1, <3>2, <3>4 DEF Waits
  <2>3. \A s \in Sent' : Fits(s)'
    <3>1. \A s \in Sent' : s \in Sent \/ Fits(s)'
      BY <1>13, <1>21, EditorFacts DEF Fits
    <3> QED  BY <1>21, <3>1, FitsLemma DEF IInv
  <2>4. handoff'.armed /\ handoff'.promise # 0 => grants'[handoff'.promise] # "ok"
    <3>1. handoff.armed /\ handoff.promise # 0 => grants[handoff.promise] # "ok" /\ handoff.promise \in Editors
      BY <1>4 DEF IInv, Sane, Handoff
    <3>2. CASE handoff.armed /\ handoff.promise = r.by /\ r.answer = "ok"
      BY <1>3, <1>4, <3>2 DEF Handoff
    <3>3. CASE ~(handoff.armed /\ handoff.promise = r.by /\ r.answer = "ok")
      BY <1>1, <1>3, <1>4, <3>1, <3>3
    <3> QED  BY <3>2, <3>3
  <2> QED  BY <1>12, <2>1, <2>2, <2>3, <2>4 DEF Sane
<1>23. GrantedBeats'
  <2>1. \A s \in Sent : s.why \in {"beat", "reacquire"} => s \in Sent'
    BY <1>1, <1>12
  <2>2. \A e \in R : Beats(e)'
    BY <1>8, <1>11, <1>12 DEF Beats
  <2>3. ASSUME NEW e \in Editors, Mounted(e)', editors'[e].phase = "granted", ~editors'[e].left
        PROVE  \/ Beats(e)'
               \/ /\ Mounted(e) /\ editors[e].phase = "granted" /\ ~editors[e].left
                  /\ editors[e].timers > 0 => editors'[e].timers > 0
    <3>1. CASE e \in R
      BY <2>2, <3>1
    <3>2. CASE e \in W \ R
      BY <1>17, <1>18, <1>21, <2>3, <3>2 DEF Beats, Mounted
    <3>3. CASE e \notin W
      BY <1>16, <1>18, <1>21, <2>3, <3>3
    <3> QED  BY <1>5, <3>1, <3>2, <3>3
  <2> QED  BY <2>1, <2>3, BeatsStep DEF IInv
<1>24. ASSUME NoClaim  PROVE NoClaim'
  <2>1. \A s \in Sent' : s.answer = "ok" => s \in Sent
    BY <1>13
  <2>2. \A e \in Editors : editors'[e].acquiring => e \notin W /\ editors'[e] = editors[e]
    BY <1>16, <1>17, <1>18
  <2>3. \A s \in Sent', e \in Editors : Grants(s, e)' => s \in Sent /\ Grants(s, e)
    BY <1>21, <2>1, <2>2 DEF Grants
  <2>4. \A e \in W : Holds(e)' => (Holds(e) /\ editors'[e].late = editors[e].late)
                                  \/ (Grants(r, e) /\ editors'[e].late = r.stale)
    BY <1>1, <1>5, <1>17, <1>18, <1>21 DEF Holds, Grants, Mounted
  <2>5. \A e \in Editors \ W : Holds(e)' => Holds(e) /\ editors'[e].late = editors[e].late
    BY <1>16, <1>18, <1>21 DEF Holds
  <2>6. \A e \in Editors : Holds(e)' => editors'[e].late
    BY <1>1, <1>5, <1>24, <2>4, <2>5 DEF NoClaim
  <2>7. handoff'.armed /\ handoff'.promise = 0 => handoff'.late
    <3>1. CASE handoff.armed /\ handoff.promise = r.by /\ r.answer = "ok"
      <4>1. HandsOver(r)
        BY <1>1, <3>1 DEF HandsOver
      <4>2. r.stale
        BY <1>1, <1>24, <4>1 DEF NoClaim
      <4> QED  BY <1>3, <1>4, <3>1, <4>2 DEF Handoff
    <3>2. CASE ~(handoff.armed /\ handoff.promise = r.by /\ r.answer = "ok")
      BY <1>3, <1>24, <3>2 DEF NoClaim
    <3> QED  BY <3>1, <3>2
  <2>8. \A s \in Sent' : HandsOver(s)' => s \in Sent /\ HandsOver(s)
    <3> SUFFICES ASSUME NEW s \in Sent', HandsOver(s)'  PROVE s \in Sent /\ HandsOver(s)
      OBVIOUS
    <3>1. s \in Sent /\ s.why = "initial" /\ s.answer = "ok"
      BY <2>1 DEF HandsOver
    <3>2. s.by # 0
      BY <3>1 DEF IInv, Sane, Fits
    <3>3. handoff' = handoff
      BY <1>3, <1>4, <3>2 DEF HandsOver, Handoff
    <3> QED  BY <3>1, <3>3 DEF HandsOver
  <2>9. \A s \in Sent' : Extends(s)' => s \in Sent /\ s.by \in Editors /\ Extends(s)
    <3> SUFFICES ASSUME NEW s \in Sent', Extends(s)'  PROVE s \in Sent /\ s.by \in Editors /\ Extends(s)
      OBVIOUS
    <3>1. s \in Sent /\ s.why = "beat"
      BY <2>1 DEF Extends
    <3>2. s.by \in Editors
      BY <3>1, TypedLemma DEF IInv, Sane, Fits, Request
    <3> QED  BY <1>21, <3>1, <3>2 DEF Extends
  <2>10. \A s \in Sent' : Extends(s)' => ~Holds(s.by)' /\ \A t \in Sent' : ~Grants(t, s.by)'
    BY <1>1, <1>5, <1>24, <2>3, <2>4, <2>5, <2>9 DEF NoClaim
  <2> QED  BY <1>24, <2>3, <2>6, <2>7, <2>8, <2>10 DEF NoClaim
<1> QED  BY <1>20, <1>22, <1>23, <1>24 DEF IInv, Lock

LEMMA DeliverStep == ASSUME IInv, Deliver  PROVE IInv'
<1>1. PICK i \in DOMAIN requests :
        /\ requests[i].answer # "none"
        /\ InitialDelivered(i) \/ ReacquireDelivered(i) \/ BeatDelivered(i) \/ LeaveDelivered(i)
  BY DEF Deliver
<1>2. UNCHANGED <<away, holder, evicted, budget>>
  BY DEF Deliver
<1> QED
  BY <1>1, <1>2, InitialDeliveredStep, ReacquireDeliveredStep, BeatDeliveredStep, LeaveDeliveredStep

LEMMA ServeStep == ASSUME IInv, Serve  PROVE IInv'
<1>1. PICK i \in DOMAIN requests : ServeAcquire(i) \/ ServeBeat(i) \/ ServeRelease(i)
  BY DEF Serve, IsNext
<1>2. ClientUnchanged /\ UNCHANGED budget
  BY DEF Serve
<1> QED  BY <1>1, <1>2, ServeAcquireStep, ServeBeatStep, ServeReleaseStep
-----------------------------------------------------------------------------
LEMMA InitLemma == Init => IInv
<1> SUFFICES ASSUME Init  PROVE IInv
  OBVIOUS
<1>1. Unborn \in Editor
  BY DEF Unborn, Editor, Phases
<1>2. /\ editors \in [Editors -> Editor] /\ grants \in [Editors -> Answers]
      /\ handoff \in Handoff /\ requests \in Seq(Request) /\ Sent = {}
  BY <1>1 DEF Init, Answers, NoHandoff, Handoff, Sent, ToSet
<1>3. budget \in [leaves : 0..MaxLeaves, failures : 0..MaxFailures, events : 0..MaxEvents]
  BY BoundsAssumption DEF Init
<1>4. TypeOK
  <2>1. abandoned = {} /\ away = FALSE /\ holder = "none" /\ evicted = FALSE
    BY DEF Init
  <2>2. abandoned \subseteq Editors /\ away \in BOOLEAN /\ holder \in {"none", "me", "other"} /\ evicted \in BOOLEAN
    BY <2>1
  <2>3. \A i \in DOMAIN requests : requests[i] \in Request
    BY <1>2
  <2> QED  BY <1>2, <1>3, <2>2, <2>3 DEF TypeOK
<1>5. \A e \in Editors : editors[e] = Unborn /\ ~Mounted(e)
  BY DEF Init, Unborn, Mounted
<1>6. Sane
  <2>1. \A e \in Editors : Waits(e)
    BY <1>5 DEF Init, Waits, Armed, Born, Unborn
  <2> QED  BY <1>2, <2>1 DEF Init, Sane, NoHandoff
<1>7. GrantedBeats
  BY <1>5 DEF GrantedBeats
<1>8. NoClaim
  BY <1>2, <1>5 DEF Init, NoClaim, Holds, NoHandoff
<1> QED  BY <1>4, <1>6, <1>7, <1>8 DEF IInv, Lock

LEMMA StutterLemma == IInv /\ UNCHANGED vars => IInv'
<1> SUFFICES ASSUME IInv, UNCHANGED vars  PROVE IInv'
  OBVIOUS
<1>1. UNCHANGED <<editors, grants, handoff, abandoned, requests, away, holder, evicted, budget>> /\ Sent' = Sent
  BY DEF vars, Sent
<1>2. TypeOK'
  BY <1>1 DEF IInv, TypeOK
<1>3. Sane'
  BY <1>1 DEF IInv, Sane, Waits, Fits, Born
<1>4. GrantedBeats'
  BY <1>1 DEF IInv, GrantedBeats, InFlight, Mounted
<1>5. NoClaim => NoClaim'
  BY <1>1 DEF NoClaim, Grants, HandsOver, Extends, Holds, Mounted
<1> QED  BY <1>1, <1>2, <1>3, <1>4, <1>5 DEF IInv, Lock

LEMMA NextLemma == IInv /\ [Next]_vars => IInv'
<1> SUFFICES ASSUME IInv, [Next]_vars  PROVE IInv'
  OBVIOUS
<1>1. CASE \E e \in Editors : Mount(e) \/ Unmount(e) \/ Beat(e) \/ BeatNow(e)
  BY <1>1, MountStep, UnmountStep, BeatStep, BeatNowStep
<1>2. CASE HandoffTimer
  BY <1>2, HandoffTimerStep
<1>3. CASE Deliver
  BY <1>3, DeliverStep
<1>4. CASE Leave
  BY <1>4, LeaveStep
<1>5. CASE Return
  BY <1>5, ReturnStep
<1>6. CASE Serve
  BY <1>6, ServeStep
<1>7. CASE Fail \/ LoseAnswer
  BY <1>7, FailStep, LoseAnswerStep
<1>8. CASE Lapse
  BY <1>8, LapseStep
<1>9. CASE Expire
  BY <1>9, ExpireStep
<1>10. CASE OtherTakes \/ OtherLeaves
  BY <1>10, OtherStep
<1>11. CASE UNCHANGED vars
  BY <1>11, StutterLemma
<1> QED  BY <1>1, <1>2, <1>3, <1>4, <1>5, <1>6, <1>7, <1>8, <1>9, <1>10, <1>11 DEF Next

LEMMA InvariantLemma == Spec => []IInv
BY InitLemma, NextLemma, PTL DEF Spec

\* The variables of the editors, of the handoff and of the service have their types, whatever
\* the order in which requests are served and answered (useEditLock.ts:20-345).
THEOREM LockTypeOKTheorem == Spec => []TypeOK
<1>1. IInv => TypeOK
  BY DEF IInv
<1> QED  BY <1>1, InvariantLemma, PTL

\* An editor that shows "granted" always has a heartbeat ahead of it: a timer that is armed, or a
\* request whose continuation arms one or gives the lock up (useEditLock.ts:100-199).
THEOREM GrantedBeatsTheorem == Spec => []GrantedBeats
<1>1. IInv => GrantedBeats
  BY DEF IInv
<1> QED  BY <1>1, InvariantLemma, PTL

\* An editor within its deadline holds the lock at the server unless a DELETE of this page took it:
\* the deadline an editor keeps is never later than the server's (useEditLock.ts:74-77).
THEOREM OnTimeMeansHeldTheorem == Spec => []OnTimeMeansHeld
<1>1. IInv => OnTimeMeansHeld
  BY DEF IInv, Lock, NoClaim, OnTimeMeansHeld
<1> QED  BY <1>1, InvariantLemma, PTL
-----------------------------------------------------------------------------
(* The heartbeats of an editor are one chain as long as the page was never *)
(* left: a timer, or a heartbeat that is awaited, and never two. So when   *)
(* the chain gives the lock up, nothing is left that could take it again.  *)

\* It was never left.
Never(ed) == ~ed.left /\ ~ed.initialLeft /\ ed.leaveRelease = "settled" /\ ~ed.returning

\* A request of the chain of editor e, and how many of them wait in s: at most one, or none.
Knocks(r, e) == r.by = e /\ r.why \in {"beat", "reacquire"}
Single(s, e) == \A i, j \in DOMAIN s : Knocks(s[i], e) /\ Knocks(s[j], e) => i = j
Silent(s, e) == \A i \in DOMAIN s : ~Knocks(s[i], e)

Chain(ed, s, e) ==
  /\ Never(ed)
  /\ ed.timers \in {0, 1} /\ (ed.timers = 1 => ed.current)
  /\ Single(s, e)
  /\ ~Silent(s, e) => ed.beating /\ ed.timers = 0 /\ ~ed.acquiring
  /\ ed.acquiring => ed.timers = 0 /\ ~ed.holding
  /\ ed.phase = "lost" /\ ed.life = "mounted"
       => ~ed.holding /\ ~ed.acquiring /\ ed.timers = 0 /\ Silent(s, e)

Proper(r) == r.why # "leave" /\ (r.why \in {"beat", "reacquire"} => r.inBeat)

OneChain ==
  /\ \A e \in Editors : Chain(editors[e], requests, e)
  /\ \A r \in Sent : Proper(r)

OnceInv == budget.leaves = MaxLeaves => OneChain

\* The step of LostIsFinal.
LostStays ==
  \A e \in Editors : Mounted(e) /\ editors[e].phase = "lost" /\ budget.leaves = MaxLeaves
    => editors'[e].phase = "lost"

\* What is sent by others changes nothing for an editor.
LEMMA ConcatChain ==
  ASSUME NEW S, NEW s \in Seq(S), NEW t \in Seq(S), NEW e, Silent(t, e)
  PROVE  (Single(s, e) => Single(s \o t, e)) /\ (Silent(s, e) => Silent(s \o t, e))
<1>1. /\ Len(s) \in Nat /\ Len(t) \in Nat /\ DOMAIN s = 1..Len(s) /\ DOMAIN t = 1..Len(t)
      /\ DOMAIN (s \o t) = 1..(Len(s) + Len(t))
  OBVIOUS
<1>2. \A k \in DOMAIN (s \o t) : \/ k \in DOMAIN s /\ (s \o t)[k] = s[k]
                                 \/ k - Len(s) \in DOMAIN t /\ (s \o t)[k] = t[k - Len(s)]
  BY <1>1
<1>3. \A k \in DOMAIN (s \o t) : Knocks((s \o t)[k], e) => k \in DOMAIN s /\ Knocks(s[k], e)
  BY <1>2 DEF Silent
<1> QED  BY <1>3 DEF Single, Silent

\* The first request of a chain.
LEMMA AppendChain ==
  ASSUME NEW S, NEW s \in Seq(S), NEW x \in S, NEW e
  PROVE  /\ Silent(s, e) => Single(Append(s, x), e)
         /\ ~Knocks(x, e) => /\ Single(s, e) => Single(Append(s, x), e)
                             /\ Silent(s, e) => Silent(Append(s, x), e)
<1>1. /\ Len(s) \in Nat /\ DOMAIN s = 1..Len(s) /\ DOMAIN Append(s, x) = 1..(Len(s) + 1)
      /\ \A k \in DOMAIN s : Append(s, x)[k] = s[k]
      /\ Append(s, x)[Len(s) + 1] = x
  OBVIOUS
<1>2. \A k \in DOMAIN Append(s, x) : \/ k \in DOMAIN s /\ Append(s, x)[k] = s[k]
                                     \/ k = Len(s) + 1 /\ Append(s, x)[k] = x
  BY <1>1
<1> QED  BY <1>2 DEF Single, Silent

\* A request that is taken off was the only one of its chain.
LEMMA RemoveChain ==
  ASSUME NEW S, NEW s \in Seq(S), NEW i \in DOMAIN s, NEW e
  PROVE  /\ Single(s, e) => Single(RemoveAt(s, i), e)
         /\ Silent(s, e) => Silent(RemoveAt(s, i), e)
         /\ Single(s, e) /\ Knocks(s[i], e) => Silent(RemoveAt(s, i), e)
<1> DEFINE a == SubSeq(s, 1, i - 1)
           b == SubSeq(s, i + 1, Len(s))
           new == RemoveAt(s, i)
           old(k) == IF k < i THEN k ELSE k + 1
<1>1. Len(s) \in Nat /\ DOMAIN s = 1..Len(s) /\ i \in 1..Len(s)
  OBVIOUS
<1>2. a \in Seq(S) /\ Len(a) = i - 1 /\ \A k \in 1..(i - 1) : a[k] = s[k]
  BY <1>1
<1>3. b \in Seq(S) /\ Len(b) = Len(s) - i /\ \A k \in 1..(Len(s) - i) : b[k] = s[k + i]
  BY <1>1
<1>4. new = a \o b
  BY DEF RemoveAt
<1> HIDE DEF a, b, new
<1>5. /\ DOMAIN new = 1..(Len(s) - 1)
      /\ \A k \in 1..(i - 1) : new[k] = a[k]
      /\ \A k \in i..(Len(s) - 1) : new[k] = b[k - (i - 1)]
  <2>1. a \o b \in Seq(S) /\ Len(a \o b) = Len(a) + Len(b)
    <3>1. a \in Seq(S) /\ b \in Seq(S)
      BY <1>2, <1>3
    <3>2. a \o b \in Seq(S)
      BY <3>1
    <3> QED  BY <3>1, <3>2
  <2>2. Len(a) + Len(b) = Len(s) - 1
    BY <1>1, <1>2, <1>3
  <2>3. DOMAIN (a \o b) = 1..(Len(s) - 1)
    BY <2>1, <2>2
  <2>4. \A k \in 1..(i - 1) : (a \o b)[k] = a[k]
    BY <1>1, <1>2, <1>3
  <2>5. \A k \in i..(Len(s) - 1) : (a \o b)[k] = b[k - (i - 1)]
    BY <1>1, <1>2, <1>3
  <2> QED  BY <1>4, <2>3, <2>4, <2>5
<1>6. ASSUME NEW k \in DOMAIN new  PROVE new[k] = s[old(k)] /\ old(k) \in DOMAIN s /\ old(k) # i
  <2>1. CASE k < i
    <3>1. k \in 1..(i - 1)
      BY <1>1, <1>5, <2>1
    <3>2. new[k] = a[k]
      BY <1>5, <3>1
    <3> QED  BY <1>1, <1>2, <2>1, <3>1, <3>2
  <2>2. CASE ~(k < i)
    <3>1. /\ k \in i..(Len(s) - 1) /\ k - (i - 1) \in 1..(Len(s) - i)
          /\ (k - (i - 1)) + i = k + 1 /\ k + 1 \in 1..Len(s)
      BY <1>1, <1>5, <2>2
    <3>2. new[k] = b[k - (i - 1)]
      BY <1>5, <3>1
    <3>3. new[k] = s[k + 1]
      BY <1>3, <3>1, <3>2
    <3> QED  BY <1>1, <1>5, <2>2, <3>1, <3>3
  <2> QED  BY <2>1, <2>2
<1>7. \A j, k \in DOMAIN new : old(j) = old(k) => j = k
  BY <1>1, <1>5
<1> HIDE DEF old
<1>8. \A k \in DOMAIN new : Knocks(new[k], e) <=> Knocks(s[old(k)], e)
  BY <1>6
<1>9. Single(s, e) => Single(new, e)
  BY <1>6, <1>7, <1>8 DEF Single
<1>10. Silent(s, e) => Silent(new, e)
  BY <1>6, <1>8 DEF Silent
<1>11. Single(s, e) /\ Knocks(s[i], e) => Silent(new, e)
  BY <1>6, <1>8 DEF Single, Silent
<1> QED  BY <1>9, <1>10, <1>11 DEF new

\* An answer changes neither whose request it is nor why it was sent.
LEMMA ReplaceChain ==
  ASSUME NEW s, NEW t, NEW e, DOMAIN t = DOMAIN s,
         \A k \in DOMAIN s : t[k].by = s[k].by /\ t[k].why = s[k].why
  PROVE  (Single(s, e) => Single(t, e)) /\ (Silent(s, e) => Silent(t, e))
BY DEF Single, Silent, Knocks

\* An editor that changes in nothing the chain is about, beside requests that are not of it.
LEMMA SameChain ==
  ASSUME NEW ed, NEW new, NEW s, NEW t, NEW e, Chain(ed, s, e),
         Single(s, e) => Single(t, e), Silent(s, e) => Silent(t, e),
         Never(new), new.timers = ed.timers, new.current = ed.current, new.beating = ed.beating,
         new.acquiring = ed.acquiring, new.phase = ed.phase, new.holding = ed.holding,
         new.life = ed.life
  PROVE  Chain(new, t, e)
BY DEF Chain

\* Nobody's callback runs: the requests change in nothing the chain is about.
LEMMA ServerChain ==
  ASSUME OneChain, editors' = editors,
         \A e \in Editors : /\ Single(requests, e) => Single(requests', e)
                            /\ Silent(requests, e) => Silent(requests', e),
         \A r \in Sent' : Proper(r)
  PROVE  OneChain' /\ LostStays
<1>1. \A e \in Editors : Never(editors[e]) /\ Chain(editors[e], requests, e)
  BY DEF OneChain, Chain
<1>2. ASSUME NEW e \in Editors  PROVE Chain(editors'[e], requests', e)
  <2>1. editors'[e] = editors[e]
    OBVIOUS
  <2> QED  BY <1>1, <2>1, SameChain
<1> QED  BY <1>2 DEF OneChain, LostStays
-----------------------------------------------------------------------------
(* What the callbacks make of the chain of an editor. *)

\* What the chain is about, but the timers.
SameBut(new, ed) ==
  /\ new \in Editor
  /\ (Never(ed) => Never(new))
  /\ new.life = ed.life /\ new.acquiring = ed.acquiring /\ new.beating = ed.beating

LEMMA ClearChain ==
  ASSUME NEW ed \in Editor, Armed(ed), ed.timers \in {0, 1}, ed.timers = 1 => ed.current
  PROVE  LET new == ClearTimer(ed)
         IN  /\ SameBut(new, ed) /\ new.timers = 0
             /\ new.phase = ed.phase /\ new.holding = ed.holding
<1>1. (IF ed.current THEN ed.timers - 1 ELSE ed.timers) = 0
  BY DEF Armed
<1>2. ClearTimer(ed) = [ed EXCEPT !.timers = 0, !.current = FALSE]
  BY <1>1 DEF ClearTimer, Editor
<1>3. 0 \in Nat
  OBVIOUS
<1> QED  BY <1>2, <1>3 DEF SameBut, Never, Editor

LEMMA ArmChain ==
  ASSUME NEW ed \in Editor, ed.timers = 0
  PROVE  LET new == ArmTimer(ed)
         IN  /\ SameBut(new, ed) /\ new.timers = 1 /\ new.current
             /\ new.phase = ed.phase /\ new.holding = ed.holding
<1>1. ArmTimer(ed) = [ed EXCEPT !.timers = 1, !.current = TRUE]
  BY DEF ArmTimer, Editor
<1>2. 1 \in Nat
  OBVIOUS
<1> QED  BY <1>1, <1>2 DEF SameBut, Never, Editor

LEMMA ScheduleChain ==
  ASSUME NEW ed \in Editor, ed.timers = 0, NEW stale \in BOOLEAN
  PROVE  LET new == ScheduleHeartbeat(ed, stale)
         IN  /\ SameBut(new, ed) /\ new.timers = 1 /\ new.current
             /\ new.phase = ed.phase /\ new.holding = ed.holding
<1> DEFINE arm == ArmTimer(ed)
<1>1. /\ SameBut(arm, ed) /\ arm.timers = 1 /\ arm.current
      /\ arm.phase = ed.phase /\ arm.holding = ed.holding
  BY ArmChain
<1>2. ScheduleHeartbeat(ed, stale) = [arm EXCEPT !.late = stale]
  BY DEF ScheduleHeartbeat
<1> HIDE DEF arm
<1> QED  BY <1>1, <1>2 DEF SameBut, Never, Editor

LEMMA GrantChain ==
  ASSUME NEW ed \in Editor, ed.timers = 0, NEW stale \in BOOLEAN
  PROVE  LET new == Grant(ed, stale)
         IN  /\ SameBut(new, ed) /\ new.timers = 1 /\ new.current /\ new.phase = "granted"
<1> DEFINE held == [ed EXCEPT !.holding = TRUE, !.phase = "granted"]
<1>1. SameBut(held, ed) /\ held.timers = 0 /\ held.phase = "granted"
  BY DEF SameBut, Never, Editor, Phases
<1>2. Grant(ed, stale) = ScheduleHeartbeat(held, stale)
  BY DEF Grant
<1> HIDE DEF held
<1> QED  BY <1>1, <1>2, ScheduleChain DEF SameBut

LEMMA LoseChain ==
  ASSUME NEW ed \in Editor
  PROVE  LET new == LoseLock(ed)
         IN  SameBut(new, ed) /\ new.timers = ed.timers /\ ~new.holding
BY DEF LoseLock, SameBut, Never, Editor, Phases

LEMMA EndBeatChain ==
  ASSUME NEW ed \in Editor, NEW r, r.inBeat
  PROVE  LET new == EndBeat(ed, r)
         IN  /\ new \in Editor /\ (Never(ed) => Never(new)) /\ new.life = ed.life /\ new.left = ed.left
             /\ new.acquiring = ed.acquiring /\ new.timers = ed.timers
             /\ new.phase = ed.phase /\ new.holding = ed.holding
BY DEF EndBeat, Never, Editor

\* Beside no request of it: a chain of a timer, or none.
LEMMA FreshChain ==
  ASSUME NEW new, NEW t, NEW e, Never(new), Silent(t, e),
         new.timers = 0 \/ (new.timers = 1 /\ new.current),
         new.acquiring => new.timers = 0 /\ ~new.holding,
         new.phase = "lost" /\ new.life = "mounted" => ~new.holding /\ ~new.acquiring /\ new.timers = 0
  PROVE  Chain(new, t, e)
<1>1. Single(t, e)
  BY DEF Single, Silent
<1> QED  BY <1>1 DEF Chain

\* The first POST starts the chain, or none is started.
LEMMA AnsweredChain ==
  ASSUME NEW ed \in Editor, Never(ed), ed.acquiring, ed.timers = 0, ~ed.holding,
         NEW answer \in Answers, NEW stale \in BOOLEAN, NEW t, NEW e, Silent(t, e)
  PROVE  LET new == InitialAnswered(ed, answer, stale)
         IN  Chain(new, t, e)
<1> DEFINE done == [ed EXCEPT !.acquiring = FALSE]
           refused == [done EXCEPT !.phase = IF answer = "held" THEN "held" ELSE "error"]
           new == InitialAnswered(ed, answer, stale)
<1>1. /\ done \in Editor /\ Never(done) /\ ~done.acquiring /\ done.timers = 0 /\ ~done.holding
      /\ done.life = ed.life
  BY DEF Never, Editor
<1>2. /\ Never(refused) /\ ~refused.acquiring /\ refused.timers = 0 /\ ~refused.holding
  BY DEF Never, Editor
<1>3. /\ new = IF answer = "ok" THEN IF ed.life = "mounted" THEN Grant(done, stale) ELSE done
               ELSE IF ed.life = "mounted" THEN refused ELSE done
  BY DEF InitialAnswered, Never
<1> HIDE DEF done, refused, new
<1>4. CASE new = Grant(done, stale)
  BY <1>1, <1>4, GrantChain, FreshChain DEF SameBut, new
<1>5. CASE new = done
  BY <1>1, <1>5, FreshChain DEF new
<1>6. CASE new = refused
  BY <1>2, <1>6, FreshChain DEF new
<1> QED  BY <1>3, <1>4, <1>5, <1>6
-----------------------------------------------------------------------------
(* One chain at most, step by step. *)

\* The editor whose callback runs, and the others.
LEMMA CallbackChain ==
  ASSUME OneChain, NEW e \in Editors, NEW new,
         \A d \in Editors : d # e => editors'[d] = editors[d],
         editors'[e] = new, Chain(new, requests', e),
         Mounted(e) /\ editors[e].phase = "lost" => new.phase = "lost",
         \A d \in Editors \ {e} : /\ Single(requests, d) => Single(requests', d)
                                  /\ Silent(requests, d) => Silent(requests', d),
         \A r \in Sent' : Proper(r)
  PROVE  OneChain' /\ LostStays
<1>1. ASSUME NEW d \in Editors, d # e  PROVE Chain(editors'[d], requests', d)
  <2>1. Chain(editors[d], requests, d) /\ Never(editors[d]) /\ editors'[d] = editors[d]
    BY <1>1 DEF OneChain, Chain
  <2> QED  BY <1>1, <2>1, SameChain
<1> QED  BY <1>1 DEF OneChain, LostStays

LEMMA EditorsLemma ==
  ASSUME IInv
  PROVE  /\ requests \in Seq(Request) /\ editors \in [Editors -> Editor]
         /\ \A e \in Editors : editors[e] \in Editor /\ Armed(editors[e])
         /\ \A i \in DOMAIN requests : requests[i] \in Request /\ Fits(requests[i]) /\ requests[i] \in Sent
BY DEF IInv, TypeOK, Sane, Waits, Sent, ToSet

LEMMA ProperLemma ==
  ASSUME OneChain, NEW x, Proper(x), Sent' \subseteq Sent \cup {x}
  PROVE  \A r \in Sent' : Proper(r)
BY DEF OneChain

LEMMA SendBeatChain ==
  ASSUME IInv, OneChain, NEW e \in Editors, NEW ed \in Editor, SendBeat(e, ed),
         Never(ed), ed.timers = 0, ~ed.acquiring, Silent(requests, e),
         ~(ed.life = "mounted" /\ ed.phase = "lost"),
         ~(Mounted(e) /\ editors[e].phase = "lost")
  PROVE  OneChain' /\ LostStays
<1> DEFINE r == NewRequest("beat", e, TRUE)
           new == [ed EXCEPT !.beating = TRUE]
<1>1. r \in Request /\ r.why = "beat" /\ r.by = e /\ r.inBeat
  BY DEF NewRequest, Request, Answers
<1>2. /\ Never(new) /\ new.timers = 0 /\ ~new.acquiring /\ new.beating
      /\ new.life = ed.life /\ new.phase = ed.phase
  BY DEF Never, Editor
<1>3. /\ requests' = Append(requests, r)
      /\ editors' = [editors EXCEPT ![e] = new]
  BY DEF SendBeat
<1>4. requests \in Seq(Request) /\ editors \in [Editors -> Editor]
  BY EditorsLemma
<1> HIDE DEF r, new
<1>5. Single(requests', e)
  BY <1>1, <1>3, <1>4, AppendChain
<1>6. Chain(new, requests', e)
  BY <1>2, <1>5 DEF Chain
<1>7. \A d \in Editors \ {e} : /\ Single(requests, d) => Single(requests', d)
                               /\ Silent(requests, d) => Silent(requests', d)
  <2> TAKE d \in Editors \ {e}
  <2>1. ~Knocks(r, d)
    BY <1>1 DEF Knocks
  <2> QED  BY <1>1, <1>3, <1>4, <2>1, AppendChain
<1>8. Proper(r)
  BY <1>1 DEF Proper
<1>9. Sent' \subseteq Sent \cup {r}
  BY <1>1, <1>3, <1>4, AppendLemma DEF Sent
<1>10. \A s \in Sent' : Proper(s)
  BY <1>8, <1>9, ProperLemma
<1>11. editors'[e] = new /\ \A d \in Editors : d # e => editors'[d] = editors[d]
  BY <1>3, <1>4
<1> QED  BY <1>6, <1>7, <1>10, <1>11, CallbackChain

LEMMA BeatsChain ==
  ASSUME IInv, OneChain, NEW e \in Editors, Beat(e) \/ BeatNow(e)
  PROVE  OneChain' /\ LostStays
<1> DEFINE ed == editors[e]
           fired == [ed EXCEPT !.timers = ed.timers - 1, !.current = FALSE]
<1>1. ed \in Editor /\ Armed(ed) /\ Chain(ed, requests, e)
  BY EditorsLemma DEF OneChain
<1>2. CASE Beat(e)
  <2>1. ed.timers > 0 /\ SendBeat(e, fired)
    BY <1>2 DEF Beat
  <2>2. ed.timers = 1 /\ Silent(requests, e) /\ ~ed.acquiring /\ Never(ed)
        /\ ~(ed.life = "mounted" /\ ed.phase = "lost")
    BY <1>1, <2>1 DEF Chain
  <2>3. fired = [ed EXCEPT !.timers = 0, !.current = FALSE] /\ 0 \in Nat
    BY <2>2
  <2>4. /\ fired \in Editor /\ Never(fired) /\ fired.timers = 0 /\ ~fired.acquiring
        /\ ~(fired.life = "mounted" /\ fired.phase = "lost")
    BY <1>1, <2>2, <2>3 DEF Never, Editor
  <2> HIDE DEF fired
  <2> QED  BY <2>1, <2>2, <2>4, SendBeatChain DEF Mounted
<1>3. CASE BeatNow(e)
  <2> DEFINE clear == ClearTimer(ed)
  <2>1. Holds(e) /\ ~ed.beating /\ SendBeat(e, clear)
    BY <1>3 DEF BeatNow
  <2>2. /\ Silent(requests, e) /\ ~ed.acquiring /\ Never(ed)
        /\ ~(ed.life = "mounted" /\ ed.phase = "lost")
    BY <1>1, <2>1 DEF Chain, Holds
  <2>3. SameBut(clear, ed) /\ clear.timers = 0 /\ clear.phase = ed.phase
    BY <1>1, ClearChain DEF Chain
  <2>4. /\ clear \in Editor /\ Never(clear) /\ ~clear.acquiring
        /\ ~(clear.life = "mounted" /\ clear.phase = "lost")
    BY <2>2, <2>3 DEF SameBut
  <2> HIDE DEF clear
  <2> QED  BY <2>1, <2>2, <2>3, <2>4, SendBeatChain DEF Mounted
<1> QED  BY <1>2, <1>3

LEMMA UnmountChain ==
  ASSUME IInv, OneChain, NEW e \in Editors, Unmount(e)
  PROVE  OneChain' /\ LostStays
<1> DEFINE ed == editors[e]
           clear == ClearTimer(ed)
           new == [clear EXCEPT !.life = "gone", !.holding = FALSE, !.late = FALSE]
<1>1. ed \in Editor /\ Armed(ed) /\ Chain(ed, requests, e) /\ editors \in [Editors -> Editor]
  BY EditorsLemma DEF OneChain
<1>2. SameBut(clear, ed) /\ clear.timers = 0 /\ clear.phase = ed.phase
  BY <1>1, ClearChain DEF Chain
<1>3. requests' = requests /\ Sent' = Sent /\ editors' = [editors EXCEPT ![e] = new]
  BY DEF Unmount, Sent
<1> HIDE DEF clear
<1>4. /\ Never(clear) => Never(new)
      /\ new.timers = 0 /\ new.phase = ed.phase /\ new.life = "gone" /\ ~new.holding
      /\ new.beating = ed.beating /\ new.acquiring = ed.acquiring
  BY <1>2 DEF SameBut, Never, Editor
<1> HIDE DEF new
<1>5. Chain(new, requests', e)
  BY <1>1, <1>2, <1>3, <1>4 DEF Chain, SameBut
<1>6. editors'[e] = new /\ \A d \in Editors : d # e => editors'[d] = editors[d]
  BY <1>1, <1>3
<1>7. \A r \in Sent' : Proper(r)
  BY <1>3 DEF OneChain
<1> QED  BY <1>3, <1>4, <1>5, <1>6, <1>7, CallbackChain

LEMMA HandoffTimerChain ==
  ASSUME IInv, OneChain, HandoffTimer
  PROVE  OneChain' /\ LostStays
<1> DEFINE r == NewRequest("handoff", 0, FALSE)
<1>1. r \in Request /\ r.why = "handoff"
  BY DEF NewRequest, Request, Releases, Answers
<1>2. editors' = editors /\ (requests' = requests \/ requests' = Append(requests, r))
  BY DEF HandoffTimer, ReleaseHandoff
<1>3. requests \in Seq(Request)
  BY EditorsLemma
<1> HIDE DEF r
<1>4. ASSUME NEW e \in Editors
      PROVE  /\ Single(requests, e) => Single(requests', e)
             /\ Silent(requests, e) => Silent(requests', e)
  <2>1. ~Knocks(r, e)
    BY <1>1 DEF Knocks
  <2> QED  BY <1>1, <1>2, <1>3, <2>1, AppendChain
<1>5. Sent' \subseteq Sent \cup {r} /\ Proper(r)
  BY <1>1, <1>2, <1>3, AppendLemma DEF Sent, Proper
<1>6. \A s \in Sent' : Proper(s)
  BY <1>5, ProperLemma
<1> QED  BY <1>2, <1>4, <1>6, ServerChain

LEMMA MountChain ==
  ASSUME IInv, OneChain, NEW e \in Editors, Mount(e)
  PROVE  OneChain' /\ LostStays
<1> DEFINE r       == NewRequest("initial", e, FALSE)
           kept    == handoff.promise
           fresh   == [Unborn EXCEPT !.life = "mounted", !.claimed = handoff.armed]
           waiting == [fresh EXCEPT !.acquiring = TRUE, !.promise = IF handoff.armed THEN kept ELSE e]
           new     == IF handoff.armed /\ kept = 0 THEN Grant(fresh, handoff.late)
                      ELSE IF handoff.armed /\ grants[kept] # "none"
                      THEN InitialAnswered(waiting, grants[kept], FALSE)
                      ELSE waiting
<1>1. /\ handoff \in Handoff /\ grants \in [Editors -> Answers]
      /\ requests \in Seq(Request) /\ editors \in [Editors -> Editor]
  BY EditorsLemma DEF IInv, TypeOK
<1>2. r \in Request /\ r.why = "initial"
  BY DEF NewRequest, Request, Acquires, Answers
<1>3. /\ ~Born(e) /\ editors' = [editors EXCEPT ![e] = new]
      /\ requests' = requests \/ requests' = Append(requests, r)
  BY DEF Mount
<1>4. /\ fresh \in Editor /\ Never(fresh) /\ fresh.timers = 0 /\ ~fresh.acquiring
      /\ fresh.life = "mounted" /\ fresh.phase = "acquiring" /\ ~fresh.holding
  BY <1>1 DEF Unborn, Never, Editor, Phases, Handoff
<1>5. (IF handoff.armed THEN kept ELSE e) \in Editors \cup {0}
  BY <1>1 DEF Handoff
<1> HIDE DEF r, fresh
<1>6. /\ waiting \in Editor /\ Never(waiting) /\ waiting.timers = 0 /\ waiting.acquiring
      /\ waiting.phase = "acquiring" /\ ~waiting.holding
  BY <1>4, <1>5 DEF Never, Editor
<1>7. Silent(requests, e)
  BY <1>3, EditorsLemma, EditorFacts DEF Silent, Knocks, Fits
<1>8. \A d \in Editors : /\ Single(requests, d) => Single(requests', d)
                         /\ Silent(requests, d) => Silent(requests', d)
  <2> TAKE d \in Editors
  <2>1. ~Knocks(r, d)
    BY <1>2 DEF Knocks
  <2> QED  BY <1>1, <1>2, <1>3, <2>1, AppendChain
<1>9. Silent(requests', e)
  BY <1>7, <1>8
<1> HIDE DEF waiting
<1>10. Chain(new, requests', e)
  <2>1. CASE new = Grant(fresh, handoff.late)
    <3>1. handoff.late \in BOOLEAN
      BY <1>1 DEF Handoff
    <3>2. SameBut(new, fresh) /\ new.timers = 1 /\ new.current /\ new.phase = "granted"
      BY <1>4, <2>1, <3>1, GrantChain
    <3> HIDE DEF new
    <3> QED  BY <1>4, <1>9, <3>2, FreshChain DEF SameBut
  <2>2. CASE handoff.armed /\ kept # 0 /\ new = InitialAnswered(waiting, grants[kept], FALSE)
    <3>1. grants[kept] \in Answers
      BY <1>1, <2>2 DEF Handoff
    <3>2. Chain(InitialAnswered(waiting, grants[kept], FALSE), requests', e)
      BY <1>6, <1>9, <3>1, AnsweredChain
    <3> QED  BY <2>2, <3>2
  <2>3. CASE new = waiting
    <3> HIDE DEF new
    <3> QED  BY <1>6, <1>9, <2>3, FreshChain
  <2> QED  BY <2>1, <2>2, <2>3
<1>11. Sent' \subseteq Sent \cup {r} /\ Proper(r)
  <2>1. ToSet(Append(requests, r)) = Sent \cup {r}
    BY <1>1, <1>2, AppendLemma DEF Sent
  <2>2. Sent' = Sent \/ Sent' = Sent \cup {r}
    BY <1>3, <2>1 DEF Sent
  <2> QED  BY <1>2, <2>2 DEF Proper
<1>12. \A s \in Sent' : Proper(s)
  BY <1>11, ProperLemma
<1> HIDE DEF new
<1>13. editors'[e] = new /\ \A d \in Editors : d # e => editors'[d] = editors[d]
  BY <1>1, <1>3
<1> QED  BY <1>3, <1>8, <1>10, <1>12, <1>13, CallbackChain DEF Born, Mounted
-----------------------------------------------------------------------------
\* An answer whose continuation is that of one editor, which sends at most one request of its own.
LEMMA DeliveredChain ==
  ASSUME IInv, OneChain, NEW i \in DOMAIN requests, NEW e \in Editors, requests[i].by = e,
         NEW x \in Request, x.by = e, Proper(x), NEW sent, sent = <<>> \/ sent = <<x>>,
         Answered(i, sent), NEW new,
         editors' = [editors EXCEPT ![e] = new], Chain(new, requests', e),
         Mounted(e) /\ editors[e].phase = "lost" => new.phase = "lost"
  PROVE  OneChain' /\ LostStays
<1>1. requests \in Seq(Request) /\ editors \in [Editors -> Editor]
  BY EditorsLemma
<1>2. sent \in Seq(Request) /\ ToSet(sent) \subseteq {x}
  BY OneLemma
<1>3. Sent' \subseteq Sent \cup {x}
  BY <1>2, DeliveredLemma DEF IInv
<1>4. \A s \in Sent' : Proper(s)
  BY <1>3, ProperLemma
<1>5. ASSUME NEW d \in Editors, d # e
      PROVE  /\ Single(requests, d) => Single(requests', d)
             /\ Silent(requests, d) => Silent(requests', d)
  <2>1. Silent(sent, d)
    BY <1>2, <1>5 DEF Silent, Knocks, ToSet
  <2>2. RemoveAt(requests, i) \in Seq(Request)
    BY <1>1, RemoveLemma
  <2>3. /\ Single(requests, d) => Single(RemoveAt(requests, i), d)
        /\ Silent(requests, d) => Silent(RemoveAt(requests, i), d)
    BY <1>1, RemoveChain
  <2>4. /\ Single(RemoveAt(requests, i), d) => Single(RemoveAt(requests, i) \o sent, d)
        /\ Silent(RemoveAt(requests, i), d) => Silent(RemoveAt(requests, i) \o sent, d)
    BY <1>2, <2>1, <2>2, ConcatChain
  <2> QED  BY <2>3, <2>4 DEF Answered
<1>6. editors'[e] = new /\ \A d \in Editors : d # e => editors'[d] = editors[d]
  BY <1>1
<1> QED  BY <1>4, <1>5, <1>6, CallbackChain

\* What is left of the chain when its request is answered.
LEMMA KnockLemma ==
  ASSUME IInv, OneChain, NEW i \in DOMAIN requests, requests[i].why \in {"beat", "reacquire"}
  PROVE  LET r  == requests[i]
             ed == editors[r.by]
             on == EndBeat(ed, r)
         IN  /\ r \in Request /\ r.by \in Editors /\ ed \in Editor /\ Never(ed) /\ ~ed.left
             /\ Chain(ed, requests, r.by)
             /\ ~ed.acquiring /\ ed.timers = 0 /\ ed.beating
             /\ ~(Mounted(r.by) /\ ed.phase = "lost")
             /\ Silent(RemoveAt(requests, i), r.by) /\ RemoveAt(requests, i) \in Seq(Request)
             /\ on \in Editor /\ Never(on) /\ on.life = ed.life /\ on.left = ed.left
             /\ ~on.acquiring /\ on.timers = 0 /\ on.phase = ed.phase /\ on.holding = ed.holding
<1> DEFINE r  == requests[i]
           ed == editors[r.by]
           on == EndBeat(ed, r)
<1>1. requests \in Seq(Request) /\ r \in Request /\ Fits(r) /\ Proper(r)
  BY EditorsLemma DEF OneChain
<1>2. r.by \in Editors /\ r.inBeat
  BY <1>1 DEF Fits, Request, Proper
<1>3. ed \in Editor /\ Chain(ed, requests, r.by)
  BY <1>2, EditorsLemma DEF OneChain
<1>4. Knocks(r, r.by) /\ ~Silent(requests, r.by) /\ Single(requests, r.by)
  BY <1>3 DEF Knocks, Silent, Chain
<1>5. /\ Never(ed) /\ ~ed.left /\ ~ed.acquiring /\ ed.timers = 0 /\ ed.beating
      /\ ~(Mounted(r.by) /\ ed.phase = "lost")
  BY <1>3, <1>4 DEF Chain, Never, Mounted
<1>6. Silent(RemoveAt(requests, i), r.by) /\ RemoveAt(requests, i) \in Seq(Request)
  BY <1>1, <1>4, RemoveChain, RemoveLemma
<1>7. /\ on \in Editor /\ Never(on) /\ on.life = ed.life /\ on.left = ed.left
      /\ ~on.acquiring /\ on.timers = 0 /\ on.phase = ed.phase /\ on.holding = ed.holding
  BY <1>2, <1>3, <1>5, EndBeatChain
<1> QED  BY <1>1, <1>2, <1>3, <1>5, <1>6, <1>7

LEMMA ReacquireDeliveredChain ==
  ASSUME IInv, OneChain, NEW i \in DOMAIN requests, ReacquireDelivered(i)
  PROVE  OneChain' /\ LostStays
<1> DEFINE r  == requests[i]
           ed == editors[r.by]
           on == EndBeat(ed, r)
           x  == NewRequest("late", r.by, FALSE)
           gone == on.life = "gone" \/ on.left
           new  == IF r.answer # "ok" THEN LoseLock(on) ELSE IF gone THEN on ELSE Grant(on, r.stale)
           sent == IF r.answer = "ok" /\ gone THEN <<x>> ELSE <<>>
           rest == RemoveAt(requests, i)
<1>1. /\ r.why = "reacquire" /\ editors' = [editors EXCEPT ![r.by] = new] /\ Answered(i, sent)
  BY DEF ReacquireDelivered
<1>2. /\ r \in Request /\ r.by \in Editors /\ ed \in Editor
      /\ ~(Mounted(r.by) /\ ed.phase = "lost")
      /\ Silent(rest, r.by) /\ rest \in Seq(Request)
      /\ on \in Editor /\ Never(on) /\ on.life = ed.life
      /\ ~on.acquiring /\ on.timers = 0 /\ on.phase = ed.phase
  BY <1>1, KnockLemma
<1>3. x \in Request /\ x.by = r.by /\ Proper(x) /\ ~Knocks(x, r.by)
  BY <1>2 DEF NewRequest, Request, Releases, Answers, Proper, Knocks
<1>4. r.stale \in BOOLEAN
  BY <1>2 DEF Request
<1>5. requests' = rest \o sent
  BY <1>1 DEF Answered
<1> HIDE DEF on, x, rest
<1>6. sent = <<>> \/ sent = <<x>>
  OBVIOUS
<1> HIDE DEF sent
<1>7. Silent(requests', r.by)
  <2>1. sent \in Seq(Request) /\ ToSet(sent) \subseteq {x}
    BY <1>3, <1>6, OneLemma
  <2>2. Silent(sent, r.by)
    BY <1>3, <2>1 DEF Silent, ToSet
  <2> QED  BY <1>2, <1>5, <2>1, <2>2, ConcatChain
<1>8. Chain(new, requests', r.by)
  <2>1. CASE new = LoseLock(on)
    <3>1. SameBut(new, on) /\ new.timers = 0 /\ ~new.holding
      BY <1>2, <2>1, LoseChain
    <3> HIDE DEF new
    <3> QED  BY <1>2, <1>7, <3>1, FreshChain DEF SameBut
  <2>2. CASE new = on
    <3> HIDE DEF new
    <3> QED  BY <1>2, <1>7, <2>2, FreshChain DEF Mounted
  <2>3. CASE new = Grant(on, r.stale)
    <3>1. SameBut(new, on) /\ new.timers = 1 /\ new.current /\ new.phase = "granted"
      BY <1>2, <1>4, <2>3, GrantChain
    <3> HIDE DEF new
    <3> QED  BY <1>2, <1>7, <3>1, FreshChain DEF SameBut
  <2> QED  BY <2>1, <2>2, <2>3
<1> HIDE DEF new
<1> QED  BY <1>1, <1>2, <1>3, <1>6, <1>8, DeliveredChain

LEMMA BeatDeliveredChain ==
  ASSUME IInv, OneChain, NEW i \in DOMAIN requests, BeatDelivered(i)
  PROVE  OneChain' /\ LostStays
<1> DEFINE r  == requests[i]
           ed == editors[r.by]
           on == EndBeat(ed, r)
           x  == NewRequest("reacquire", r.by, TRUE)
           verify == ed.life = "mounted" /\ (r.answer = "lost" \/ (r.answer = "failed" /\ ed.late))
           new == CASE verify -> ed
                    [] r.answer = "session" -> LoseLock(on)
                    [] r.answer = "failed" /\ ~ed.late -> BeatFailed(on)
                    [] r.answer = "ok" /\ ed.life = "mounted" /\ ~ed.left -> ScheduleHeartbeat(on, r.stale)
                    [] OTHER -> on
           sent == IF verify THEN <<x>> ELSE <<>>
           rest == RemoveAt(requests, i)
<1>1. /\ r.why = "beat" /\ editors' = [editors EXCEPT ![r.by] = new] /\ Answered(i, sent)
  BY DEF BeatDelivered
<1>2. /\ r \in Request /\ r.by \in Editors /\ ed \in Editor
      /\ ~(Mounted(r.by) /\ ed.phase = "lost")
      /\ Silent(rest, r.by) /\ rest \in Seq(Request)
      /\ Never(ed) /\ ~ed.acquiring /\ ed.timers = 0 /\ ed.beating
      /\ on \in Editor /\ Never(on) /\ on.life = ed.life
      /\ ~on.acquiring /\ on.timers = 0 /\ on.phase = ed.phase
  BY <1>1, KnockLemma
<1>3. x \in Request /\ x.by = r.by /\ Proper(x)
  BY <1>2 DEF NewRequest, Request, Acquires, Answers, Proper
<1>4. r.stale \in BOOLEAN
  BY <1>2 DEF Request
<1>5. requests' = rest \o sent
  BY <1>1 DEF Answered
<1>6. sent = <<>> \/ sent = <<x>>
  OBVIOUS
<1>7. \/ verify /\ new = ed /\ sent = <<x>>
      \/ sent = <<>> /\ new \in {LoseLock(on), BeatFailed(on), ScheduleHeartbeat(on, r.stale), on}
  OBVIOUS
<1> HIDE DEF on, x, rest, verify, sent
<1>8. CASE verify /\ new = ed /\ sent = <<x>>
  <2>1. requests' = Append(rest, x)
    BY <1>2, <1>3, <1>5, <1>8
  <2>2. Single(requests', r.by)
    BY <1>2, <1>3, <2>1, AppendChain
  <2>3. Chain(new, requests', r.by)
    BY <1>2, <1>8, <2>2 DEF Chain, Mounted
  <2> HIDE DEF new
  <2> QED  BY <1>1, <1>2, <1>3, <1>6, <2>3, DeliveredChain
<1>9. CASE sent = <<>> /\ new \in {LoseLock(on), BeatFailed(on), ScheduleHeartbeat(on, r.stale), on}
  <2>1. requests' = rest
    BY <1>2, <1>5, <1>9
  <2>2. Silent(requests', r.by)
    BY <1>2, <2>1
  <2>3. \/ new = LoseLock(on)
        \/ new = on
        \/ new = ArmTimer(on)
        \/ new = ScheduleHeartbeat(on, r.stale)
    BY <1>9 DEF BeatFailed
  <2> HIDE DEF new
  <2>4. CASE new = LoseLock(on)
    <3>1. SameBut(new, on) /\ new.timers = 0 /\ ~new.holding
      BY <1>2, <2>4, LoseChain
    <3>2. Chain(new, requests', r.by)
      BY <1>2, <2>2, <3>1, FreshChain DEF SameBut
    <3> QED  BY <1>1, <1>2, <1>3, <1>6, <3>2, DeliveredChain
  <2>5. CASE new = on
    <3>1. Chain(new, requests', r.by)
      BY <1>2, <2>2, <2>5, FreshChain DEF Mounted
    <3> QED  BY <1>1, <1>2, <1>3, <1>6, <3>1, DeliveredChain
  <2>6. CASE new = ArmTimer(on) \/ new = ScheduleHeartbeat(on, r.stale)
    <3>1. SameBut(new, on) /\ new.timers = 1 /\ new.current /\ new.phase = on.phase
      BY <1>2, <1>4, <2>6, ArmChain, ScheduleChain
    <3>2. Chain(new, requests', r.by)
      BY <1>2, <2>2, <3>1, FreshChain DEF SameBut, Mounted
    <3> QED  BY <1>1, <1>2, <1>3, <1>6, <3>2, DeliveredChain
  <2> QED  BY <2>3, <2>4, <2>5, <2>6
<1> QED  BY <1>7, <1>8, <1>9

\* The first POST is answered in whoever waits for it; nobody was left, so nobody releases.
LEMMA InitialDeliveredChain ==
  ASSUME IInv, OneChain, NEW i \in DOMAIN requests, InitialDelivered(i)
  PROVE  OneChain' /\ LostStays
<1>0. PICK r : r = requests[i]
  OBVIOUS
<1> DEFINE h == NewRequest("handoff", 0, FALSE)
           waiting == {e \in Editors : Born(e) /\ editors[e].promise = r.by
                                       /\ (editors[e].acquiring \/ editors[e].initialLeft)}
           leaving == {e \in waiting : editors[e].leaveRelease = "waiting"}
           resume == {e \in leaving : r.answer # "ok" /\ editors[e].returning /\ Mounted(e)}
           follow == IF r.answer # "ok" THEN {}
                     ELSE {NewRequest("leave", e, FALSE) : e \in leaving}
                          \cup {NewRequest("handoff", 0, FALSE) : o \in abandoned \cap {r.by}}
           back == {NewRequest("reacquire", e, FALSE) : e \in resume}
           sent == SetToSeq(follow) \o SetToSeq(back)
           a(e) == InitialAnswered(editors[e], r.answer, r.stale)
           after(e) == IF e \notin leaving THEN a(e)
                       ELSE [a(e) EXCEPT !.leaveRelease = IF r.answer = "ok" THEN "sent" ELSE "settled"]
           new(e) == IF e \in resume THEN [after(e) EXCEPT !.left = FALSE, !.returning = FALSE]
                     ELSE IF e \in waiting THEN after(e) ELSE editors[e]
<1>1. editors' = [e \in Editors |-> new(e)] /\ Answered(i, sent)
  BY <1>0 DEF InitialDelivered
<1>13. Answered(i, sent)
  BY <1>1
<1>2. requests \in Seq(Request) /\ r \in Request
  BY <1>0, EditorsLemma
<1>3. \A e \in Editors : editors[e] \in Editor /\ Chain(editors[e], requests, e) /\ Never(editors[e])
  BY EditorsLemma DEF OneChain, Chain
<1>4. leaving = {} /\ resume = {}
  BY <1>3 DEF Never
<1>5. h \in Request /\ h.why = "handoff" /\ Proper(h)
  BY DEF NewRequest, Request, Releases, Answers, Proper
<1>6. IsFiniteSet(follow) /\ follow \subseteq {h} /\ IsFiniteSet(back) /\ back = {}
  <2>1. follow \subseteq {h} /\ back = {}
    BY <1>4
  <2>2. IsFiniteSet({h}) /\ IsFiniteSet({})
    BY FS_EmptySet, FS_Singleton
  <2> QED  BY <2>1, <2>2, FS_Subset
<1> HIDE DEF h, follow, back
<1>7. /\ sent \in Seq(Request) /\ ToSet(sent) \subseteq {h}
  <2>1. SetToSeq(follow) \in Seq(follow) /\ ToSet(SetToSeq(follow)) = follow
    BY <1>6, SetToSeqLemma
  <2>2. SetToSeq(back) \in Seq(back) /\ ToSet(SetToSeq(back)) = back
    BY <1>6, SetToSeqLemma
  <2>3. SetToSeq(follow) \in Seq(Request) /\ SetToSeq(back) \in Seq(Request)
    BY <1>5, <1>6, <2>1, <2>2
  <2> QED  BY <1>6, <2>1, <2>2, <2>3, ConcatLemma
<1> HIDE DEF sent
<1>8. \A s \in Sent' : Proper(s)
  <2>1. Sent' \subseteq Sent \cup {h}
    BY <1>7, <1>13, DeliveredLemma DEF IInv
  <2> QED  BY <1>5, <2>1, ProperLemma
<1>9. ASSUME NEW e \in Editors
      PROVE  /\ Single(requests, e) => Single(requests', e)
             /\ Silent(requests, e) => Silent(requests', e)
  <2>1. Silent(sent, e)
    BY <1>5, <1>7 DEF Silent, Knocks, ToSet
  <2>2. RemoveAt(requests, i) \in Seq(Request)
    BY <1>2, RemoveLemma
  <2>3. /\ Single(requests, e) => Single(RemoveAt(requests, i), e)
        /\ Silent(requests, e) => Silent(RemoveAt(requests, i), e)
    BY <1>2, RemoveChain
  <2>4. /\ Single(RemoveAt(requests, i), e) => Single(RemoveAt(requests, i) \o sent, e)
        /\ Silent(RemoveAt(requests, i), e) => Silent(RemoveAt(requests, i) \o sent, e)
    BY <1>7, <2>1, <2>2, ConcatChain
  <2> QED  BY <1>13, <2>3, <2>4 DEF Answered
<1>10. \A e \in Editors : editors'[e] = IF e \in waiting THEN a(e) ELSE editors[e]
  <2>1. \A e \in Editors : e \notin leaving /\ e \notin resume
    BY <1>4
  <2> HIDE DEF a, waiting, leaving, resume
  <2>2. \A e \in Editors : new(e) = IF e \in waiting THEN a(e) ELSE editors[e]
    BY <2>1
  <2> HIDE DEF new
  <2> QED  BY <1>1, <2>2
<1>11. \A e \in waiting : editors[e].acquiring
  BY <1>3 DEF Never
<1> HIDE DEF a, after, new, waiting, leaving, resume
<1>12. ASSUME NEW e \in Editors
       PROVE  /\ Chain(editors'[e], requests', e)
              /\ Mounted(e) /\ editors[e].phase = "lost" => editors'[e].phase = "lost"
  <2>1. Chain(editors[e], requests, e) /\ editors[e] \in Editor /\ Never(editors[e])
    BY <1>3
  <2>2. CASE e \in waiting
    <3>1. /\ editors[e].acquiring /\ editors[e].timers = 0 /\ ~editors[e].holding
          /\ Silent(requests, e) /\ ~(Mounted(e) /\ editors[e].phase = "lost")
      BY <1>11, <2>1, <2>2 DEF Chain, Mounted
    <3>2. r.answer \in Answers /\ r.stale \in BOOLEAN
      BY <1>2 DEF Request
    <3>3. Silent(requests', e)
      BY <1>9, <3>1
    <3>4. Chain(a(e), requests', e)
      BY <2>1, <3>1, <3>2, <3>3, AnsweredChain DEF a
    <3> QED  BY <1>10, <2>2, <3>1, <3>4
  <2>3. CASE e \notin waiting
    <3>1. editors'[e] = editors[e]
      BY <1>10, <2>3
    <3> QED  BY <1>9, <2>1, <3>1, SameChain
  <2> QED  BY <2>2, <2>3
<1> QED  BY <1>8, <1>12 DEF OneChain, LostStays

LEMMA DeliverChain ==
  ASSUME IInv, OneChain, Deliver
  PROVE  OneChain' /\ LostStays
<1>1. PICK i \in DOMAIN requests :
        InitialDelivered(i) \/ ReacquireDelivered(i) \/ BeatDelivered(i) \/ LeaveDelivered(i)
  BY DEF Deliver
<1>2. ~LeaveDelivered(i)
  <2>1. Proper(requests[i])
    BY EditorsLemma DEF OneChain
  <2> QED  BY <2>1 DEF LeaveDelivered, Proper
<1> QED  BY <1>1, <1>2, InitialDeliveredChain, ReacquireDeliveredChain, BeatDeliveredChain

\* Leaving ends what the property is about; a lock that is lost is not released once more.
LEMMA LeaveChain ==
  ASSUME IInv, OneChain, Leave
  PROVE  LostStays /\ budget'.leaves # MaxLeaves
<1>1. budget'.leaves # MaxLeaves
  <2>1. budget.leaves \in 0..MaxLeaves /\ budget' = [budget EXCEPT !.leaves = budget.leaves - 1]
        /\ budget \in [leaves : 0..MaxLeaves, failures : 0..MaxFailures, events : 0..MaxEvents]
    BY DEF Leave, Spend, IInv, TypeOK
  <2> QED  BY <2>1, BoundsAssumption
<1>2. ASSUME NEW e \in Editors, Mounted(e), editors[e].phase = "lost"
      PROVE  editors'[e].phase = "lost"
  <2>1. ~editors[e].holding /\ ~editors[e].acquiring
    BY <1>2 DEF OneChain, Chain, Mounted
  <2>2. editors'[e] = editors[e]
    BY <2>1 DEF Leave
  <2> QED  BY <1>2, <2>2
<1> QED  BY <1>1, <1>2 DEF LostStays

LEMMA ReturnChain ==
  ASSUME IInv, OneChain, Return
  PROVE  OneChain' /\ LostStays
<1> DEFINE back == {e \in Editors : Mounted(e) /\ editors[e].left}
           now  == {e \in back : editors[e].leaveRelease = "settled"}
           sent == {NewRequest("reacquire", e, FALSE) : e \in now}
<1>1. back = {}
  BY DEF OneChain, Chain, Never
<1>2. now = {} /\ sent = {}
  BY <1>1
<1>3. /\ editors' = [e \in Editors |-> IF e \in now THEN [editors[e] EXCEPT !.left = FALSE]
                                       ELSE IF e \in back THEN [editors[e] EXCEPT !.returning = TRUE]
                                       ELSE editors[e]]
      /\ requests' = requests \o SetToSeq(sent)
  BY DEF Return
<1>4. requests \in Seq(Request) /\ editors \in [Editors -> Editor]
  BY EditorsLemma
<1>5. editors' = editors
  BY <1>1, <1>2, <1>3, <1>4
<1>6. SetToSeq(sent) \in Seq({}) /\ ToSet(SetToSeq(sent)) = {}
  BY <1>2, SetToSeqLemma, FS_EmptySet
<1> HIDE DEF sent
<1>7. SetToSeq(sent) \in Seq(Request)
  BY <1>6
<1>8. \A e \in Editors : Silent(SetToSeq(sent), e)
  BY <1>6 DEF Silent, ToSet
<1>9. \A e \in Editors : /\ Single(requests, e) => Single(requests', e)
                         /\ Silent(requests, e) => Silent(requests', e)
  BY <1>3, <1>4, <1>7, <1>8, ConcatChain
<1>10. Sent' = Sent
  <2>1. ToSet(requests \o SetToSeq(sent)) = ToSet(requests) \cup ToSet(SetToSeq(sent))
    BY <1>4, <1>7, ConcatLemma
  <2> QED  BY <1>3, <1>6, <2>1 DEF Sent
<1>11. \A r \in Sent' : Proper(r)
  BY <1>10 DEF OneChain
<1> QED  BY <1>5, <1>9, <1>11, ServerChain
-----------------------------------------------------------------------------
LEMMA ReplyChain ==
  ASSUME IInv, OneChain, NEW i \in DOMAIN requests, NEW a \in Answers, editors' = editors,
         \/ requests' = RemoveAt(requests, i)
         \/ requests' = [requests EXCEPT ![i] = [requests[i] EXCEPT !.answer = a]]
  PROVE  OneChain' /\ LostStays
<1> DEFINE x == [requests[i] EXCEPT !.answer = a]
<1>1. requests \in Seq(Request) /\ requests[i] \in Request /\ requests[i] \in Sent
  BY EditorsLemma
<1>2. x \in Request /\ x.by = requests[i].by /\ x.why = requests[i].why /\ x.inBeat = requests[i].inBeat
  BY <1>1 DEF Request
<1> HIDE DEF x
<1>3. Proper(x)
  BY <1>1, <1>2 DEF OneChain, Proper
<1>4. CASE requests' = RemoveAt(requests, i)
  <2>1. \A e \in Editors : /\ Single(requests, e) => Single(requests', e)
                           /\ Silent(requests, e) => Silent(requests', e)
    BY <1>1, <1>4, RemoveChain
  <2>2. Sent' \subseteq Sent
    BY <1>1, <1>4, RemoveLemma DEF Sent
  <2> QED  BY <2>1, <2>2, ServerChain DEF OneChain
<1>5. CASE requests' = [requests EXCEPT ![i] = x]
  <2>1. /\ DOMAIN requests' = DOMAIN requests
        /\ \A k \in DOMAIN requests : requests'[k].by = requests[k].by /\ requests'[k].why = requests[k].why
    BY <1>1, <1>2, <1>5
  <2>2. \A e \in Editors : /\ Single(requests, e) => Single(requests', e)
                           /\ Silent(requests, e) => Silent(requests', e)
    BY <2>1, ReplaceChain
  <2>3. Sent' \subseteq Sent \cup {x}
    BY <1>1, <1>2, <1>5, ReplaceLemma DEF Sent
  <2>4. \A r \in Sent' : Proper(r)
    BY <1>3, <2>3, ProperLemma
  <2> QED  BY <2>2, <2>4, ServerChain
<1> QED  BY <1>4, <1>5 DEF x

LEMMA ServeChain ==
  ASSUME IInv, OneChain, Serve \/ Fail \/ LoseAnswer
  PROVE  OneChain' /\ LostStays
<1>1. editors' = editors
  BY DEF Serve, Fail, LoseAnswer, ClientUnchanged
<1>2. PICK i \in DOMAIN requests, a \in Answers :
        \/ requests' = RemoveAt(requests, i)
        \/ requests' = [requests EXCEPT ![i] = [requests[i] EXCEPT !.answer = a]]
  <2>1. CASE Serve
    <3>1. PICK i \in DOMAIN requests, a \in {"ok", "held", "lost"} : Reply(i, a)
      BY <2>1 DEF Serve, IsNext, ServeAcquire, ServeBeat, ServeRelease
    <3> QED  BY <3>1 DEF Reply, Answers
  <2>2. CASE Fail
    <3>1. PICK i \in DOMAIN requests, a \in {"failed", "session"} : Reply(i, a)
      BY <2>2 DEF Fail, IsNext
    <3> QED  BY <3>1 DEF Reply, Answers
  <2>3. CASE LoseAnswer
    BY <2>3 DEF LoseAnswer, Answers
  <2> QED  BY <2>1, <2>2, <2>3
<1> QED  BY <1>1, <1>2, ReplyChain

LEMMA LapseChain ==
  ASSUME IInv, OneChain, Lapse
  PROVE  OneChain' /\ LostStays
<1>1. requests' = requests /\ Sent' = Sent /\ editors \in [Editors -> Editor]
  BY EditorsLemma DEF Lapse, Sent
<1>2. CASE editors' = editors
  BY <1>1, <1>2, ServerChain DEF OneChain
<1>3. CASE \E e \in Editors : editors' = [editors EXCEPT ![e].late = TRUE]
  <2>1. PICK e \in Editors : editors' = [editors EXCEPT ![e].late = TRUE]
    BY <1>3
  <2> DEFINE new == [editors[e] EXCEPT !.late = TRUE]
  <2>2. editors'[e] = new /\ \A d \in Editors : d # e => editors'[d] = editors[d]
    BY <1>1, <2>1
  <2>3. editors[e] \in Editor /\ Chain(editors[e], requests, e) /\ Never(editors[e])
    BY <1>1 DEF OneChain, Chain
  <2>4. /\ Never(new) /\ new.timers = editors[e].timers /\ new.current = editors[e].current
        /\ new.beating = editors[e].beating /\ new.acquiring = editors[e].acquiring
        /\ new.phase = editors[e].phase /\ new.holding = editors[e].holding
        /\ new.life = editors[e].life
    BY <2>3 DEF Never, Editor
  <2> HIDE DEF new
  <2>5. Chain(new, requests', e)
    BY <1>1, <2>3, <2>4, SameChain
  <2>6. \A r \in Sent' : Proper(r)
    BY <1>1 DEF OneChain
  <2> QED  BY <1>1, <2>2, <2>4, <2>5, <2>6, CallbackChain
<1> QED  BY <1>2, <1>3 DEF Lapse

LEMMA ExpireChain ==
  ASSUME IInv, OneChain, Expire
  PROVE  OneChain' /\ LostStays
<1> DEFINE x(k) == [requests[k] EXCEPT !.stale = requests[k].stale \/ requests[k].answer = "ok"]
<1>1. editors' = editors /\ requests' = [k \in DOMAIN requests |-> x(k)]
  BY DEF Expire, ClientUnchanged
<1>2. \A k \in DOMAIN requests : requests[k] \in Request /\ requests[k] \in Sent
  BY EditorsLemma
<1>3. \A k \in DOMAIN requests : /\ x(k).by = requests[k].by /\ x(k).why = requests[k].why
                                 /\ x(k).inBeat = requests[k].inBeat
  BY <1>2 DEF Request
<1> HIDE DEF x
<1>4. \A e \in Editors : /\ Single(requests, e) => Single(requests', e)
                         /\ Silent(requests, e) => Silent(requests', e)
  BY <1>1, <1>3, ReplaceChain
<1>5. \A k \in DOMAIN requests : Proper(x(k))
  BY <1>2, <1>3 DEF OneChain, Proper
<1>6. \A r \in Sent' : Proper(r)
  BY <1>1, <1>5 DEF Sent, ToSet
<1> QED  BY <1>1, <1>4, <1>6, ServerChain

LEMMA LeavesLemma ==
  ASSUME IInv, [Next]_vars
  PROVE  budget'.leaves = MaxLeaves => budget.leaves = MaxLeaves
<1>1. budget \in [leaves : 0..MaxLeaves, failures : 0..MaxFailures, events : 0..MaxEvents]
  BY DEF IInv, TypeOK
<1>2. budget' = budget \/ Spend("leaves") \/ Spend("failures") \/ Spend("events")
  <2>1. CASE \E e \in Editors : Mount(e) \/ Unmount(e) \/ Beat(e) \/ BeatNow(e)
    BY <2>1 DEF Mount, Unmount, Beat, BeatNow, SendBeat
  <2>2. CASE HandoffTimer \/ Deliver \/ Leave \/ Return
    BY <2>2 DEF HandoffTimer, Deliver, Leave, Return
  <2>3. CASE Serve \/ Fail \/ LoseAnswer \/ Lapse \/ Expire \/ OtherTakes \/ OtherLeaves
    BY <2>3 DEF Serve, Fail, LoseAnswer, Lapse, Expire, OtherTakes, OtherLeaves
  <2>4. CASE UNCHANGED vars
    BY <2>4 DEF vars
  <2> QED  BY <2>1, <2>2, <2>3, <2>4 DEF Next
<1>3. CASE Spend("leaves")
  <2>1. budget.leaves \in Int /\ budget'.leaves = budget.leaves - 1 /\ budget.leaves <= MaxLeaves
    BY <1>1, <1>3, BoundsAssumption DEF Spend
  <2> QED  BY <2>1, BoundsAssumption
<1>4. CASE Spend("failures") \/ Spend("events")
  BY <1>1, <1>4 DEF Spend
<1> QED  BY <1>2, <1>3, <1>4

LEMMA OnceNext == IInv /\ OnceInv /\ [Next]_vars => OnceInv' /\ LostStays
<1> SUFFICES ASSUME IInv, OnceInv, [Next]_vars  PROVE OnceInv' /\ LostStays
  OBVIOUS
<1>1. CASE budget.leaves # MaxLeaves
  BY <1>1, LeavesLemma DEF OnceInv, LostStays
<1>2. CASE budget.leaves = MaxLeaves
  <2>0. OneChain
    BY <1>2 DEF OnceInv
  <2>1. CASE \E e \in Editors : Mount(e) \/ Unmount(e) \/ Beat(e) \/ BeatNow(e)
    BY <2>0, <2>1, MountChain, UnmountChain, BeatsChain DEF OnceInv
  <2>2. CASE HandoffTimer
    BY <2>0, <2>2, HandoffTimerChain DEF OnceInv
  <2>3. CASE Deliver
    BY <2>0, <2>3, DeliverChain DEF OnceInv
  <2>4. CASE Leave
    BY <2>0, <2>4, LeaveChain DEF OnceInv
  <2>5. CASE Return
    BY <2>0, <2>5, ReturnChain DEF OnceInv
  <2>6. CASE Serve \/ Fail \/ LoseAnswer
    BY <2>0, <2>6, ServeChain DEF OnceInv
  <2>7. CASE Lapse
    BY <2>0, <2>7, LapseChain DEF OnceInv
  <2>8. CASE Expire
    BY <2>0, <2>8, ExpireChain DEF OnceInv
  <2>9. CASE OtherTakes \/ OtherLeaves \/ UNCHANGED vars
    <3>1. editors' = editors /\ requests' = requests /\ Sent' = Sent
      BY <2>9 DEF OtherTakes, OtherLeaves, ClientUnchanged, vars, Sent
    <3>2. OneChain' /\ LostStays
      BY <2>0, <3>1, ServerChain DEF OneChain
    <3> QED  BY <3>2 DEF OnceInv
  <2> QED  BY <2>1, <2>2, <2>3, <2>4, <2>5, <2>6, <2>7, <2>8, <2>9 DEF Next
<1> QED  BY <1>1, <1>2

LEMMA OnceInit == Init => OnceInv
<1> SUFFICES ASSUME Init  PROVE OneChain
  BY DEF OnceInv
<1>1. requests = <<>> /\ Sent = {} /\ \A e \in Editors : Silent(requests, e)
  BY DEF Init, Sent, ToSet, Silent
<1>2. \A e \in Editors : editors[e] = Unborn
  BY DEF Init
<1>3. Never(Unborn) /\ Unborn.timers = 0 /\ ~Unborn.acquiring /\ Unborn.phase # "lost"
  BY DEF Unborn, Never
<1>4. \A e \in Editors : Chain(editors[e], requests, e)
  BY <1>1, <1>2, <1>3, FreshChain
<1> QED  BY <1>1, <1>4 DEF OneChain

\* Until the page is left for the back/forward cache, an editor that lost its lock never has it
\* again: its heartbeats are one chain, and what ends the chain leaves no timer and no request
\* behind that could start another (useEditLock.ts:100-199).
THEOREM LostIsFinalTheorem == Spec => LostIsFinal
<1>1. Spec => [][LostStays]_vars
  <2>1. IInv /\ OnceInv /\ [Next]_vars => OnceInv' /\ [LostStays]_vars
    BY OnceNext
  <2> QED  BY <2>1, OnceInit, InvariantLemma, PTL DEF Spec
<1> QED  BY <1>1 DEF LostIsFinal, LostStays
=============================================================================
