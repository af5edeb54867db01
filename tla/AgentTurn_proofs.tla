-------------------------- MODULE AgentTurn_proofs --------------------------
(***************************************************************************)
(* AgentTurn applies nothing that was not allowed and loses no proposal,   *)
(* for any number of questions, stops and failures, as long as no turn is  *)
(* followed again beside another question or answer (past.overlaid).       *)
(*                                                                         *)
(* The panel has one request, one response and one turn that is followed,  *)
(* and asks for each by itself.  So the proof is about whose they are: the *)
(* turn that is followed is that of the question shown, its ID is the one  *)
(* an Esc would stop, and nothing else is shown until it ends.             *)
(***************************************************************************)
EXTENDS AgentTurn, FiniteSetTheorems, TLAPS

TurnOrNone == Turns \cup {NoTurn}
TurnStates == Ended \cup {"none", "asked", "running"}
Waiting == {"listed", "unconfirmed"}

\* The records the variables hold.
PanelRec ==
  [request : TurnOrNone, response : TurnOrNone, turnId : TurnOrNone, unconfirmed : TurnOrNone, loading : BOOLEAN,
   stage : {"none", "post", "follow", "refresh"}, follows : TurnOrNone, stop : {"none", "await", "cancel"},
   stopTurn : TurnOrNone, making : TurnOrNone, makes : {"none", "auto"} \cup Proposals, aside : SUBSET (Turns \X Turns),
   decided : SUBSET Turns, manual : SUBSET Turns, stopped : SUBSET Turns, outcome : [Turns -> Outcomes],
   approval : {"on", "off", "asked"}]
PastRec == [escaped : SUBSET Turns, replaced : SUBSET Turns, overlaid : BOOLEAN, allowed : BOOLEAN]

\* What is followed, and what is made of a proposal, has a turn; a stop has the turn it stops or waits for its ID.
Consistent(p) ==
  /\ p.stage = "none" <=> p.follows = NoTurn
  /\ p.unconfirmed # NoTurn => ~p.loading
  /\ p.loading => p.stage # "none" \/ p.stop = "cancel"
  /\ p.stop = "cancel" => p.stopTurn # NoTurn
  /\ p.making = NoTurn <=> p.makes = "none"
Awaits(p) == p.stop = "await" => p.loading /\ p.turnId = NoTurn

\* What was shown, or has an outcome, was decided about by the effect.
Decided(p) ==
  /\ {p.response, p.making} \subseteq p.decided \cup {NoTurn}
  /\ AsideTurns(p) \subseteq p.decided
  /\ \A t \in Turns : p.outcome[t] # "none" => t \in p.decided

\* The turns the panel knows were asked; it decided about proposals, and what it asks for the first time is new.
Begun(tu) == {t \in Turns : tu[t] # "none"}
Names(p) == {p.turnId, p.unconfirmed, p.stopTurn, p.follows}
KnownTurns(p, tu) ==
  /\ Names(p) \subseteq Begun(tu) \cup {NoTurn}
  /\ \A t \in p.decided : tu[t] \in Proposals
  /\ p.stage = "post" => tu[p.follows] = "asked"

\* The setting the panel was told is not newer than the one it asked for.
AllowedIsAsked(p, se, pa) ==
  /\ p.approval = "asked" /\ se => pa.allowed
  /\ p.stage # "none" /\ p.approval = "on" => pa.allowed

\* The turn that is followed is that of the question shown, and nothing else is shown until it ends.
Following(p) ==
  p.stage # "none" =>
    /\ p.follows = p.request /\ p.response = NoTurn /\ p.making = NoTurn /\ p.loading
    /\ p.turnId = IF p.stage = "post" THEN NoTurn ELSE p.follows

\* Question, answer, ID and document are of one turn, which was not set aside.
OneTurn(p) ==
  /\ p.response # NoTurn => p.request = p.response
  /\ p.making # NoTurn => p.making = p.response
  /\ p.request # NoTurn => p.turnId \in {NoTurn, p.request} /\ p.request \notin AsideTurns(p)
  /\ \A pair \in p.aside : pair[1] = pair[2]

\* A question without an ID is neither being stopped nor lost.
Unnamed(p, cl) ==
  p.request # NoTurn /\ p.turnId = NoTurn =>
    p.request \notin {p.stopTurn, p.unconfirmed} /\ cl[p.request] # "unconfirmed"

\* While a turn that could still be cancelled is being stopped, the panel waits for nothing else.
Stopping(p, tu) ==
  p.stop = "cancel" /\ tu[p.stopTurn] \in {"running", "cancelled"} =>
    p.stage = "none" /\ p.loading /\ p.request = p.stopTurn /\ p.response = NoTurn

Course(p, cl, tu) == Following(p) /\ OneTurn(p) /\ Unnamed(p, cl) /\ Stopping(p, tu)

\* A panel that may be shown.
Fits(p, cl, tu, se, pa) ==
  /\ p \in PanelRec /\ Consistent(p) /\ Decided(p) /\ KnownTurns(p, tu) /\ AllowedIsAsked(p, se, pa)
  /\ ~pa.overlaid => Course(p, cl, tu)

\* What is not of the panel.
TurnsInOrder == \E n \in 0 .. MaxTurns : Asked = 1 .. n
RestInv ==
  /\ closing \in [Turns -> {"no", "closed"} \cup Waiting] /\ turns \in [Turns -> TurnStates]
  /\ setting \in BOOLEAN /\ past \in PastRec
  /\ TurnsInOrder
  /\ \A t \in Turns : closing[t] # "no" => turns[t] # "none"

EscapeStops(p, pa) == ~pa.overlaid => pa.escaped \subseteq p.stopped

TurnInv == Fits(panel, closing, turns, setting, past) /\ Awaits(panel) /\ RestInv /\ EscapeStops(panel, past)

LEMMA TurnConstants == NoTurn \notin Turns /\ NoTurn = 0 /\ TurnOrNone = 0 .. MaxTurns
BY TurnAssumption DEF NoTurn, Turns, TurnOrNone

LEMMA TurnInvInit == TurnInit => TurnInv
<1> SUFFICES ASSUME TurnInit  PROVE TurnInv
  OBVIOUS
<1>1. panel \in PanelRec
  BY TurnConstants DEF TurnInit, PanelRec, TurnOrNone, Outcomes
<1>2. /\ panel.stage = "none" /\ panel.follows = NoTurn /\ panel.unconfirmed = NoTurn /\ ~panel.loading
      /\ panel.stop = "none" /\ panel.making = NoTurn /\ panel.makes = "none" /\ panel.response = NoTurn
      /\ panel.aside = {} /\ panel.request = NoTurn /\ panel.turnId = NoTurn /\ panel.stopTurn = NoTurn
      /\ panel.decided = {} /\ panel.outcome = [t \in Turns |-> "none"] /\ panel.approval # "asked"
  BY DEF TurnInit
<1> HIDE DEF TurnInit
<1>3. Consistent(panel) /\ Decided(panel) /\ KnownTurns(panel, turns)
  BY <1>2 DEF Consistent, Decided, KnownTurns, Names, AsideTurns
<1>4. AllowedIsAsked(panel, setting, past) /\ Course(panel, closing, turns) /\ Awaits(panel)
  BY <1>2 DEF AllowedIsAsked, Course, Following, OneTurn, Unnamed, Stopping, Awaits
<1>5. RestInv
  <2>1. /\ closing = [t \in Turns |-> "no"] /\ turns = [t \in Turns |-> "none"] /\ setting \in BOOLEAN
        /\ past = [escaped |-> {}, replaced |-> {}, overlaid |-> FALSE, allowed |-> FALSE]
    BY DEF TurnInit
  <2>2. Asked = 1 .. 0 /\ 0 \in 0 .. MaxTurns
    BY <2>1, TurnAssumption DEF Asked
  <2> QED  BY <2>1, <2>2 DEF RestInv, TurnsInOrder, TurnStates, PastRec, Waiting
<1>6. past.escaped = {}
  BY DEF TurnInit
<1> QED  BY <1>1, <1>3, <1>4, <1>5, <1>6 DEF TurnInv, Fits, EscapeStops
-----------------------------------------------------------------------------
\* What an Esc that waits for the turn's ID does when the panel is rendered: it goes on waiting, ends with the turn
\* that never had an ID, or stops the turn that has one.
Same(p, q) ==
  /\ q.request = p.request /\ q.response = p.response /\ q.making = p.making /\ q.makes = p.makes
  /\ q.aside = p.aside /\ q.decided = p.decided /\ q.outcome = p.outcome /\ p.stopped \subseteq q.stopped

LEMMA AwaitShape ==
  ASSUME NEW p \in PanelRec
  PROVE  LET q == AwaitEffect(p)
         IN  \/ q = p /\ Awaits(p)
             \/ p.stop = "await" /\ ~p.loading /\ q = [p EXCEPT !.stop = "none"]
             \/ p.stop = "await" /\ p.loading /\ p.turnId # NoTurn /\ q = CancelFollowing(p)
BY DEF AwaitEffect, FollowingTurn, Awaits

LEMMA CancelShape ==
  ASSUME NEW p \in PanelRec, p.turnId # NoTurn
  PROVE  LET q == CancelFollowing(p)
         IN  /\ q \in PanelRec /\ Same(p, q) /\ q.stopped = p.stopped \cup {p.turnId}
             /\ q.stage = "none" /\ q.follows = NoTurn /\ q.stop = "cancel" /\ q.stopTurn = p.turnId
             /\ q.turnId = p.turnId /\ q.loading = p.loading /\ q.unconfirmed = p.unconfirmed
             /\ q.approval = p.approval /\ q.manual = p.manual
BY DEF CancelFollowing, StopFollowing, PanelRec, Same, TurnOrNone

\* A turn with an ID that is followed is stopped.
LEMMA CancelFits ==
  ASSUME NEW p, NEW cl, NEW tu, NEW se, NEW pa, Fits(p, cl, tu, se, pa), p.turnId # NoTurn, p.loading, p.stage # "none"
  PROVE  Fits(CancelFollowing(p), cl, tu, se, pa)
<1> DEFINE q == CancelFollowing(p)
<1>1. p \in PanelRec /\ Consistent(p) /\ Decided(p) /\ KnownTurns(p, tu) /\ AllowedIsAsked(p, se, pa)
  BY DEF Fits
<1>2. /\ q \in PanelRec /\ Same(p, q)
      /\ q.stage = "none" /\ q.follows = NoTurn /\ q.stop = "cancel" /\ q.stopTurn = p.turnId
      /\ q.turnId = p.turnId /\ q.loading = p.loading /\ q.unconfirmed = p.unconfirmed
      /\ q.approval = p.approval
  BY <1>1, CancelShape
<1> HIDE DEF q
<1>3. Consistent(q) /\ Decided(q) /\ KnownTurns(q, tu) /\ AllowedIsAsked(q, se, pa)
  BY <1>1, <1>2 DEF Consistent, Decided, KnownTurns, AllowedIsAsked, Names, AsideTurns, Same
<1>4. ASSUME ~pa.overlaid  PROVE Course(q, cl, tu)
  <2>1. Following(p) /\ OneTurn(p)
    BY <1>4 DEF Fits, Course
  <2>2. p.request = p.turnId /\ p.response = NoTurn
    BY <2>1 DEF Following
  <2> QED  BY <1>2, <2>1, <2>2 DEF Course, Following, OneTurn, Unnamed, Stopping, Same, AsideTurns
<1> QED  BY <1>2, <1>3, <1>4 DEF Fits, q

LEMMA AwaitLemma ==
  ASSUME NEW p, NEW cl, NEW tu, NEW se, NEW pa, Fits(p, cl, tu, se, pa)
  PROVE  LET q == AwaitEffect(p)
         IN  Fits(q, cl, tu, se, pa) /\ Awaits(q) /\ Same(p, q)
<1> DEFINE q == AwaitEffect(p)
<1>1. p \in PanelRec /\ Consistent(p)
  BY DEF Fits
<1>2. CASE q = p /\ Awaits(p)
  BY <1>2 DEF Same
<1>3. CASE p.stop = "await" /\ ~p.loading /\ q = [p EXCEPT !.stop = "none"]
  <2>1. /\ q \in PanelRec /\ Same(p, q) /\ q.stop = "none" /\ q.stage = p.stage /\ q.follows = p.follows
        /\ q.stopTurn = p.stopTurn /\ q.turnId = p.turnId /\ q.loading = p.loading /\ q.unconfirmed = p.unconfirmed
        /\ q.approval = p.approval
    BY <1>1, <1>3 DEF PanelRec, Same
  <2> HIDE DEF q
  <2>2. Consistent(q) /\ Decided(q) /\ KnownTurns(q, tu) /\ AllowedIsAsked(q, se, pa)
    BY <1>1, <1>3, <2>1 DEF Fits, Consistent, Decided, KnownTurns, AllowedIsAsked, Names, AsideTurns, Same
  <2>3. Course(p, cl, tu) => Course(q, cl, tu)
    BY <2>1 DEF Course, Following, OneTurn, Unnamed, Stopping, Same, AsideTurns
  <2> QED  BY <2>1, <2>2, <2>3 DEF Fits, Awaits, q
<1>4. CASE p.stop = "await" /\ p.loading /\ p.turnId # NoTurn /\ q = CancelFollowing(p)
  <2>1. p.stage # "none"
    BY <1>1, <1>4 DEF Consistent
  <2>2. Same(p, q) /\ q.stop = "cancel"
    BY <1>1, <1>4, CancelShape
  <2>3. Fits(q, cl, tu, se, pa)
    BY <1>4, <2>1, CancelFits
  <2> QED  BY <2>2, <2>3 DEF Awaits
<1> HIDE DEF q
<1>5. \/ q = p /\ Awaits(p)
      \/ p.stop = "await" /\ ~p.loading /\ q = [p EXCEPT !.stop = "none"]
      \/ p.stop = "await" /\ p.loading /\ p.turnId # NoTurn /\ q = CancelFollowing(p)
  BY <1>1, AwaitShape DEF q
<1> QED  BY <1>2, <1>3, <1>4, <1>5 DEF q

\* A step that shows a panel that fits keeps the invariant.
LEMMA ShowsLemma ==
  ASSUME NEW p, ShowsPanel(p), Fits(p, closing', turns', setting', past'), RestInv', EscapeStops(p, past')
  PROVE  TurnInv' /\ Same(p, panel')
<1>1. Fits(panel', closing', turns', setting', past') /\ Awaits(panel') /\ Same(p, panel')
  BY AwaitLemma DEF ShowsPanel
<1>2. EscapeStops(panel', past')
  BY <1>1 DEF EscapeStops, Same
<1> QED  BY <1>1, <1>2 DEF TurnInv
-----------------------------------------------------------------------------
(* Other turns, and turns that go on. *)

\* A turn ends, or is cancelled.
Ends(tu, tv) ==
  \A t \in Turns : tv[t] = tu[t] \/ (tu[t] \in {"running", "cancelled"} /\ tv[t] \notin {"none", "asked"})

LEMMA EndsLemma ==
  ASSUME NEW p, NEW cl, NEW tu, NEW tv, NEW se, NEW pa, Fits(p, cl, tu, se, pa), Ends(tu, tv)
  PROVE  Fits(p, cl, tv, se, pa)
<1>1. p.stopTurn \in TurnOrNone /\ p.follows \in TurnOrNone /\ p.decided \subseteq Turns
      /\ Consistent(p) /\ KnownTurns(p, tu)
  BY DEF Fits, PanelRec
<1>2. Begun(tu) \subseteq Begun(tv)
  BY DEF Ends, Begun
<1>3. KnownTurns(p, tv)
  BY <1>1, <1>2, TurnConstants DEF Ends, KnownTurns, Proposals, Consistent, TurnOrNone
<1>4. p.stop = "cancel" /\ tv[p.stopTurn] \in {"running", "cancelled"} => tu[p.stopTurn] \in {"running", "cancelled"}
  BY <1>1 DEF Ends, Consistent, TurnOrNone
<1>5. Course(p, cl, tu) => Course(p, cl, tv)
  BY <1>4 DEF Course, Stopping
<1> QED  BY <1>3, <1>5 DEF Fits

\* What is known of the turns.
LEMMA RestTurns ==
  ASSUME RestInv, Ends(turns, turns'), turns' \in [Turns -> TurnStates]
  PROVE  TurnsInOrder' /\ \A t \in Turns : closing[t] # "no" => turns'[t] # "none"
<1>1. Asked' = Asked
  BY DEF Asked, Ends
<1>2. TurnsInOrder'
  BY <1>1 DEF RestInv, TurnsInOrder
<1> QED  BY <1>2 DEF RestInv, Ends

\* The next turn is new.
LEMMA FreshLemma ==
  ASSUME RestInv, CanAsk, turns' = [turns EXCEPT ![NextTurn] = "asked"]
  PROVE  /\ NextTurn \in Turns /\ NextTurn # NoTurn /\ turns[NextTurn] = "none" /\ TurnsInOrder'
         /\ turns' \in [Turns -> TurnStates]
<1>1. PICK n \in 0 .. MaxTurns : Asked = 1 .. n
  BY DEF RestInv, TurnsInOrder
<1>2. n \in Nat /\ MaxTurns \in Nat
  BY <1>1, TurnAssumption
<1>3. Cardinality(1 .. n) = IF 1 > n THEN 0 ELSE n - 1 + 1
  BY <1>2, FS_Interval
<1>4. Cardinality(Asked) = n
  BY <1>1, <1>2, <1>3
<1>5. NextTurn = n + 1 /\ n < MaxTurns
  BY <1>4 DEF NextTurn, CanAsk
<1>6. n + 1 \in Turns /\ n + 1 \notin Asked /\ n + 1 # NoTurn
  BY <1>1, <1>2, <1>5 DEF Turns, NoTurn
<1>7. turns[n + 1] = "none" /\ turns \in [Turns -> TurnStates]
  BY <1>6 DEF Asked, RestInv
<1>8. Asked' = Asked \cup {n + 1}
  BY <1>5, <1>6, <1>7 DEF Asked
<1>9. Asked' = 1 .. (n + 1) /\ n + 1 \in 0 .. MaxTurns
  BY <1>1, <1>2, <1>5, <1>8
<1> QED  BY <1>5, <1>6, <1>7, <1>9 DEF TurnsInOrder, TurnStates
-----------------------------------------------------------------------------
(* The panels that are shown. *)

\* What is set aside is what was, and the open proposal.
LEMMA SetAsideLemma ==
  ASSUME NEW p \in PanelRec
  PROVE  /\ SetAside(p) \subseteq Turns \X Turns
         /\ \A pair \in SetAside(p) : pair \in p.aside \/ (pair = <<p.request, p.response>> /\ p.response # NoTurn)
         /\ \A pair \in p.aside : pair[2] # p.response => pair \in SetAside(p)
         /\ OpenProposal(p) \subseteq SetAside(p)
<1>1. OpenProposal(p) \subseteq Turns \X Turns
  BY DEF OpenProposal, PanelRec, TurnOrNone
<1>2. p.aside \subseteq Turns \X Turns
  BY DEF PanelRec
<1> QED  BY <1>1, <1>2 DEF SetAside, OpenProposal

\* The types of what is shown of a turn that is followed.
LEMMA OrNone == NoTurn \in TurnOrNone /\ \A t \in Turns : t \in TurnOrNone
BY DEF TurnOrNone

LEMMA AskType ==
  ASSUME NEW p \in PanelRec, NEW t \in Turns
  PROVE  Ask(p, t) \in PanelRec
BY OrNone, Zenon DEF PanelRec, Ask

LEMMA ResumeType ==
  ASSUME NEW p \in PanelRec, NEW t \in Turns
  PROVE  ResumeTurn(p, t) \in PanelRec
BY OrNone, Zenon DEF PanelRec, ResumeTurn

LEMMA FollowEndsType ==
  ASSUME NEW p \in PanelRec
  PROVE  FollowEnds(p) \in PanelRec
BY OrNone, Zenon DEF PanelRec, FollowEnds

\* A question is asked.
LEMMA AskFits ==
  ASSUME NEW p, NEW tu, NEW tv, NEW se, NEW pa, NEW pb, NEW t \in Turns, NEW cl, NEW A \in SUBSET (Turns \X Turns),
         Fits(p, cl, tu, se, pa), p.making = NoTurn, p.loading => p.response # NoTurn,
         cl[t] # "unconfirmed", tu \in [Turns -> TurnStates], tu[t] = "none", tv = [tu EXCEPT ![t] = "asked"],
         pb.allowed = se, pb.overlaid = pa.overlaid,
         \A pair \in A : pair \in p.aside \/ (pair = <<p.request, p.response>> /\ p.response # NoTurn)
  PROVE  Fits(Ask([p EXCEPT !.aside = A], t), cl, tv, se, pb)
<1> DEFINE q == Ask([p EXCEPT !.aside = A], t)
<1>1. p \in PanelRec /\ Consistent(p) /\ Decided(p) /\ KnownTurns(p, tu)
  BY DEF Fits
<1>2. q \in PanelRec
  <2>1. [p EXCEPT !.aside = A] \in PanelRec
    BY <1>1 DEF PanelRec
  <2> QED  BY <2>1, AskType
<1>3. /\ q.request = t /\ q.response = NoTurn /\ q.turnId = NoTurn /\ q.unconfirmed = NoTurn /\ q.loading
      /\ q.stage = "post" /\ q.follows = t /\ q.approval = "asked" /\ q.aside = A
      /\ q.stop = p.stop /\ q.stopTurn = p.stopTurn /\ q.making = p.making /\ q.makes = p.makes
      /\ q.decided = p.decided /\ q.outcome = p.outcome
  BY <1>1 DEF Ask, PanelRec
<1> HIDE DEF q
<1>4. AsideTurns(q) \subseteq p.decided
  BY <1>1, <1>3 DEF AsideTurns, Decided
<1>5. t \notin p.decided /\ t # p.stopTurn /\ t # NoTurn
  BY <1>1, TurnConstants DEF KnownTurns, Names, Begun, Proposals
<1>6. Consistent(q) /\ Decided(q) /\ AllowedIsAsked(q, se, pb)
  BY <1>1, <1>3, <1>4, <1>5 DEF Consistent, Decided, AllowedIsAsked
<1>7. KnownTurns(q, tv)
  <2>1. Begun(tv) = Begun(tu) \cup {t}
    BY DEF Begun
  <2>2. \A d \in q.decided : tv[d] \in Proposals
    BY <1>1, <1>3, <1>5 DEF KnownTurns, PanelRec
  <2> QED  BY <1>1, <1>3, <2>1, <2>2 DEF KnownTurns, Names
<1>8. ASSUME ~pb.overlaid  PROVE Course(q, cl, tv)
  <2>1. OneTurn(p) /\ Stopping(p, tu)
    BY <1>8 DEF Fits, Course
  <2>2. Stopping(q, tv)
    <3>1. tv[p.stopTurn] = tu[p.stopTurn]
      BY <1>5
    <3> QED  BY <1>3, <2>1, <3>1 DEF Stopping
  <2>3. Following(q) /\ Unnamed(q, cl)
    BY <1>3, <1>5 DEF Following, Unnamed
  <2>4. t \notin AsideTurns(q) /\ \A pair \in A : pair[1] = pair[2]
    BY <1>4, <1>5, <2>1 DEF OneTurn
  <2>5. OneTurn(q)
    BY <1>3, <2>4 DEF OneTurn
  <2> QED  BY <2>2, <2>3, <2>5 DEF Course
<1> QED  BY <1>2, <1>6, <1>7, <1>8 DEF Fits, q

\* A turn is followed again.
LEMMA ResumeFits ==
  ASSUME NEW p \in PanelRec, NEW cl, NEW tu, NEW se, NEW pa, NEW t \in Turns,
         p.making = NoTurn <=> p.makes = "none", p.stop = "cancel" => p.stopTurn # NoTurn,
         Decided(p), KnownTurns(p, tu), tu[t] # "none", se => pa.allowed,
         ~pa.overlaid => /\ OneTurn(p) /\ p.request = t /\ p.response = NoTurn /\ p.making = NoTurn
                         /\ p.turnId = t
                         /\ ~(p.stop = "cancel" /\ tu[p.stopTurn] \in {"running", "cancelled"})
  PROVE  Fits(ResumeTurn(p, t), cl, tu, se, pa)
<1> DEFINE q == ResumeTurn(p, t)
<1>1. q \in PanelRec
  BY ResumeType
<1>2. /\ q.request = p.request /\ q.response = p.response /\ q.turnId = p.turnId /\ q.unconfirmed = NoTurn /\ q.loading
      /\ q.stage = "follow" /\ q.follows = t /\ q.approval = "asked" /\ q.aside = p.aside
      /\ q.stop = p.stop /\ q.stopTurn = p.stopTurn /\ q.making = p.making /\ q.makes = p.makes
      /\ q.decided = p.decided /\ q.outcome = p.outcome
  BY DEF ResumeTurn, PanelRec
<1> HIDE DEF q
<1>3. t # NoTurn
  BY TurnConstants
<1>4. Consistent(q) /\ Decided(q) /\ AllowedIsAsked(q, se, pa)
  BY <1>2, <1>3 DEF Consistent, Decided, AllowedIsAsked, AsideTurns
<1>5. KnownTurns(q, tu)
  BY <1>2 DEF KnownTurns, Names, Begun
<1>6. ASSUME ~pa.overlaid  PROVE Course(q, cl, tu)
  BY <1>2, <1>3, <1>6 DEF Course, Following, OneTurn, Unnamed, Stopping, AsideTurns
<1> QED  BY <1>1, <1>4, <1>5, <1>6 DEF Fits, q

\* A turn is followed no more: its end was seen, or not.
LEMMA FollowEndsShape ==
  ASSUME NEW p \in PanelRec
  PROVE  LET q == FollowEnds(p)
         IN  /\ q \in PanelRec /\ q.stage = "none" /\ q.follows = NoTurn /\ ~q.loading
             /\ q.request = p.request /\ q.response = p.response /\ q.turnId = p.turnId
             /\ q.unconfirmed = p.unconfirmed /\ q.stop = p.stop /\ q.stopTurn = p.stopTurn
             /\ q.making = p.making /\ q.makes = p.makes /\ q.aside = p.aside /\ q.decided = p.decided
             /\ q.outcome = p.outcome /\ q.approval = p.approval /\ q.stopped = p.stopped /\ q.manual = p.manual
<1>1. FollowEnds(p) \in PanelRec
  BY FollowEndsType
<1> QED  BY <1>1 DEF FollowEnds, PanelRec

LEMMA FollowEndsFits ==
  ASSUME NEW p, NEW cl, NEW tu, NEW se, NEW pa, Fits(p, cl, tu, se, pa), p.stage # "none"
  PROVE  Fits(FollowEnds(p), cl, tu, se, pa)
<1> DEFINE q == FollowEnds(p)
<1>1. p \in PanelRec /\ Consistent(p) /\ Decided(p) /\ KnownTurns(p, tu)
  BY DEF Fits
<1>2. /\ q \in PanelRec /\ q.stage = "none" /\ q.follows = NoTurn /\ ~q.loading
      /\ q.request = p.request /\ q.response = p.response /\ q.turnId = p.turnId
      /\ q.unconfirmed = p.unconfirmed /\ q.stop = p.stop /\ q.stopTurn = p.stopTurn
      /\ q.making = p.making /\ q.makes = p.makes /\ q.aside = p.aside /\ q.decided = p.decided
      /\ q.outcome = p.outcome /\ q.approval = p.approval
  BY <1>1, FollowEndsShape
<1> HIDE DEF q
<1>3. Consistent(q) /\ Decided(q) /\ KnownTurns(q, tu) /\ AllowedIsAsked(q, se, pa)
  BY <1>1, <1>2 DEF Fits, Consistent, Decided, KnownTurns, Names, AllowedIsAsked, AsideTurns
<1>4. Course(p, cl, tu) => Course(q, cl, tu)
  BY <1>2 DEF Course, Following, OneTurn, Unnamed, Stopping, AsideTurns
<1> QED  BY <1>2, <1>3, <1>4 DEF Fits, q
-----------------------------------------------------------------------------
(* The steps. *)

MayAutoApply ==
  \A t \in Turns : AutoStarts(t) =>
    /\ panel.outcome[t] = "none" /\ t \notin panel.decided
    /\ (t \notin past.escaped \/ past.overlaid) /\ past.allowed
KeepsProposals ==
  \A t \in Turns : Offered(panel, t) =>
    \/ Offered(panel', t) \/ panel'.outcome[t] # "none" \/ t \in past'.replaced \/ past'.overlaid
TurnStep == TurnInv' /\ MayAutoApply /\ KeepsProposals

\* A step that shows what was shown.
LEMMA QuietLemma ==
  ASSUME Same(panel, panel')
  PROVE  MayAutoApply /\ KeepsProposals
BY DEF Same, MayAutoApply, KeepsProposals, AutoStarts, Offered, OpenProposal, AsideTurns

LEMMA QuietShow ==
  ASSUME NEW p, Same(panel, p), ShowsPanel(p), Fits(p, closing', turns', setting', past'), RestInv', EscapeStops(p, past')
  PROVE  TurnStep
<1>1. TurnInv' /\ Same(p, panel')
  BY ShowsLemma
<1>2. Same(panel, panel')
  BY <1>1 DEF Same
<1> QED  BY <1>1, <1>2, QuietLemma DEF TurnStep

\* What the steps know.
LEMMA Now ==
  ASSUME TurnInv
  PROVE  /\ Fits(panel, closing, turns, setting, past) /\ RestInv /\ EscapeStops(panel, past) /\ Awaits(panel)
         /\ panel \in PanelRec /\ Consistent(panel) /\ Decided(panel) /\ KnownTurns(panel, turns)
         /\ AllowedIsAsked(panel, setting, past)
         /\ ~past.overlaid => Course(panel, closing, turns)
         /\ turns \in [Turns -> TurnStates] /\ past \in PastRec
BY DEF TurnInv, Fits, RestInv

\* Turns, closings and the setting as they were.
LEMMA SameRest ==
  ASSUME RestInv, UNCHANGED <<closing, turns, setting>>, past' \in PastRec
  PROVE  RestInv'
BY DEF RestInv, TurnsInOrder, Asked

LEMMA EscapeStep ==
  ASSUME TurnInv, Escape
  PROVE  TurnStep
<1>1. panel.loading /\ panel.stop = "none" /\ UNCHANGED <<closing, turns, setting>> /\ panel.stage # "none"
  BY Now DEF Escape, Consistent
<1>2. CASE panel.turnId = NoTurn
  <2>1. panel' = [panel EXCEPT !.stop = "await"] /\ past' = past
    BY <1>2 DEF Escape
  <2>2. /\ panel' \in PanelRec /\ Same(panel, panel') /\ panel'.stop = "await" /\ panel'.stage = panel.stage
        /\ panel'.follows = panel.follows /\ panel'.stopTurn = panel.stopTurn /\ panel'.turnId = panel.turnId
        /\ panel'.loading = panel.loading /\ panel'.unconfirmed = panel.unconfirmed
        /\ panel'.approval = panel.approval /\ panel'.stopped = panel.stopped
    BY Now, <2>1 DEF PanelRec, Same
  <2>3. Consistent(panel') /\ Decided(panel') /\ KnownTurns(panel', turns') /\ AllowedIsAsked(panel', setting', past')
    BY Now, <1>1, <2>1, <2>2 DEF Consistent, Decided, KnownTurns, AllowedIsAsked, Names, AsideTurns, Same
  <2>4. Course(panel, closing, turns) => Course(panel', closing', turns')
    BY <1>1, <2>2 DEF Course, Following, OneTurn, Unnamed, Stopping, Same, AsideTurns
  <2>5. Fits(panel', closing', turns', setting', past')
    BY Now, <2>1, <2>2, <2>3, <2>4 DEF Fits
  <2>6. RestInv' /\ EscapeStops(panel', past') /\ Awaits(panel')
    BY Now, <1>1, <1>2, <2>1, <2>2, SameRest DEF EscapeStops, Awaits
  <2> QED  BY <2>2, <2>5, <2>6, QuietLemma DEF TurnStep, TurnInv
<1>3. CASE panel.turnId # NoTurn
  <2>1. /\ panel' = CancelFollowing(panel)
        /\ past' = [past EXCEPT !.escaped = @ \cup ({panel.follows} \ {NoTurn})]
    BY <1>3 DEF Escape
  <2>2. /\ panel' \in PanelRec /\ Same(panel, panel') /\ panel'.stopped = panel.stopped \cup {panel.turnId}
        /\ panel'.stop = "cancel"
    BY Now, <1>3, <2>1, CancelShape
  <2>3. panel.follows \in Turns \cup {NoTurn}
    BY Now DEF PanelRec, TurnOrNone
  <2>4. /\ past' \in PastRec /\ past'.overlaid = past.overlaid /\ past'.allowed = past.allowed
        /\ past'.escaped = past.escaped \cup ({panel.follows} \ {NoTurn})
    BY Now, <2>1, <2>3 DEF PastRec
  <2>5. Fits(panel, closing', turns', setting', past')
    BY Now, <1>1, <2>4 DEF Fits, AllowedIsAsked
  <2>6. Fits(panel', closing', turns', setting', past')
    BY <1>1, <1>3, <2>1, <2>5, CancelFits
  <2>7. EscapeStops(panel', past')
    BY Now, <1>1, <1>3, <2>2, <2>4 DEF EscapeStops, Course, Following
  <2>8. RestInv' /\ Awaits(panel')
    BY Now, <1>1, <2>2, <2>4, SameRest DEF Awaits
  <2> QED  BY <2>2, <2>6, <2>7, <2>8, QuietLemma DEF TurnStep, TurnInv
<1> QED  BY <1>2, <1>3

\* What others do does not touch the panel.
LEMMA OutsideStep ==
  ASSUME TurnInv, (\E t \in Turns : CloseTurn(t) \/ EndTurn(t)) \/ WithdrawApproval \/ UNCHANGED turnVars
  PROVE  TurnStep
<1>1. ASSUME NEW t \in Turns, CloseTurn(t)  PROVE TurnStep
  <2>1. /\ UNCHANGED <<panel, turns, setting, past>> /\ turns[t] # "none"
        /\ closing' = [closing EXCEPT ![t] = IF panel.unconfirmed = t THEN "unconfirmed" ELSE "listed"]
    BY <1>1 DEF CloseTurn
  <2>2. RestInv'
    BY Now, <2>1 DEF RestInv, TurnsInOrder, Asked, Waiting
  <2>3. \A u \in Turns : closing'[u] = "unconfirmed" => closing[u] = "unconfirmed" \/ u = panel.unconfirmed
    BY Now, <2>1 DEF RestInv
  <2>4. panel.request # NoTurn => panel.request \in Turns
    BY Now DEF PanelRec, TurnOrNone
  <2>5. Course(panel, closing, turns) => Course(panel, closing', turns)
    BY <2>3, <2>4 DEF Course, Unnamed
  <2>6. TurnInv'
    BY Now, <2>1, <2>2, <2>5 DEF TurnInv, Fits, Awaits, EscapeStops
  <2> QED  BY <2>1, <2>6, QuietLemma DEF TurnStep, Same
<1>2. ASSUME NEW t \in Turns, EndTurn(t)  PROVE TurnStep
  <2>1. PICK e \in Proposals \cup {"answer", "failed"} : turns' = [turns EXCEPT ![t] = e]
    BY <1>2 DEF EndTurn
  <2>2. UNCHANGED <<panel, closing, setting, past>> /\ turns[t] = "running"
    BY <1>2 DEF EndTurn
  <2>3. turns' \in [Turns -> TurnStates] /\ Ends(turns, turns')
    BY Now, <2>1, <2>2 DEF Ends, TurnStates, Ended, Proposals
  <2>4. RestInv'
    BY Now, <2>2, <2>3, RestTurns DEF RestInv
  <2>5. Fits(panel, closing, turns', setting, past)
    BY Now, <2>3, EndsLemma
  <2>6. TurnInv'
    BY Now, <2>2, <2>4, <2>5 DEF TurnInv, Awaits, EscapeStops
  <2> QED  BY <2>2, <2>6, QuietLemma DEF TurnStep, Same
<1>3. CASE WithdrawApproval
  <2>1. UNCHANGED <<panel, closing, turns, past>> /\ setting' = FALSE
    BY <1>3 DEF WithdrawApproval
  <2>2. RestInv'
    BY Now, <2>1 DEF RestInv, TurnsInOrder, Asked
  <2>3. TurnInv'
    BY Now, <2>1, <2>2 DEF TurnInv, Fits, AllowedIsAsked, Awaits, EscapeStops
  <2> QED  BY <2>1, <2>3, QuietLemma DEF TurnStep, Same
<1>4. CASE UNCHANGED turnVars
  <2>1. UNCHANGED <<panel, closing, turns, setting, past>>
    BY <1>4 DEF turnVars
  <2>2. TurnInv'
    BY Now, <2>1, SameRest DEF TurnInv, Awaits, EscapeStops
  <2> QED  BY <2>1, <2>2, QuietLemma DEF TurnStep, Same
<1> QED  BY <1>1, <1>2, <1>3, <1>4

\* The tab of the chat, and the setting that is known.
LEMMA ViewStep ==
  ASSUME TurnInv, VisitChat \/ ApprovalKnown
  PROVE  TurnStep
<1>1. UNCHANGED <<closing, turns, setting, past>>
  BY DEF VisitChat, ApprovalKnown
<1>2. RestInv'
  BY Now, <1>1, SameRest
<1>3. CASE VisitChat
  <2> DEFINE p == [panel EXCEPT !.stop = "none"]
  <2>1. /\ p \in PanelRec /\ Same(panel, p) /\ p.stop = "none" /\ p.stage = panel.stage /\ p.follows = panel.follows
        /\ p.stopTurn = panel.stopTurn /\ p.turnId = panel.turnId /\ p.loading = panel.loading
        /\ p.unconfirmed = panel.unconfirmed /\ p.approval = panel.approval /\ p.stopped = panel.stopped
    BY Now DEF PanelRec, Same
  <2>2. ShowsPanel(p) /\ panel.stop = "await"
    BY <1>3 DEF VisitChat
  <2> HIDE DEF p
  <2>3. Consistent(p) /\ Decided(p) /\ KnownTurns(p, turns) /\ AllowedIsAsked(p, setting, past)
    BY Now, <2>1, <2>2 DEF Consistent, Decided, KnownTurns, AllowedIsAsked, Names, AsideTurns, Same
  <2>4. Course(panel, closing, turns) => Course(p, closing, turns)
    BY <2>1 DEF Course, Following, OneTurn, Unnamed, Stopping, Same, AsideTurns
  <2>5. Fits(p, closing', turns', setting', past') /\ EscapeStops(p, past')
    BY Now, <1>1, <2>1, <2>3, <2>4 DEF Fits, EscapeStops
  <2> QED  BY <1>2, <2>1, <2>2, <2>5, QuietShow
<1>4. CASE ApprovalKnown
  <2>1. PICK known \in {"off"} \cup {IF setting THEN "on" ELSE "off"} : ShowsPanel([panel EXCEPT !.approval = known])
    BY <1>4 DEF ApprovalKnown
  <2> DEFINE p == [panel EXCEPT !.approval = known]
  <2>2. known \in {"on", "off"} /\ (known = "on" => setting) /\ panel.approval = "asked"
    BY <1>4, <2>1 DEF ApprovalKnown
  <2>3. /\ p \in PanelRec /\ Same(panel, p) /\ p.stop = panel.stop /\ p.stage = panel.stage
        /\ p.follows = panel.follows /\ p.stopTurn = panel.stopTurn /\ p.turnId = panel.turnId
        /\ p.loading = panel.loading /\ p.unconfirmed = panel.unconfirmed /\ p.approval = known
        /\ p.stopped = panel.stopped
    BY Now, <2>2 DEF PanelRec, Same
  <2>4. ShowsPanel(p)
    BY <2>1
  <2> HIDE DEF p
  <2>5. Consistent(p) /\ Decided(p) /\ KnownTurns(p, turns) /\ AllowedIsAsked(p, setting, past)
    BY Now, <2>2, <2>3 DEF Consistent, Decided, KnownTurns, AllowedIsAsked, Names, AsideTurns, Same
  <2>6. Course(panel, closing, turns) => Course(p, closing, turns)
    BY <2>3 DEF Course, Following, OneTurn, Unnamed, Stopping, Same, AsideTurns
  <2>7. Fits(p, closing', turns', setting', past') /\ EscapeStops(p, past')
    BY Now, <1>1, <2>3, <2>5, <2>6 DEF Fits, EscapeStops
  <2> QED  BY <1>2, <2>3, <2>4, <2>7, QuietShow
<1> QED  BY <1>3, <1>4
-----------------------------------------------------------------------------
(* A turn is asked and followed. *)

\* What a question leaves: the open proposal is set aside, or replaced.
LEMMA AskSteps ==
  ASSUME NEW p, NEW q, q.response = NoTurn, q.outcome = panel.outcome, q.makes = panel.makes, q.making = panel.making,
         Same(q, panel'), panel.making = NoTurn, Consistent(panel),
         \A t \in AsideTurns(panel) : t # panel.response => t \in AsideTurns(q),
         ~past'.overlaid /\ panel.response # NoTurn =>
            panel.response \in AsideTurns(q) \/ panel.response \in past'.replaced
  PROVE  MayAutoApply /\ KeepsProposals
<1>1. MayAutoApply
  BY DEF MayAutoApply, AutoStarts, Same, Consistent
<1>2. ASSUME NEW t \in Turns, Offered(panel, t), ~past'.overlaid, t \notin past'.replaced
      PROVE  Offered(panel', t)
  <2>1. t \in AsideTurns(panel) \/ (t = panel.response /\ panel.response # NoTurn)
    BY <1>2 DEF Offered, OpenProposal
  <2>2. t \in AsideTurns(q)
    BY <1>2, <2>1, TurnConstants
  <2> QED  BY <1>2, <2>2 DEF Offered, Same, AsideTurns
<1> QED  BY <1>1, <1>2 DEF KeepsProposals

LEMMA StartsStep ==
  ASSUME TurnInv, SubmitTurn \/ Regenerate
  PROVE  TurnStep
<1> DEFINE A == IF SubmitTurn THEN SetAside(panel) ELSE panel.aside
           p == [panel EXCEPT !.aside = A]
           q == Ask(p, NextTurn)
<1>1. /\ CanAsk /\ turns' = [turns EXCEPT ![NextTurn] = "asked"] /\ UNCHANGED <<closing, setting, spent>>
      /\ panel.making = NoTurn /\ (panel.loading => panel.response # NoTurn)
  BY DEF SubmitTurn, Regenerate, Starts
<1>2. /\ NextTurn \in Turns /\ NextTurn # NoTurn /\ turns[NextTurn] = "none" /\ TurnsInOrder'
      /\ turns' \in [Turns -> TurnStates]
  BY Now, <1>1, FreshLemma
<1>3. ShowsPanel(q)
  <2>1. CASE SubmitTurn
    BY <2>1 DEF SubmitTurn, Starts
  <2>2. CASE ~SubmitTurn /\ Regenerate
    <3>1. p = panel
      BY Now, <2>2 DEF PanelRec
    <3> QED  BY <2>2, <3>1 DEF Regenerate, Starts
  <2> QED  BY <2>1, <2>2
<1>4. /\ A \in SUBSET (Turns \X Turns)
      /\ \A pair \in A : pair \in panel.aside \/ (pair = <<panel.request, panel.response>> /\ panel.response # NoTurn)
      /\ \A pair \in panel.aside : pair[2] # panel.response => pair \in A
  <2>1. panel.aside \in SUBSET (Turns \X Turns)
    BY Now DEF PanelRec
  <2> QED  BY Now, <2>1, SetAsideLemma
<1>5. /\ past' \in PastRec /\ past'.allowed = setting /\ past'.overlaid = past.overlaid
      /\ past'.escaped = past.escaped
      /\ panel.response # NoTurn /\ ~SubmitTurn => panel.response \in past'.replaced
  <2>1. CASE SubmitTurn
    BY Now, <2>1 DEF SubmitTurn, PastRec, RestInv
  <2>2. CASE ~SubmitTurn /\ Regenerate
    <3>1. past' = [past EXCEPT !.allowed = setting, !.replaced = @ \cup ({panel.response} \ {NoTurn})]
      BY <2>2 DEF Regenerate
    <3>2. {panel.response} \ {NoTurn} \subseteq Turns
      BY Now DEF PanelRec, TurnOrNone
    <3> QED  BY Now, <3>1, <3>2, <2>2 DEF PastRec, RestInv
  <2> QED  BY <2>1, <2>2
<1>6. closing[NextTurn] # "unconfirmed"
  BY Now, <1>2 DEF RestInv
<1> HIDE DEF A
<1>7. Fits(q, closing', turns', setting', past')
  BY Now, <1>1, <1>2, <1>4, <1>5, <1>6, AskFits
<1>8. /\ q.stopped = panel.stopped /\ q.response = NoTurn /\ q.outcome = panel.outcome /\ q.makes = panel.makes
      /\ q.making = panel.making /\ q.aside = A
  BY Now DEF Ask, PanelRec
<1> HIDE DEF q
<1>9. RestInv'
  BY Now, <1>1, <1>2, <1>5 DEF RestInv
<1>10. EscapeStops(q, past')
  BY Now, <1>5, <1>8 DEF EscapeStops
<1>11. TurnInv' /\ Same(q, panel')
  BY <1>3, <1>7, <1>9, <1>10, ShowsLemma
<1>12. \A t \in AsideTurns(panel) : t # panel.response => t \in AsideTurns(q)
  BY <1>4, <1>8 DEF AsideTurns
<1>13. ASSUME ~past'.overlaid, panel.response # NoTurn
       PROVE  panel.response \in AsideTurns(q) \/ panel.response \in past'.replaced
  <2>1. CASE SubmitTurn
    <3>1. panel.request # NoTurn /\ panel.makes = "none"
      BY Now, <1>1, <1>5, <1>13 DEF Course, OneTurn, Consistent
    <3>2. <<panel.request, panel.response>> \in SetAside(panel)
      BY Now, <1>13, <3>1, SetAsideLemma DEF OpenProposal
    <3> QED  BY <1>8, <2>1, <3>2 DEF AsideTurns, A
  <2> QED  BY <1>5, <1>13, <2>1
<1>14. MayAutoApply /\ KeepsProposals
  BY Now, <1>1, <1>8, <1>11, <1>12, <1>13, AskSteps
<1> QED  BY <1>11, <1>14 DEF TurnStep

\* The ID is there: an Esc that waited for it stops the turn.
LEMMA AcceptedStep ==
  ASSUME TurnInv, TurnIsAccepted
  PROVE  TurnStep
<1> DEFINE p == [panel EXCEPT !.stage = "follow", !.turnId = panel.follows]
           f == panel.follows
<1>1. /\ panel.stage = "post" /\ turns' = [turns EXCEPT ![f] = "running"] /\ ShowsPanel(p)
      /\ past' = [past EXCEPT !.escaped = Escaped(p)] /\ UNCHANGED <<closing, setting>>
  BY DEF TurnIsAccepted
<1>2. f \in Turns /\ turns[f] = "asked" /\ f # NoTurn
  BY Now, <1>1, TurnConstants DEF Consistent, KnownTurns, PanelRec, TurnOrNone
<1>3. /\ p \in PanelRec /\ Same(panel, p) /\ p.stop = panel.stop /\ p.stage = "follow" /\ p.turnId = f
      /\ p.follows = f /\ p.stopTurn = panel.stopTurn
      /\ p.loading = panel.loading /\ p.unconfirmed = panel.unconfirmed /\ p.approval = panel.approval
      /\ p.stopped = panel.stopped
  BY Now, <1>1 DEF PanelRec, Same
<1> HIDE DEF p
<1>4. panel' = AwaitEffect(p)
  BY <1>1 DEF ShowsPanel
<1>5. Consistent(p) /\ Decided(p) /\ AllowedIsAsked(p, setting, past)
  BY Now, <1>1, <1>2, <1>3 DEF Consistent, Decided, AllowedIsAsked, AsideTurns, Same
<1>6. KnownTurns(p, turns')
  <2>1. Begun(turns') = Begun(turns)
    BY Now, <1>1, <1>2 DEF Begun
  <2>2. \A d \in p.decided : turns'[d] \in Proposals
    <3>1. \A d \in panel.decided : d \in Turns /\ turns[d] \in Proposals
      BY Now DEF KnownTurns, PanelRec
    <3> QED  BY Now, <1>1, <1>2, <1>3, <3>1 DEF Same, Proposals
  <2>3. Names(p) \subseteq Names(panel)
    BY <1>3 DEF Names, Same
  <2>4. Names(panel) \subseteq Begun(turns) \cup {NoTurn}
    BY Now DEF KnownTurns
  <2> QED  BY <1>3, <2>1, <2>2, <2>3, <2>4 DEF KnownTurns
<1>7. ASSUME ~past.overlaid  PROVE Course(p, closing, turns')
  <2>1. Following(panel) /\ OneTurn(panel) /\ Unnamed(panel, closing) /\ Stopping(panel, turns)
    BY Now, <1>7 DEF Course
  <2>2. panel.request = f /\ panel.response = NoTurn /\ panel.making = NoTurn /\ panel.loading /\ panel.turnId = NoTurn
    BY <1>1, <2>1 DEF Following
  <2>3. panel.stopTurn # f
    BY <1>2, <2>1, <2>2 DEF Unnamed
  <2>4. turns'[panel.stopTurn] = turns[panel.stopTurn] \/ panel.stopTurn = NoTurn
    BY Now, <1>1, <1>2, <2>3 DEF PanelRec, TurnOrNone
  <2>5. Stopping(p, turns')
    BY Now, <1>1, <1>3, <2>1, <2>4 DEF Stopping, Consistent
  <2> QED  BY <1>2, <1>3, <2>1, <2>2, <2>5 DEF Course, Following, OneTurn, Unnamed, Same, AsideTurns
<1>8. Escaped(p) = past.escaped \/ (panel'.stopped = p.stopped \cup {f} /\ Escaped(p) = past.escaped \cup {f})
  <2>1. CASE p.stop = "await" /\ AwaitEffect(p).stop = "cancel"
    <3>1. panel' = CancelFollowing(p)
      BY <1>3, <1>4, <2>1, AwaitShape DEF PanelRec
    <3> QED  BY <1>2, <1>3, <2>1, <3>1, CancelShape DEF Escaped
  <2> QED  BY <2>1 DEF Escaped
<1>9. /\ past' \in PastRec /\ past'.overlaid = past.overlaid /\ past'.allowed = past.allowed
      /\ past'.escaped = Escaped(p)
  BY Now, <1>1, <1>2, <1>8 DEF PastRec
<1>10. Fits(p, closing', turns', setting', past')
  BY <1>1, <1>3, <1>5, <1>6, <1>7, <1>9 DEF Fits, AllowedIsAsked
<1>11. Fits(panel', closing', turns', setting', past') /\ Awaits(panel') /\ Same(p, panel')
  BY <1>4, <1>10, AwaitLemma
<1>12. RestInv'
  <2>1. turns' \in [Turns -> TurnStates]
    BY Now, <1>1, <1>2 DEF TurnStates
  <2>2. Asked' = Asked
    BY Now, <1>1, <1>2 DEF Asked
  <2>3. \A t \in Turns : turns'[t] = "none" => turns[t] = "none"
    BY Now, <1>1, <1>2
  <2> QED  BY Now, <1>1, <1>9, <2>1, <2>2, <2>3 DEF RestInv, TurnsInOrder
<1>13. EscapeStops(panel', past')
  BY Now, <1>3, <1>8, <1>9, <1>11 DEF EscapeStops, Same
<1>14. Same(panel, panel')
  BY <1>3, <1>11 DEF Same
<1> QED  BY <1>11, <1>12, <1>13, <1>14, QuietLemma DEF TurnStep, TurnInv
-----------------------------------------------------------------------------
(* A turn is followed again. *)

LEMMA ResumedType ==
  ASSUME NEW p \in PanelRec, NEW t \in Turns, TurnInv
  PROVE  /\ Resumed(p, t) \in PastRec /\ Resumed(p, t).allowed = setting
         /\ Resumed(p, t).escaped = past.escaped /\ Resumed(p, t).replaced = past.replaced
         /\ ~Resumed(p, t).overlaid =>
              ~past.overlaid /\ p.request = t /\ p.response = NoTurn /\ p.making = NoTurn
<1>1. past \in PastRec /\ setting \in BOOLEAN
  BY Now DEF RestInv
<1>2. (past.overlaid \/ p.request # t \/ p.response # NoTurn \/ p.making # NoTurn) \in BOOLEAN
  BY <1>1 DEF PastRec
<1>3. Resumed(p, t) \in PastRec
  BY <1>1, <1>2, Zenon DEF Resumed, PastRec
<1> QED  BY <1>1, <1>3 DEF Resumed, PastRec

LEMMA ResumeStep ==
  ASSUME TurnInv, NEW t \in Turns, NEW p \in PanelRec, Same(panel, p),
         p.stopped = panel.stopped, p.turnId = panel.turnId,
         p.stop = "cancel" => p.stopTurn # NoTurn, KnownTurns(p, turns'), turns'[t] # "none",
         ShowsPanel(ResumeTurn(p, t)), past' = Resumed(p, t), UNCHANGED setting, past' \in PastRec => RestInv',
         ~past'.overlaid =>
           p.turnId # NoTurn /\ ~(p.stop = "cancel" /\ turns'[p.stopTurn] \in {"running", "cancelled"})
  PROVE  TurnStep
<1> DEFINE q == ResumeTurn(p, t)
<1>1. /\ past' \in PastRec /\ past'.allowed = setting' /\ past'.escaped = past.escaped
      /\ ~past'.overlaid => ~past.overlaid /\ p.request = t /\ p.response = NoTurn /\ p.making = NoTurn
  BY ResumedType
<1>2. (p.making = NoTurn <=> p.makes = "none") /\ Decided(p)
  BY Now DEF Same, Consistent, Decided, AsideTurns
<1>3. ASSUME ~past'.overlaid  PROVE OneTurn(p) /\ p.turnId = t
  <2>1. OneTurn(panel)
    BY Now, <1>1, <1>3 DEF Course
  <2>2. OneTurn(p)
    BY <2>1 DEF OneTurn, Same, AsideTurns
  <2> QED  BY <1>1, <1>3, <2>2, TurnConstants DEF OneTurn
<1>4. Fits(q, closing', turns', setting', past')
  BY <1>1, <1>2, <1>3, ResumeFits
<1>5. Same(panel, q) /\ q.stopped = panel.stopped
  BY DEF ResumeTurn, PanelRec, Same
<1> HIDE DEF q
<1>6. EscapeStops(q, past')
  BY Now, <1>1, <1>5 DEF EscapeStops
<1> QED  BY <1>1, <1>4, <1>5, <1>6, QuietShow DEF q

LEMMA RecheckStep ==
  ASSUME TurnInv, Recheck
  PROVE  TurnStep
<1> DEFINE t == panel.unconfirmed
<1>1. /\ t # NoTurn /\ ~panel.loading /\ UNCHANGED <<closing, turns, setting>>
      /\ ShowsPanel(ResumeTurn(panel, t)) /\ past' = Resumed(panel, t)
  BY DEF Recheck
<1>2. t \in Turns /\ turns[t] # "none"
  BY Now, <1>1 DEF KnownTurns, Names, Begun
<1> HIDE DEF t
<1>3. ~past'.overlaid => ~past.overlaid /\ panel.request = t
  BY Now, <1>1, <1>2, ResumedType
<1>4. ASSUME ~past'.overlaid
      PROVE  panel.turnId # NoTurn /\ ~(panel.stop = "cancel" /\ turns[panel.stopTurn] \in {"running", "cancelled"})
  BY Now, <1>1, <1>3, <1>4 DEF Course, Unnamed, Stopping, t
<1>5. Same(panel, panel)
  BY DEF Same
<1> QED  BY Now, <1>1, <1>2, <1>4, <1>5, SameRest, ResumeStep DEF Consistent

\* What becomes of a turn that is to be cancelled.
LEMMA CancelEnds ==
  ASSUME TurnInv, NEW t \in Turns, CancelAccepted(t) \/ CancelRefused(t) \/ CancelFails(t)
  PROVE  Ends(turns, turns') /\ turns' \in [Turns -> TurnStates]
<1>1. turns \in [Turns -> TurnStates]
  BY Now
<1>2. turns' = turns \/ (Cancellable(t) /\ turns' = [turns EXCEPT ![t] = "cancelled"])
  BY DEF CancelAccepted, CancelRefused, CancelFails
<1> QED  BY <1>1, <1>2 DEF Ends, Cancellable, TurnStates, Ended

LEMMA StopAnswersStep ==
  ASSUME TurnInv, StopAnswers
  PROVE  TurnStep
<1> DEFINE t == panel.stopTurn
           p == [panel EXCEPT !.stop = "none", !.stopTurn = NoTurn]
           q == [p EXCEPT !.loading = FALSE]
<1>1. panel.stop = "cancel" /\ UNCHANGED <<closing, setting>>
  BY DEF StopAnswers
<1>2. t \in Turns /\ turns[t] # "none" /\ t # NoTurn
  BY Now, <1>1 DEF Consistent, KnownTurns, Names, Begun
<1>3. \/ CancelAccepted(t) /\ ShowsPanel(q) /\ past' = past
      \/ (CancelRefused(t) \/ CancelFails(t)) /\ ShowsPanel(ResumeTurn(p, t)) /\ past' = Resumed(p, t)
  BY DEF StopAnswers
<1>4. Ends(turns, turns') /\ turns' \in [Turns -> TurnStates]
  BY <1>2, <1>3, CancelEnds
<1>5. past' \in PastRec => RestInv'
  BY Now, <1>1, <1>4, RestTurns DEF RestInv
<1>6. /\ p \in PanelRec /\ Same(panel, p) /\ p.stop = "none" /\ p.stage = panel.stage /\ p.turnId = panel.turnId
      /\ p.follows = panel.follows /\ p.stopTurn = NoTurn
      /\ p.loading = panel.loading /\ p.unconfirmed = panel.unconfirmed /\ p.approval = panel.approval
      /\ p.stopped = panel.stopped
  BY Now, OrNone DEF PanelRec, Same
<1>7. /\ q \in PanelRec /\ Same(p, q) /\ q.stop = p.stop /\ q.stage = p.stage /\ q.turnId = p.turnId
      /\ q.follows = p.follows /\ q.stopTurn = p.stopTurn
      /\ ~q.loading /\ q.unconfirmed = p.unconfirmed /\ q.approval = p.approval /\ q.stopped = p.stopped
  <2>1. q \in PanelRec
    BY <1>6, Zenon DEF PanelRec
  <2> QED  BY <1>6, <2>1 DEF PanelRec, Same
<1> HIDE DEF p, q
<1>8. Fits(panel, closing, turns', setting, past)
  BY Now, <1>4, EndsLemma
<1>9. KnownTurns(p, turns')
  BY <1>6, <1>8 DEF Fits, KnownTurns, Names, Same
<1>10. CASE CancelAccepted(t) /\ ShowsPanel(q) /\ past' = past
  <2>1. Consistent(q) /\ Decided(q) /\ KnownTurns(q, turns') /\ AllowedIsAsked(q, setting, past)
    BY Now, <1>6, <1>7, <1>9 DEF Consistent, Decided, KnownTurns, AllowedIsAsked, Names, AsideTurns, Same
  <2>2. ASSUME ~past.overlaid  PROVE Course(q, closing, turns')
    <3>1. Course(panel, closing, turns)
      BY Now, <2>2
    <3>2. panel.stage = "none"
      BY <1>1, <1>10, <3>1 DEF Course, Stopping, CancelAccepted, Cancellable
    <3> QED  BY <1>2, <1>6, <1>7, <3>1, <3>2, TurnConstants DEF Course, Following, OneTurn, Unnamed, Stopping, Same, AsideTurns
  <2>3. Fits(q, closing', turns', setting', past')
    BY <1>1, <1>7, <1>10, <2>1, <2>2 DEF Fits
  <2>4. EscapeStops(q, past') /\ Same(panel, q)
    BY Now, <1>6, <1>7, <1>10 DEF EscapeStops, Same
  <2> QED  BY Now, <1>5, <1>10, <2>3, <2>4, QuietShow
<1>11. CASE (CancelRefused(t) \/ CancelFails(t)) /\ ShowsPanel(ResumeTurn(p, t)) /\ past' = Resumed(p, t)
  <2>1. ~past'.overlaid => ~past.overlaid /\ p.request = t
    BY <1>2, <1>6, <1>11, ResumedType
  <2>2. ~past'.overlaid => p.turnId # NoTurn
    BY Now, <1>2, <1>6, <2>1 DEF Course, Unnamed, Same
  <2>3. turns'[t] # "none"
    BY <1>2, <1>4 DEF Ends
  <2> QED  BY <1>1, <1>2, <1>5, <1>6, <1>9, <1>11, <2>2, <2>3, ResumeStep
<1> QED  BY <1>3, <1>10, <1>11

LEMMA CloseAnswersStep ==
  ASSUME TurnInv, NEW t \in Turns, CloseAnswers(t)
  PROVE  TurnStep
<1>1. /\ closing[t] \in {"listed", "unconfirmed"} /\ closing' = [closing EXCEPT ![t] = "closed"]
      /\ UNCHANGED setting /\ turns[t] # "none"
  BY Now DEF CloseAnswers, RestInv
<1>2. \/ /\ CancelRefused(t) /\ closing[t] = "unconfirmed"
         /\ ShowsPanel(ResumeTurn(panel, t)) /\ past' = Resumed(panel, t)
      \/ /\ CancelAccepted(t) \/ CancelFails(t) \/ CancelRefused(t)
         /\ ShowsPanel(ForgetTurn(panel, t)) /\ past' = past
  BY DEF CloseAnswers
<1>3. Ends(turns, turns') /\ turns' \in [Turns -> TurnStates]
  BY <1>2, CancelEnds
<1>4. /\ closing' \in [Turns -> {"no", "closed"} \cup Waiting]
      /\ \A u \in Turns : /\ closing'[u] # "no" => closing[u] # "no"
                          /\ closing'[u] = "unconfirmed" => closing[u] = "unconfirmed"
  BY Now, <1>1 DEF RestInv, Waiting
<1>5. past' \in PastRec => RestInv'
  BY Now, <1>1, <1>3, <1>4, RestTurns DEF RestInv
<1>6. panel.request # NoTurn => panel.request \in Turns
  BY Now DEF PanelRec, TurnOrNone
<1>7. Fits(panel, closing', turns', setting, past)
  <2>1. Fits(panel, closing, turns', setting, past)
    BY Now, <1>3, EndsLemma
  <2>2. Course(panel, closing, turns') => Course(panel, closing', turns')
    BY <1>4, <1>6 DEF Course, Unnamed
  <2> QED  BY <2>1, <2>2 DEF Fits
<1>8. CASE CancelRefused(t) /\ closing[t] = "unconfirmed"
           /\ ShowsPanel(ResumeTurn(panel, t)) /\ past' = Resumed(panel, t)
  <2>1. ~past'.overlaid => ~past.overlaid /\ panel.request = t
    BY Now, <1>8, ResumedType
  <2>2. ASSUME ~past'.overlaid
        PROVE  panel.turnId # NoTurn /\ ~(panel.stop = "cancel" /\ turns'[panel.stopTurn] \in {"running", "cancelled"})
    <3>1. Course(panel, closing, turns) /\ panel.request = t /\ t # NoTurn /\ turns' = turns
      BY Now, <1>8, <2>1, <2>2, TurnConstants DEF CancelRefused
    <3> QED  BY <1>8, <3>1 DEF Course, Unnamed, Stopping, CancelRefused, Cancellable
  <2>3. KnownTurns(panel, turns') /\ turns'[t] # "none" /\ Same(panel, panel)
    BY <1>1, <1>3, <1>7 DEF Fits, Ends, Same
  <2> QED  BY Now, <1>1, <1>5, <1>8, <2>2, <2>3, ResumeStep DEF Consistent
<1>9. CASE ShowsPanel(ForgetTurn(panel, t)) /\ past' = past
  <2> DEFINE q == ForgetTurn(panel, t)
  <2>1. /\ q \in PanelRec /\ Same(panel, q) /\ q.stop = panel.stop /\ q.stage = panel.stage
        /\ q.turnId = panel.turnId /\ q.follows = panel.follows /\ q.stopTurn = panel.stopTurn
        /\ q.loading = panel.loading /\ q.unconfirmed \in {panel.unconfirmed, NoTurn}
        /\ q.approval = panel.approval /\ q.stopped = panel.stopped
    BY Now, OrNone DEF ForgetTurn, PanelRec, Same
  <2> HIDE DEF q
  <2>2. /\ Consistent(panel) /\ Decided(panel) /\ KnownTurns(panel, turns') /\ AllowedIsAsked(panel, setting, past)
        /\ ~past.overlaid => Course(panel, closing', turns')
    BY <1>7 DEF Fits
  <2>3. Consistent(q) /\ Decided(q) /\ KnownTurns(q, turns') /\ AllowedIsAsked(q, setting, past)
    BY <2>1, <2>2 DEF Consistent, Decided, KnownTurns, AllowedIsAsked, Names, AsideTurns, Same
  <2>4. Course(panel, closing', turns') => Course(q, closing', turns')
    BY <2>1 DEF Course, Following, OneTurn, Unnamed, Stopping, Same, AsideTurns
  <2>5. Fits(q, closing', turns', setting', past')
    BY <1>1, <1>9, <2>1, <2>2, <2>3, <2>4 DEF Fits
  <2>6. EscapeStops(q, past')
    BY Now, <1>9, <2>1 DEF EscapeStops
  <2> QED  BY Now, <1>5, <1>9, <2>1, <2>5, <2>6, QuietShow DEF q
<1> QED  BY <1>2, <1>8, <1>9
-----------------------------------------------------------------------------
(* The end of what is followed. *)

LEMMA NotAcceptedStep ==
  ASSUME TurnInv, TurnNotAccepted
  PROVE  TurnStep
<1> DEFINE f == panel.follows
           q == FollowEnds(panel)
<1>1. panel.stage = "post" /\ ShowsPanel(q) /\ UNCHANGED <<closing, setting, past>>
  BY DEF TurnNotAccepted
<1>2. PICK known \in {"failed", "running"} : turns' = [turns EXCEPT ![f] = known]
  BY DEF TurnNotAccepted
<1>3. f \in Turns /\ turns[f] = "asked" /\ f # NoTurn
  BY Now, <1>1, TurnConstants DEF Consistent, KnownTurns, PanelRec, TurnOrNone
<1>4. Fits(q, closing, turns, setting, past)
  BY Now, <1>1, FollowEndsFits
<1>5. /\ q \in PanelRec /\ q.stage = "none" /\ q.stop = panel.stop /\ q.stopTurn = panel.stopTurn
      /\ q.decided = panel.decided /\ Same(panel, q) /\ q.stopped = panel.stopped
  BY Now, FollowEndsShape DEF Same
<1> HIDE DEF q
<1>6. KnownTurns(q, turns')
  <2>1. Begun(turns') = Begun(turns)
    BY Now, <1>2, <1>3 DEF Begun
  <2>2. \A d \in q.decided : turns'[d] \in Proposals
    <3>1. \A d \in panel.decided : d \in Turns /\ turns[d] \in Proposals
      BY Now DEF KnownTurns, PanelRec
    <3> QED  BY Now, <1>2, <1>3, <1>5, <3>1 DEF Proposals
  <2>3. Names(q) \subseteq Begun(turns) \cup {NoTurn}
    BY <1>4 DEF Fits, KnownTurns
  <2> QED  BY <1>5, <2>1, <2>2, <2>3 DEF KnownTurns
<1>7. ASSUME ~past.overlaid  PROVE Course(q, closing, turns')
  <2>1. Course(panel, closing, turns) /\ Course(q, closing, turns)
    BY Now, <1>4, <1>7 DEF Fits
  <2>2. panel.stopTurn # f
    BY <1>1, <1>3, <2>1 DEF Course, Following, Unnamed
  <2>3. panel.stop # "cancel" \/ turns'[panel.stopTurn] \notin {"running", "cancelled"}
    <3>1. panel.stop = "cancel" => panel.stopTurn \in Turns
      BY Now DEF Consistent, PanelRec, TurnOrNone
    <3> QED  BY Now, <1>1, <1>2, <2>1, <2>2, <3>1 DEF Course, Stopping
  <2> QED  BY <1>5, <2>1, <2>3 DEF Course, Stopping
<1>8. Fits(q, closing', turns', setting', past')
  BY <1>1, <1>4, <1>6, <1>7 DEF Fits
<1>9. RestInv'
  <2>1. turns' \in [Turns -> TurnStates]
    BY Now, <1>2, <1>3 DEF TurnStates, Ended
  <2>2. Asked' = Asked
    BY Now, <1>2, <1>3 DEF Asked
  <2>3. \A t \in Turns : turns'[t] = "none" => turns[t] = "none"
    BY Now, <1>2, <1>3
  <2> QED  BY Now, <1>1, <2>1, <2>2, <2>3 DEF RestInv, TurnsInOrder
<1>10. EscapeStops(q, past')
  BY Now, <1>1, <1>5 DEF EscapeStops
<1> QED  BY <1>1, <1>5, <1>8, <1>9, <1>10, QuietShow

LEMMA EndedStep ==
  ASSUME TurnInv, TurnEnded \/ TurnLost
  PROVE  TurnStep
<1> DEFINE f == panel.follows
           e == FollowEnds(panel)
           r == [panel EXCEPT !.stage = "refresh"]
           q == [e EXCEPT !.unconfirmed = f]
<1>1. panel.stage = "follow" /\ UNCHANGED <<closing, turns, setting, past>>
  BY DEF TurnEnded, TurnLost
<1>2. ShowsPanel(e) \/ ShowsPanel(r) \/ ShowsPanel(q)
  BY DEF TurnEnded, TurnLost
<1>3. Fits(e, closing, turns, setting, past)
  BY Now, <1>1, FollowEndsFits
<1>4. /\ e \in PanelRec /\ e.stage = "none" /\ Same(panel, e) /\ e.stopped = panel.stopped /\ ~e.loading
      /\ e.request = panel.request /\ e.turnId = panel.turnId
  BY Now, FollowEndsShape DEF Same
<1>5. RestInv'
  BY Now, <1>1, SameRest
<1>6. f \in TurnOrNone /\ f # NoTurn
  BY Now, <1>1 DEF PanelRec, Consistent
<1> HIDE DEF e
<1>7. /\ q \in PanelRec /\ Same(e, q) /\ q.stopped = e.stopped /\ q.stage = e.stage /\ q.follows = e.follows
      /\ q.stop = e.stop /\ q.stopTurn = e.stopTurn /\ q.turnId = e.turnId /\ ~q.loading /\ q.unconfirmed = f
      /\ q.approval = e.approval
  BY <1>4, <1>6 DEF PanelRec, Same
<1>8. /\ r \in PanelRec /\ Same(panel, r) /\ r.stopped = panel.stopped /\ r.stage = "refresh" /\ r.follows = f
      /\ r.stop = panel.stop /\ r.stopTurn = panel.stopTurn /\ r.turnId = panel.turnId /\ r.loading = panel.loading
      /\ r.unconfirmed = panel.unconfirmed /\ r.approval = panel.approval
  BY Now DEF PanelRec, Same
<1> HIDE DEF q, r
<1>9. CASE ShowsPanel(e)
  <2>1. EscapeStops(e, past')
    BY Now, <1>1, <1>4 DEF EscapeStops
  <2> QED  BY <1>1, <1>3, <1>4, <1>5, <1>9, <2>1, QuietShow
<1>10. CASE ShowsPanel(r)
  <2>1. Consistent(r) /\ Decided(r) /\ KnownTurns(r, turns) /\ AllowedIsAsked(r, setting, past)
    BY Now, <1>1, <1>8 DEF Consistent, Decided, KnownTurns, AllowedIsAsked, Names, AsideTurns, Same
  <2>2. Course(panel, closing, turns) => Course(r, closing, turns)
    BY <1>1, <1>8 DEF Course, Following, OneTurn, Unnamed, Stopping, Same, AsideTurns
  <2>3. Fits(r, closing', turns', setting', past')
    BY Now, <1>1, <1>8, <2>1, <2>2 DEF Fits
  <2>4. EscapeStops(r, past')
    BY Now, <1>1, <1>8 DEF EscapeStops
  <2> QED  BY <1>5, <1>8, <1>10, <2>3, <2>4, QuietShow
<1>11. CASE ShowsPanel(q)
  <2>1. Consistent(e) /\ Decided(e) /\ KnownTurns(e, turns) /\ AllowedIsAsked(e, setting, past)
    BY <1>3 DEF Fits
  <2>2. f \in Begun(turns)
    BY Now, <1>6 DEF KnownTurns, Names
  <2>3. Consistent(q) /\ Decided(q) /\ KnownTurns(q, turns) /\ AllowedIsAsked(q, setting, past)
    BY <1>4, <1>7, <2>1, <2>2 DEF Consistent, Decided, KnownTurns, AllowedIsAsked, Names, AsideTurns, Same
  <2>4. ASSUME ~past.overlaid  PROVE Course(q, closing, turns)
    <3>1. Course(e, closing, turns) /\ panel.turnId = f
      BY Now, <1>1, <1>3, <2>4 DEF Fits, Course, Following
    <3> QED  BY <1>4, <1>6, <1>7, <3>1 DEF Course, Following, OneTurn, Unnamed, Stopping, Same, AsideTurns
  <2>5. Fits(q, closing', turns', setting', past')
    BY <1>1, <1>7, <2>3, <2>4 DEF Fits
  <2>6. EscapeStops(q, past') /\ Same(panel, q)
    BY Now, <1>1, <1>4, <1>7 DEF EscapeStops, Same
  <2> QED  BY <1>5, <1>11, <2>5, <2>6, QuietShow
<1> QED  BY <1>2, <1>9, <1>10, <1>11

\* What is shown changes while nothing is followed beside it: the rest is as it was.
LEMMA ChangesFits ==
  ASSUME NEW p, NEW q \in PanelRec, NEW cl, NEW tu, NEW se, NEW pa, NEW pb, Fits(p, cl, tu, se, pa),
         q.stage = p.stage, q.follows = p.follows, q.loading = p.loading, q.stop = p.stop,
         q.stopTurn = p.stopTurn, q.approval = p.approval, q.unconfirmed \in {p.unconfirmed, NoTurn},
         q.turnId \in Begun(tu) \cup {NoTurn},
         q.making = NoTurn <=> q.makes = "none", Decided(q), \A d \in q.decided : tu[d] \in Proposals,
         pb.allowed = pa.allowed, pb.overlaid = pa.overlaid,
         ~pa.overlaid => OneTurn(q) /\ Unnamed(q, cl) /\ (p.response # NoTurn \/ ~p.loading)
  PROVE  Fits(q, cl, tu, se, pb)
<1>1. Consistent(p) /\ KnownTurns(p, tu) /\ AllowedIsAsked(p, se, pa)
  BY DEF Fits
<1>2. Consistent(q)
  BY <1>1 DEF Consistent
<1>3. KnownTurns(q, tu)
  BY <1>1 DEF KnownTurns, Names
<1>4. AllowedIsAsked(q, se, pb)
  BY <1>1 DEF AllowedIsAsked
<1>5. ASSUME ~pa.overlaid  PROVE Course(q, cl, tu)
  <2>1. Following(p) /\ Stopping(p, tu)
    BY <1>5 DEF Fits, Course
  <2>2. Following(q) /\ Stopping(q, tu)
    BY <1>5, <2>1 DEF Following, Stopping
  <2> QED  BY <1>5, <2>2 DEF Course
<1> QED  BY <1>2, <1>3, <1>4, <1>5 DEF Fits
-----------------------------------------------------------------------------
(* The result is shown. *)

\* What stays when it is decided about a panel, or a proposal leaves it.
Keeps(p, q) ==
  /\ q.stage = p.stage /\ q.follows = p.follows /\ q.loading = p.loading /\ q.stop = p.stop
  /\ q.stopTurn = p.stopTurn /\ q.approval = p.approval /\ q.unconfirmed = p.unconfirmed
  /\ q.turnId = p.turnId /\ q.aside = p.aside /\ q.stopped = p.stopped

\* What the effect decides: nothing, that the user decides, or to apply without asking, of a draft or of an edit.
LEMMA DecisionShape ==
  ASSUME NEW p \in PanelRec, NEW q \in AutoDecisions(p), NEW t, t = p.response
  PROVE  /\ q \in PanelRec /\ Keeps(p, q)
         /\ \/ q = p /\ (t = NoTurn \/ p.loading \/ t \in p.decided)
            \/ /\ t \in Turns /\ t \notin p.decided /\ q.decided = p.decided \cup {t}
               /\ \/ /\ q.request = p.request /\ q.response = t /\ q.making = p.making /\ q.makes = p.makes
                     /\ q.outcome = p.outcome
                  \/ /\ AutoApplies(p)
                     /\ q.request = p.request /\ q.response = t /\ q.making = t /\ q.makes = "auto"
                     /\ q.outcome = p.outcome
                  \/ /\ AutoApplies(p)
                     /\ q.request = NoTurn /\ q.response = NoTurn /\ q.making = p.making /\ q.makes = p.makes
                     /\ q.outcome = [p.outcome EXCEPT ![t] = "auto_applied"]
<1>1. CASE t = NoTurn \/ p.loading \/ t \in p.decided
  BY <1>1 DEF AutoDecisions, Keeps
<1>2. CASE ~(t = NoTurn \/ p.loading \/ t \in p.decided)
  <2> DEFINE d == [p EXCEPT !.decided = @ \cup {t}]
             h == [d EXCEPT !.manual = @ \cup {t}]
             m == Makes(d, "auto")
             x == Dismiss(Records(d, t, "auto_applied"))
  <2>1. t \in Turns /\ p.decided \cup {t} \in SUBSET Turns /\ p.manual \cup {t} \in SUBSET Turns
    BY <1>2 DEF PanelRec, TurnOrNone
  <2>2. d \in PanelRec /\ d.manual = p.manual /\ d.response = t /\ d.outcome = p.outcome
    BY <2>1 DEF PanelRec
  <2>3. q = h \/ (AutoApplies(p) /\ (q = m \/ q = x))
    BY <1>2 DEF AutoDecisions
  <2>4. /\ h \in PanelRec /\ Keeps(p, h) /\ h.decided = p.decided \cup {t} /\ h.request = p.request
        /\ h.response = t /\ h.making = p.making /\ h.makes = p.makes /\ h.outcome = p.outcome
    BY <2>1 DEF PanelRec, Keeps
  <2>5. /\ m \in PanelRec /\ Keeps(p, m) /\ m.decided = p.decided \cup {t} /\ m.request = p.request
        /\ m.response = t /\ m.making = t /\ m.makes = "auto" /\ m.outcome = p.outcome
    BY <2>1, OrNone DEF PanelRec, Keeps, Makes
  <2>6. /\ x \in PanelRec /\ Keeps(p, x) /\ x.decided = p.decided \cup {t} /\ x.request = NoTurn
        /\ x.response = NoTurn /\ x.making = p.making /\ x.makes = p.makes
        /\ x.outcome = [p.outcome EXCEPT ![t] = "auto_applied"]
    <3>1. [p.outcome EXCEPT ![t] = "auto_applied"] \in [Turns -> Outcomes]
      BY <2>1 DEF PanelRec, Outcomes
    <3>2. Records(d, t, "auto_applied") = [d EXCEPT !.outcome = [p.outcome EXCEPT ![t] = "auto_applied"]]
      BY <2>2 DEF Records
    <3> DEFINE w == Records(d, t, "auto_applied")
    <3>3. Keeps(p, d) /\ d.decided = p.decided \cup {t} /\ d.making = p.making /\ d.makes = p.makes
      BY <2>1 DEF PanelRec, Keeps
    <3> HIDE DEF d
    <3>4. /\ w \in PanelRec /\ Keeps(p, w) /\ w.decided = p.decided \cup {t} /\ w.making = p.making
          /\ w.makes = p.makes /\ w.outcome = [p.outcome EXCEPT ![t] = "auto_applied"]
      BY <2>2, <3>1, <3>2, <3>3 DEF PanelRec, Keeps
    <3> HIDE DEF w
    <3>5. x = [w EXCEPT !.request = NoTurn, !.response = NoTurn]
      BY DEF w, Dismiss
    <3> HIDE DEF x
    <3> QED  BY <3>4, <3>5, OrNone DEF PanelRec, Keeps
  <2> HIDE DEF d, h, m, x
  <2> QED  BY <1>2, <2>1, <2>3, <2>4, <2>5, <2>6
<1> QED  BY <1>1, <1>2

LEMMA ResultStep ==
  ASSUME TurnInv, ResultShown
  PROVE  TurnStep
<1> DEFINE t == panel.follows
           e == FollowEnds(panel)
           r == IF turns[t] \in Proposals THEN t ELSE NoTurn
           p == [e EXCEPT !.response = r]
<1>1. panel.stage = "refresh" /\ UNCHANGED <<closing, turns, setting, past>>
  BY DEF ResultShown
<1>2. PICK q \in AutoDecisions(p) : ShowsPanel(q)
  BY DEF ResultShown
<1>3. t \in Turns /\ t # NoTurn
  BY Now, <1>1, TurnConstants DEF Consistent, PanelRec, TurnOrNone
<1>4. Fits(e, closing, turns, setting, past)
  BY Now, <1>1, FollowEndsFits
<1>5. /\ e \in PanelRec /\ e.stage = "none" /\ ~e.loading /\ Same(panel, e) /\ e.stopped = panel.stopped
      /\ e.approval = panel.approval /\ e.turnId = panel.turnId
  BY Now, FollowEndsShape DEF Same
<1> HIDE DEF e
<1>6. r \in TurnOrNone /\ (r # NoTurn => r = t /\ turns[t] \in Proposals)
  BY <1>3, OrNone
<1> HIDE DEF r
<1>7. /\ p \in PanelRec /\ Keeps(e, p) /\ p.response = r /\ p.request = e.request /\ p.making = e.making
      /\ p.makes = e.makes /\ p.decided = e.decided /\ p.outcome = e.outcome
  BY <1>5, <1>6 DEF PanelRec, Keeps
<1> HIDE DEF p
<1>8. q \in PanelRec /\ Keeps(e, q)
  BY <1>7, DecisionShape DEF Keeps
\* Nothing was decided, or it was about turn t, for the first time.
<1> DEFINE Untouched == /\ q.request = e.request /\ q.response = r /\ q.making = e.making /\ q.makes = e.makes
                        /\ q.outcome = e.outcome /\ q.decided = e.decided /\ (r = NoTurn \/ r \in e.decided)
           First == r = t /\ turns[t] \in Proposals /\ t \notin e.decided /\ q.decided = e.decided \cup {t}
           ByHand == /\ q.request = e.request /\ q.response = t /\ q.making = e.making /\ q.makes = e.makes
                     /\ q.outcome = e.outcome
           Draft == /\ AutoApplies(p)
                    /\ q.request = e.request /\ q.response = t /\ q.making = t /\ q.makes = "auto"
                    /\ q.outcome = e.outcome
           Edit == /\ AutoApplies(p)
                   /\ q.request = NoTurn /\ q.response = NoTurn /\ q.making = e.making /\ q.makes = e.makes
                   /\ q.outcome = [e.outcome EXCEPT ![t] = "auto_applied"]
<1>9. Untouched \/ (First /\ (ByHand \/ Draft \/ Edit))
  <2>1. \/ q = p /\ (r = NoTurn \/ p.loading \/ r \in p.decided)
        \/ /\ r \in Turns /\ r \notin p.decided /\ q.decided = p.decided \cup {r}
           /\ \/ /\ q.request = p.request /\ q.response = r /\ q.making = p.making /\ q.makes = p.makes
                 /\ q.outcome = p.outcome
              \/ /\ AutoApplies(p)
                 /\ q.request = p.request /\ q.response = r /\ q.making = r /\ q.makes = "auto"
                 /\ q.outcome = p.outcome
              \/ /\ AutoApplies(p)
                 /\ q.request = NoTurn /\ q.response = NoTurn /\ q.making = p.making /\ q.makes = p.makes
                 /\ q.outcome = [p.outcome EXCEPT ![r] = "auto_applied"]
    BY <1>2, <1>7, DecisionShape
  <2>2. CASE q = p /\ (r = NoTurn \/ p.loading \/ r \in p.decided)
    BY <1>5, <1>7, <2>2 DEF Keeps
  <2>3. CASE ~(q = p /\ (r = NoTurn \/ p.loading \/ r \in p.decided))
    <3>1. r # NoTurn
      BY <2>1, <2>3, TurnConstants
    <3>2. r = t
      BY <1>6, <3>1
    <3>3. t \notin p.decided /\ q.decided = p.decided \cup {t}
      BY <2>1, <2>3, <3>2
    <3>4. First
      BY <1>6, <1>7, <3>1, <3>2, <3>3
    <3> QED  BY <1>7, <2>1, <2>3, <3>2, <3>4
  <2> QED  BY <2>2, <2>3
<1>10. Decided(e) /\ Consistent(e) /\ KnownTurns(e, turns)
  BY <1>4 DEF Fits
<1>11. e.outcome \in [Turns -> Outcomes]
  BY <1>5 DEF PanelRec
<1>12. Decided(q) /\ (q.making = NoTurn <=> q.makes = "none") /\ \A d \in q.decided : turns[d] \in Proposals
  <2>1. CASE Untouched
    BY <1>8, <1>10, <2>1 DEF Decided, Consistent, KnownTurns, AsideTurns, Keeps
  <2>2. CASE First /\ (ByHand \/ Draft \/ Edit)
    BY <1>3, <1>8, <1>10, <1>11, <2>2 DEF Decided, Consistent, KnownTurns, AsideTurns, Keeps
  <2> QED  BY <1>9, <2>1, <2>2
<1>13. ASSUME ~past.overlaid
       PROVE  /\ panel.request = t /\ panel.response = NoTurn /\ panel.making = NoTurn /\ panel.turnId = t
              /\ OneTurn(e)
  BY Now, <1>1, <1>4, <1>13 DEF Fits, Course, Following
<1>14. ASSUME ~past.overlaid  PROVE OneTurn(q) /\ Unnamed(q, closing)
  BY <1>3, <1>5, <1>6, <1>8, <1>9, <1>13, <1>14 DEF OneTurn, Unnamed, Keeps, Same, AsideTurns
<1>15. q.turnId \in Begun(turns) \cup {NoTurn}
  BY <1>8, <1>9, <1>10 DEF KnownTurns, Names, Keeps
<1>16. Fits(q, closing', turns', setting', past')
  BY <1>1, <1>4, <1>5, <1>8, <1>12, <1>14, <1>15, ChangesFits DEF Keeps
<1>17. RestInv'
  BY Now, <1>1, SameRest
<1>18. EscapeStops(q, past')
  BY Now, <1>1, <1>5, <1>8 DEF EscapeStops, Keeps
<1>19. TurnInv' /\ Same(q, panel')
  BY <1>2, <1>16, <1>17, <1>18, ShowsLemma
<1>20. ASSUME NEW u \in Turns, AutoStarts(u)
       PROVE  /\ panel.outcome[u] = "none" /\ u \notin panel.decided
              /\ (u \notin past.escaped \/ past.overlaid) /\ past.allowed
  <2>1. q.outcome[u] # e.outcome[u] \/ (q.making = u /\ q.makes = "auto" /\ e.makes # "auto")
    BY <1>5, <1>19, <1>20 DEF AutoStarts, Same
  <2>2. First /\ AutoApplies(p) /\ u = t
    BY <1>3, <1>9, <1>11, <2>1
  <2>3. u \notin panel.decided /\ panel.outcome[u] = "none"
    BY Now, <1>5, <2>2 DEF Decided, Same
  <2>4. p.approval = "on" /\ t \notin p.stopped
    BY <1>7, <2>2 DEF AutoApplies
  <2>5. past.allowed /\ u \notin panel.stopped
    BY Now, <1>1, <1>5, <1>7, <2>2, <2>4 DEF AllowedIsAsked, Keeps
  <2> QED  BY Now, <2>3, <2>5 DEF EscapeStops
<1>21. ASSUME NEW u \in Turns, Offered(panel, u), ~past.overlaid
       PROVE  Offered(panel', u) \/ panel'.outcome[u] # "none"
  <2>1. u \in AsideTurns(panel)
    BY <1>13, <1>21 DEF Offered, OpenProposal
  <2>2. u \in AsideTurns(panel')
    BY <1>5, <1>8, <1>19, <2>1 DEF AsideTurns, Same, Keeps
  <2> QED  BY <2>2 DEF Offered
<1>22. MayAutoApply /\ KeepsProposals
  BY <1>1, <1>20, <1>21 DEF MayAutoApply, KeepsProposals
<1> QED  BY <1>19, <1>22 DEF TurnStep
-----------------------------------------------------------------------------
(* The user decides about a proposal, or leaves it. *)

\* A decided proposal leaves the panel.
LEMMA DismissShape ==
  ASSUME NEW p \in PanelRec, NEW t \in Turns, NEW o \in Outcomes
  PROVE  LET q == Dismiss(Records(p, t, o))
         IN  /\ q \in PanelRec /\ Keeps(p, q) /\ q.request = NoTurn /\ q.response = NoTurn /\ q.making = p.making
             /\ q.makes = p.makes /\ q.decided = p.decided /\ q.outcome = [p.outcome EXCEPT ![t] = o]
<1> DEFINE w == Records(p, t, o)
           q == Dismiss(w)
<1>1. [p.outcome EXCEPT ![t] = o] \in [Turns -> Outcomes]
  BY DEF PanelRec
<1>2. /\ w \in PanelRec /\ Keeps(p, w) /\ w.decided = p.decided /\ w.making = p.making
      /\ w.makes = p.makes /\ w.outcome = [p.outcome EXCEPT ![t] = o]
  <2>1. w = [p EXCEPT !.outcome = [p.outcome EXCEPT ![t] = o]]
    BY DEF Records
  <2> QED  BY <1>1, <2>1 DEF PanelRec, Keeps
<1> HIDE DEF w
<1>3. q = [w EXCEPT !.request = NoTurn, !.response = NoTurn]
  BY DEF Dismiss
<1> HIDE DEF q
<1>4. /\ q \in PanelRec /\ Keeps(p, q) /\ q.request = NoTurn /\ q.response = NoTurn /\ q.making = p.making
      /\ q.makes = p.makes /\ q.decided = p.decided /\ q.outcome = [p.outcome EXCEPT ![t] = o]
  BY <1>2, <1>3, OrNone DEF PanelRec, Keeps
<1> QED  BY <1>4 DEF q, w

\* A step that shows a panel without following anything anew.
LEMMA ChangeStep ==
  ASSUME TurnInv, NEW q \in PanelRec, ShowsPanel(q), UNCHANGED <<closing, turns, setting>>,
         q.stage = panel.stage, q.follows = panel.follows, q.loading = panel.loading, q.stop = panel.stop,
         q.stopTurn = panel.stopTurn, q.approval = panel.approval, q.unconfirmed \in {panel.unconfirmed, NoTurn},
         q.stopped = panel.stopped, q.decided = panel.decided, q.turnId \in Begun(turns) \cup {NoTurn},
         q.making = NoTurn <=> q.makes = "none", Decided(q),
         past' \in PastRec, past'.allowed = past.allowed, past'.overlaid = past.overlaid,
         past'.escaped = past.escaped,
         ~past.overlaid => OneTurn(q) /\ Unnamed(q, closing) /\ (panel.response # NoTurn \/ ~panel.loading),
         \A u \in Turns : q.outcome[u] = "auto_applied" => panel.outcome[u] = "auto_applied" \/ panel.making = u,
         q.makes = "auto" => panel.makes = "auto",
         \A u \in Turns : Offered(panel, u) /\ ~past.overlaid =>
           Offered(q, u) \/ q.outcome[u] # "none" \/ u \in past'.replaced
  PROVE  TurnStep
<1>1. \A d \in q.decided : turns[d] \in Proposals
  BY Now DEF KnownTurns
<1>2. Fits(q, closing', turns', setting', past')
  BY Now, <1>1, ChangesFits
<1>3. RestInv' /\ EscapeStops(q, past')
  BY Now, SameRest DEF EscapeStops
<1>4. TurnInv' /\ Same(q, panel')
  BY <1>2, <1>3, ShowsLemma
<1>5. MayAutoApply
  BY <1>4 DEF MayAutoApply, AutoStarts, Same
<1>6. \A u \in Turns : Offered(q, u) => Offered(panel', u)
  BY <1>4 DEF Offered, OpenProposal, AsideTurns, Same
<1>7. KeepsProposals
  BY <1>4, <1>6 DEF KeepsProposals, Same
<1> QED  BY <1>4, <1>5, <1>7 DEF TurnStep

\* What Keeps keeps.
LEMMA OfferedOne ==
  ASSUME NEW u \in Turns, Offered(panel, u)
  PROVE  /\ panel.outcome[u] = "none"
         /\ u \in AsideTurns(panel) \/ (u = panel.response /\ panel.request # NoTurn /\ panel.makes # "auto")
BY DEF Offered, OpenProposal

LEMMA DecideStep ==
  ASSUME TurnInv, NEW outcome \in {"applied", "rejected", "cancelled"}, Decide(outcome)
  PROVE  TurnStep
<1> DEFINE t == panel.response
           q == Dismiss(Records(panel, t, outcome))
<1>1. /\ panel.making = NoTurn /\ ShowsPanel(q) /\ UNCHANGED <<closing, turns, setting, past>>
      /\ panel.request # NoTurn /\ t # NoTurn
  BY DEF Decide, CanDecide, OpenProposal
<1>2. t \in Turns /\ outcome \in Outcomes
  BY Now, <1>1 DEF PanelRec, TurnOrNone, Outcomes
<1>3. /\ q \in PanelRec /\ Keeps(panel, q) /\ q.request = NoTurn /\ q.response = NoTurn /\ q.making = panel.making
      /\ q.makes = panel.makes /\ q.decided = panel.decided /\ q.outcome = [panel.outcome EXCEPT ![t] = outcome]
  BY Now, <1>2, DismissShape
<1> HIDE DEF q
<1>4. panel.outcome \in [Turns -> Outcomes]
  BY Now DEF PanelRec
<1>5. Decided(q) /\ (q.making = NoTurn <=> q.makes = "none") /\ q.turnId \in Begun(turns) \cup {NoTurn}
  BY Now, <1>1, <1>2, <1>3, <1>4 DEF Decided, Consistent, KnownTurns, Names, AsideTurns, Keeps
<1>6. ~past.overlaid => OneTurn(q) /\ Unnamed(q, closing)
  BY Now, <1>1, <1>3 DEF Course, OneTurn, Unnamed, Keeps, AsideTurns
<1>7. \A u \in Turns : Offered(panel, u) => Offered(q, u) \/ q.outcome[u] # "none"
  BY <1>2, <1>3, <1>4, OfferedOne DEF Offered, Keeps, AsideTurns
<1>8. \A u \in Turns : q.outcome[u] = "auto_applied" => panel.outcome[u] = "auto_applied"
  BY <1>2, <1>3, <1>4
<1> QED  BY Now, <1>1, <1>3, <1>5, <1>6, <1>7, <1>8, ChangeStep DEF Keeps

LEMMA MadeStep ==
  ASSUME TurnInv, DocumentMade
  PROVE  TurnStep
<1> DEFINE t == panel.making
           o == IF panel.makes = "auto" THEN "auto_applied" ELSE "applied"
           d == Dismiss(Records(panel, t, o))
           q == [d EXCEPT !.making = NoTurn, !.makes = "none"]
<1>1. t # NoTurn /\ ShowsPanel(q) /\ UNCHANGED <<closing, turns, setting, past>>
  BY DEF DocumentMade
<1>2. t \in Turns /\ o \in Outcomes /\ o # "none"
  BY Now, <1>1 DEF PanelRec, TurnOrNone, Outcomes
<1>3. /\ d \in PanelRec /\ Keeps(panel, d) /\ d.request = NoTurn /\ d.response = NoTurn
      /\ d.decided = panel.decided /\ d.outcome = [panel.outcome EXCEPT ![t] = o]
  BY Now, <1>2, DismissShape
<1> HIDE DEF d, o
<1>4. /\ q \in PanelRec /\ Keeps(panel, q) /\ q.request = NoTurn /\ q.response = NoTurn /\ q.making = NoTurn
      /\ q.makes = "none" /\ q.decided = panel.decided /\ q.outcome = [panel.outcome EXCEPT ![t] = o]
  BY <1>3, OrNone DEF PanelRec, Keeps
<1> HIDE DEF q
<1>5. panel.outcome \in [Turns -> Outcomes]
  BY Now DEF PanelRec
<1>6. Decided(q) /\ q.turnId \in Begun(turns) \cup {NoTurn}
  BY Now, <1>1, <1>2, <1>4, <1>5 DEF Decided, Consistent, KnownTurns, Names, AsideTurns, Keeps
<1>7. ASSUME ~past.overlaid
      PROVE  /\ OneTurn(q) /\ Unnamed(q, closing) /\ panel.response = t
  BY Now, <1>1, <1>4, <1>7 DEF Course, OneTurn, Unnamed, Keeps, AsideTurns
<1>8. \A u \in Turns : Offered(panel, u) /\ ~past.overlaid => Offered(q, u) \/ q.outcome[u] # "none"
  BY <1>2, <1>4, <1>5, <1>7, OfferedOne DEF Offered, Keeps, AsideTurns
<1>9. \A u \in Turns : q.outcome[u] = "auto_applied" => panel.outcome[u] = "auto_applied" \/ t = u
  BY <1>2, <1>4, <1>5
<1> QED  BY Now, <1>1, <1>4, <1>6, <1>7, <1>8, <1>9, ChangeStep DEF Keeps

LEMMA NotMadeStep ==
  ASSUME TurnInv, DocumentNotMade
  PROVE  TurnStep
<1> DEFINE m == IF panel.makes = "edit" THEN panel.manual ELSE panel.manual \cup {panel.making}
           q == [panel EXCEPT !.making = NoTurn, !.makes = "none", !.manual = m]
<1>1. /\ panel.making # NoTurn /\ UNCHANGED <<closing, turns, setting, past>>
      /\ ShowsPanel([panel EXCEPT !.making = NoTurn, !.makes = "none",
                         !.manual = IF panel.makes = "edit" THEN @ ELSE @ \cup {panel.making}])
  BY DEF DocumentNotMade
<1>2. ShowsPanel(q)
  BY Now, <1>1 DEF PanelRec
<1>3. m \in SUBSET Turns
  BY Now, <1>1 DEF PanelRec, TurnOrNone
<1> HIDE DEF m
<1>4. /\ q \in PanelRec /\ Keeps(panel, q) /\ q.request = panel.request /\ q.response = panel.response
      /\ q.making = NoTurn /\ q.makes = "none" /\ q.decided = panel.decided /\ q.outcome = panel.outcome
  BY Now, <1>3, OrNone DEF PanelRec, Keeps
<1> HIDE DEF q
<1>5. Decided(q) /\ q.turnId \in Begun(turns) \cup {NoTurn}
  BY Now, <1>4 DEF Decided, KnownTurns, Names, AsideTurns, Keeps
<1>6. ASSUME ~past.overlaid
      PROVE  /\ OneTurn(q) /\ Unnamed(q, closing) /\ panel.response # NoTurn
  BY Now, <1>1, <1>4, <1>6 DEF Course, OneTurn, Unnamed, Keeps, AsideTurns
<1>7. \A u \in Turns : Offered(panel, u) => Offered(q, u)
  BY <1>4 DEF Offered, OpenProposal, Keeps, AsideTurns
<1> QED  BY Now, <1>1, <1>2, <1>4, <1>5, <1>6, <1>7, ChangeStep DEF Keeps

LEMMA MakeStep ==
  ASSUME TurnInv, MakeDocumentOf
  PROVE  TurnStep
<1> DEFINE t == panel.response
           q == Makes(panel, turns[t])
<1>1. /\ t # NoTurn /\ ShowsPanel(q) /\ UNCHANGED <<closing, turns, setting, past>> /\ panel.request # NoTurn
  BY DEF MakeDocumentOf, CanDecide, OpenProposal
<1>2. t \in panel.decided
  BY Now, <1>1 DEF Decided
<1>3. turns[t] \in Proposals
  BY Now, <1>2 DEF KnownTurns
<1>4. /\ q \in PanelRec /\ Keeps(panel, q) /\ q.request = panel.request /\ q.response = t
      /\ q.making = t /\ q.makes = turns[t] /\ q.decided = panel.decided /\ q.outcome = panel.outcome
  BY Now, <1>3, OrNone DEF PanelRec, Keeps, Makes
<1> HIDE DEF q
<1>5. Decided(q) /\ q.turnId \in Begun(turns) \cup {NoTurn}
  BY Now, <1>2, <1>4 DEF Decided, KnownTurns, Names, AsideTurns, Keeps
<1>6. q.makes # "auto" /\ q.makes # "none"
  BY <1>3, <1>4 DEF Proposals
<1>7. ~past.overlaid => OneTurn(q) /\ Unnamed(q, closing)
  BY Now, <1>4 DEF Course, OneTurn, Unnamed, Keeps, AsideTurns
<1>8. \A u \in Turns : Offered(panel, u) => Offered(q, u)
  BY <1>4, <1>6 DEF Offered, OpenProposal, Keeps, AsideTurns
<1> QED  BY Now, <1>1, <1>4, <1>5, <1>6, <1>7, <1>8, ChangeStep DEF Keeps

LEMMA LeaveStep ==
  ASSUME TurnInv, LeaveConversation
  PROVE  TurnStep
<1> DEFINE d == Dismiss(panel)
           q == [d EXCEPT !.turnId = NoTurn, !.unconfirmed = NoTurn]
<1>1. /\ ~panel.loading /\ ShowsPanel(q) /\ UNCHANGED <<closing, turns, setting>>
      /\ past' = [past EXCEPT !.replaced = @ \cup ({panel.response} \ {NoTurn})]
  BY DEF LeaveConversation
<1>2. /\ d \in PanelRec /\ Keeps(panel, d) /\ d.request = NoTurn /\ d.response = NoTurn /\ d.making = panel.making
      /\ d.makes = panel.makes /\ d.decided = panel.decided /\ d.outcome = panel.outcome
  BY Now, OrNone DEF PanelRec, Keeps, Dismiss
<1> HIDE DEF d
<1>3. /\ q \in PanelRec /\ q.aside = panel.aside /\ q.request = NoTurn /\ q.response = NoTurn /\ q.making = panel.making
      /\ q.makes = panel.makes /\ q.decided = panel.decided /\ q.outcome = panel.outcome /\ q.turnId = NoTurn
      /\ q.unconfirmed = NoTurn /\ q.stage = panel.stage /\ q.follows = panel.follows /\ q.loading = panel.loading
      /\ q.stop = panel.stop /\ q.stopTurn = panel.stopTurn /\ q.approval = panel.approval
      /\ q.stopped = panel.stopped
  BY <1>2, OrNone DEF PanelRec, Keeps
<1> HIDE DEF q
<1>4. {panel.response} \ {NoTurn} \subseteq Turns
  BY Now DEF PanelRec, TurnOrNone
<1>5. /\ past' \in PastRec /\ past'.allowed = past.allowed /\ past'.overlaid = past.overlaid
      /\ past'.escaped = past.escaped
      /\ panel.response # NoTurn => panel.response \in past'.replaced
  BY Now, <1>1, <1>4 DEF PastRec
<1>6. Decided(q) /\ (q.making = NoTurn <=> q.makes = "none")
  BY Now, <1>3 DEF Decided, Consistent, AsideTurns
<1>7. panel.making = NoTurn
  BY DEF LeaveConversation
<1>8. ~past.overlaid => OneTurn(q) /\ Unnamed(q, closing)
  BY Now, <1>3, <1>7 DEF Course, OneTurn, Unnamed, AsideTurns
<1>9. ASSUME NEW u \in Turns, Offered(panel, u)  PROVE Offered(q, u) \/ u \in past'.replaced
  <2>1. u # NoTurn
    BY TurnConstants
  <2>2. panel.outcome[u] = "none" /\ (u \in AsideTurns(panel) \/ u = panel.response)
    BY <1>9, OfferedOne
  <2>3. u \in AsideTurns(panel) => u \in AsideTurns(q)
    BY <1>3 DEF AsideTurns
  <2> QED  BY <1>3, <1>5, <2>1, <2>2, <2>3 DEF Offered
<1> QED  BY Now, <1>1, <1>3, <1>5, <1>6, <1>8, <1>9, ChangeStep

\* The proposal that was shown takes the place of the one that is reopened.
LEMMA ReopenStep ==
  ASSUME TurnInv, NEW pair \in panel.aside, Reopen(pair)
  PROVE  TurnStep
<1> DEFINE o == [panel EXCEPT !.aside = panel.aside \ {pair}]
           A == SetAside(o)
           q == [panel EXCEPT !.aside = A, !.request = pair[1], !.response = pair[2], !.turnId = pair[2]]
<1>1. /\ ~panel.loading /\ panel.making = NoTurn /\ UNCHANGED <<closing, turns, setting, past>>
      /\ ShowsPanel([panel EXCEPT !.aside = SetAside([panel EXCEPT !.aside = @ \ {pair}]),
                         !.request = pair[1], !.response = pair[2], !.turnId = pair[2]])
  BY DEF Reopen
<1>2. [panel EXCEPT !.aside = @ \ {pair}] = o
  BY Now DEF PanelRec
<1>3. ShowsPanel(q)
  BY <1>1, <1>2
<1>4. /\ o \in PanelRec /\ o.aside = panel.aside \ {pair} /\ o.request = panel.request /\ o.response = panel.response
      /\ o.makes = panel.makes
  BY Now DEF PanelRec
<1> HIDE DEF o
<1>5. /\ A \in SUBSET (Turns \X Turns)
      /\ \A other \in A : \/ other \in panel.aside /\ other # pair
                          \/ other = <<panel.request, panel.response>> /\ panel.response # NoTurn
      /\ \A other \in panel.aside : other # pair /\ other[2] # panel.response => other \in A
      /\ OpenProposal(panel) \subseteq A
  BY <1>4, SetAsideLemma DEF OpenProposal
<1> HIDE DEF A
<1>6. panel.aside \subseteq Turns \X Turns
  BY Now DEF PanelRec
<1>7. pair[1] \in Turns /\ pair[2] \in Turns
  BY <1>6
<1>8. /\ q \in PanelRec /\ q.aside = A /\ q.request = pair[1] /\ q.response = pair[2] /\ q.making = panel.making
      /\ q.makes = panel.makes /\ q.decided = panel.decided /\ q.outcome = panel.outcome /\ q.turnId = pair[2]
      /\ q.unconfirmed = panel.unconfirmed /\ q.stage = panel.stage /\ q.follows = panel.follows
      /\ q.loading = panel.loading /\ q.stop = panel.stop /\ q.stopTurn = panel.stopTurn
      /\ q.approval = panel.approval /\ q.stopped = panel.stopped
  BY Now, <1>5, <1>7, OrNone DEF PanelRec
<1> HIDE DEF q
<1>9. pair[2] \in panel.decided
  BY Now DEF Decided, AsideTurns
<1>10. turns[pair[2]] \in Proposals
  BY Now, <1>9 DEF KnownTurns
<1>11. pair[2] \in Begun(turns)
  BY <1>7, <1>10 DEF Begun, Proposals
<1>12. AsideTurns(q) \subseteq panel.decided
  BY Now, <1>5, <1>8 DEF Decided, AsideTurns
<1>13. Decided(q) /\ (q.making = NoTurn <=> q.makes = "none") /\ panel.makes = "none"
  BY Now, <1>1, <1>8, <1>9, <1>12 DEF Decided, Consistent
<1>14. ASSUME ~past.overlaid
       PROVE  /\ OneTurn(panel) /\ pair[1] = pair[2]
              /\ \A other \in panel.aside : other = <<other[2], other[2]>>
  <2>1. OneTurn(panel)
    BY Now, <1>14 DEF Course
  <2> QED  BY <1>6, <2>1 DEF OneTurn
<1>15. ASSUME ~past.overlaid  PROVE OneTurn(q) /\ Unnamed(q, closing)
  <2>1. \A other \in A : other[1] = other[2] /\ other[2] # pair[2]
    BY <1>5, <1>14, <1>15 DEF OneTurn, AsideTurns
  <2>2. pair[1] \notin AsideTurns(q)
    BY <1>8, <1>14, <1>15, <2>1 DEF AsideTurns
  <2> QED  BY <1>1, <1>7, <1>8, <1>14, <1>15, <2>1, <2>2, TurnConstants DEF OneTurn, Unnamed
<1>16. ASSUME NEW u \in Turns, Offered(panel, u), ~past.overlaid
       PROVE  Offered(q, u)
  <2>1. CASE u = pair[2]
    <3>1. <<pair[1], pair[2]>> \in OpenProposal(q)
      BY <1>7, <1>8, <1>13, TurnConstants DEF OpenProposal
    <3> QED  BY <1>8, <1>16, <2>1, <3>1 DEF Offered
  <2>2. CASE u # pair[2] /\ u \in AsideTurns(panel)
    <3>1. PICK other \in panel.aside : u = other[2]
      BY <2>2 DEF AsideTurns
    <3>2. u # panel.response
      BY <1>14, <1>16, <2>2, TurnConstants DEF OneTurn
    <3>3. other \in A
      BY <1>5, <2>2, <3>1, <3>2
    <3> QED  BY <1>8, <1>16, <3>1, <3>3 DEF Offered, AsideTurns
  <2>3. CASE \E other \in OpenProposal(panel) : u = other[2]
    BY <1>5, <1>8, <1>16, <2>3 DEF Offered, AsideTurns
  <2> QED  BY <1>16, <2>1, <2>2, <2>3 DEF Offered
<1> QED  BY Now, <1>1, <1>3, <1>8, <1>11, <1>13, <1>15, <1>16, ChangeStep
-----------------------------------------------------------------------------
LEMMA TurnNextLemma ==
  ASSUME TurnInv, [TurnNext]_turnVars
  PROVE  TurnStep
BY StartsStep, RecheckStep, EscapeStep, OutsideStep, CloseAnswersStep, ReopenStep, DecideStep, MakeStep, MadeStep,
   NotMadeStep, ViewStep, LeaveStep, AcceptedStep, NotAcceptedStep, EndedStep, ResultStep, StopAnswersStep DEF TurnNext

\* What the panel knows of its turns, in every state of AgentTurn.
THEOREM TurnTheorem == TurnSpec => []TurnInv
<1>1. TurnInv /\ [TurnNext]_turnVars => TurnInv'
  BY TurnNextLemma DEF TurnStep
<1> QED  BY <1>1, TurnInvInit, PTL DEF TurnSpec

\* A proposal is applied without asking only if it was never shown for a decision, if it was not followed when the
\* user pressed Esc, and if the setting allowed it when the turn was last asked for or followed again.
THEOREM AutoApplyTheorem == TurnSpec => AutoApplyIsAllowed
<1>1. TurnInv /\ [TurnNext]_turnVars =>
        [\A t \in Turns : AutoStarts(t) =>
           /\ panel.outcome[t] = "none" /\ t \notin panel.decided
           /\ (t \notin past.escaped \/ past.overlaid) /\ past.allowed]_turnVars
  BY TurnNextLemma DEF TurnStep, MayAutoApply
<1> QED  BY <1>1, TurnTheorem, PTL DEF TurnSpec, AutoApplyIsAllowed

\* A proposal that waits for the user stays open or set aside until it is decided or replaced on purpose.
THEOREM ProposalTheorem == TurnSpec => ProposalIsKept
<1>1. TurnInv /\ [TurnNext]_turnVars =>
        [\A t \in Turns : Offered(panel, t) =>
           \/ Offered(panel', t) \/ panel'.outcome[t] # "none"
           \/ t \in past'.replaced \/ past'.overlaid]_turnVars
  BY TurnNextLemma DEF TurnStep, KeepsProposals
<1> QED  BY <1>1, TurnTheorem, PTL DEF TurnSpec, ProposalIsKept

\* What the panel holds has its type; a turn whose end is unknown is not being followed.
THEOREM TurnTypeTheorem == TurnSpec => []TurnTypeOK
<1>1. TurnInv => TurnTypeOK
  BY TurnConstants DEF TurnInv, Fits, PanelRec, Consistent, TurnTypeOK
<1> QED  BY <1>1, TurnTheorem, PTL
=============================================================================
