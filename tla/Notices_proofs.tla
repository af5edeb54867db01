--------------------------- MODULE Notices_proofs ---------------------------
(***************************************************************************)
(* What the open workspace tells by itself it tells once: the end of an    *)
(* operation, the proposal of a document for the wiki, and what became of  *)
(* a PDF; and the cards in which it is told take turns.  The four parts    *)
(* share no state, and have a section each.                                *)
(***************************************************************************)
EXTENDS OperationNotices, IngestPrompts, PdfIngest, NoticeStack, FiniteSetTheorems, WellFoundedInduction, TLAPS

(* OperationNotices: the filter remembers all that was told, and what it     *)
(* remembers does not pass.                                                  *)

Remembers == told = [o \in Operations |-> IF o \in passed THEN 1 ELSE 0]

LEMMA TellLemma == ASSUME Remembers, NEW O, Tell(O)  PROVE Remembers'
BY DEF Remembers, Tell, Passes

LEMMA SameTold == ASSUME Remembers, UNCHANGED <<told, passed>>  PROVE Remembers'
BY DEF Remembers

LEMMA RemembersNext == Remembers /\ [OperationNext]_operationVars => Remembers'
<1> SUFFICES ASSUME Remembers, [OperationNext]_operationVars  PROVE Remembers'
  OBVIOUS
<1>1. ASSUME NEW o \in Operations, LintAnswered(o)  PROVE Remembers'
  BY <1>1, TellLemma DEF LintAnswered
<1>2. CASE PollSucceeds
  BY <1>2, TellLemma DEF PollSucceeds
<1>3. ASSUME NEW o \in Operations, BeginsElsewhere(o) \/ RequestLint(o) \/ GoesOn(o) \/ LintUnanswered(o)
      PROVE  Remembers'
  BY <1>3, SameTold DEF BeginsElsewhere, RequestLint, GoesOn, LintUnanswered
<1>4. CASE PollFails \/ PollTimer \/ HideOrShow
  BY <1>4, SameTold DEF PollFails, PollTimer, HideOrShow
<1>5. ASSUME NEW l \in Lookups, AnswerLookup(l)  PROVE Remembers'
  BY <1>5, SameTold DEF AnswerLookup
<1>6. ASSUME NEW k \in Kinds, SwitchKind(k)  PROVE Remembers'
  BY <1>6, SameTold DEF SwitchKind
<1>7. CASE UNCHANGED operationVars
  BY <1>7, SameTold DEF operationVars
<1> QED  BY <1>1, <1>2, <1>3, <1>4, <1>5, <1>6, <1>7 DEF OperationNext

\* No two notices name the same operation, although the page that asked for it, the polls of any number of loops and
\* lists that were read while it ended all learn of its end (operationNoticeFilter.ts).
THEOREM EndIsToldOnceTheorem == OperationSpec => []EndIsToldOnce
<1>1. OperationInit => Remembers
  BY DEF OperationInit, Remembers
<1>2. Remembers => EndIsToldOnce
  BY DEF Remembers, EndIsToldOnce
<1> QED  BY <1>1, <1>2, RemembersNext, PTL DEF OperationSpec
-----------------------------------------------------------------------------
(* IngestPrompts: what was proposed or reminded of in this wait is in the    *)
(* memory of the page and of the browser, so that it is not fresh again.     *)

Counts == [Docs -> {0, 1}]
Proposals == [Docs -> {0, 1, 2}]

InMemory ==
  /\ page \in Page /\ promptCards \subseteq SUBSET Docs /\ waitListed \subseteq Docs
  /\ remembered \in [prompted : SUBSET Docs, stalled : SUBSET Docs]
  /\ state \in [Docs -> {"absent", "waiting", "other"}]
  /\ page.seen \subseteq waitListed /\ page.queue \subseteq page.known
  /\ IF page.open THEN remembered = MemoryOf(page) ELSE page = Closed
  /\ ~page.loaded => page.queue = {}

\* A document is proposed of which nothing was told, and the memory holds what was; or, of one that returned, the page
\* knows it until it is closed.
ProposedOf(d) ==
  /\ d \in page.queue => proposed[d] = 0
  /\ proposed[d] = 2 => d \in returned
  /\ state[d] = "waiting" /\ (proposed[d] = 1 \/ d \in page.queue) => d \in remembered.prompted \union returned
  /\ state[d] = "waiting" /\ proposed[d] = 2 => d \in remembered.prompted
  /\ state[d] = "waiting" /\ proposed[d] # 0 /\ page.loaded => d \in page.known
ProposedBefore == proposed \in Proposals /\ \A d \in Docs : ProposedOf(d)
RemindedBefore ==
  /\ reminded \in Counts
  /\ \A d \in Docs : (state[d] = "waiting" \/ d \in waitListed) /\ reminded[d] = 1 => d \in remembered.stalled

PromptInv == InMemory /\ ProposedBefore /\ RemindedBefore

LEMMA ClosedLemma ==
  /\ Closed \in Page /\ ~Closed.open /\ ~Closed.loaded /\ Closed.queue = {} /\ Closed.seen = {} /\ ~Closed.timer
  /\ NoMemory \in [prompted : SUBSET Docs, stalled : SUBSET Docs]
  /\ \A m \in [prompted : SUBSET Docs, stalled : SUBSET Docs] :
       /\ Opened(m) \in Page /\ MemoryOf(Opened(m)) = m
       /\ ~Opened(m).loaded /\ Opened(m).queue = {} /\ Opened(m).seen = {} /\ Opened(m).open
<1> DEFINE M == [prompted : SUBSET Docs, stalled : SUBSET Docs]
<1>1. NoMemory \in M
  BY DEF NoMemory
<1>2. ASSUME NEW m \in M
      PROVE  /\ Opened(m) \in Page /\ MemoryOf(Opened(m)) = m
             /\ ~Opened(m).loaded /\ Opened(m).queue = {} /\ Opened(m).seen = {} /\ Opened(m).open
             /\ ~Opened(m).timer
  <2>1. m.prompted \in SUBSET Docs /\ m.stalled \in SUBSET Docs
    OBVIOUS
  <2>2. /\ Opened(m).prompted = m.prompted /\ Opened(m).stalled = m.stalled /\ Opened(m).known = {}
        /\ Opened(m) \in Page
    BY <2>1 DEF Opened, Page
  <2>3. MemoryOf(Opened(m)) = m
    BY <2>2 DEF MemoryOf
  <2> QED  BY <2>2, <2>3 DEF Opened
<1>3. PICK p \in Page : p = Opened(NoMemory) /\ ~p.loaded /\ p.queue = {} /\ p.seen = {} /\ ~p.timer
  BY <1>1, <1>2
<1>4. Closed = [p EXCEPT !.open = FALSE]
  BY <1>3 DEF Closed
<1>5. /\ Closed \in Page /\ ~Closed.open /\ ~Closed.loaded /\ Closed.queue = {} /\ Closed.seen = {} /\ ~Closed.timer
  BY <1>3, <1>4 DEF Page
<1> QED  BY <1>1, <1>2, <1>5

LEMMA PromptInvInit == PromptInit => PromptInv
<1> SUFFICES ASSUME PromptInit  PROVE PromptInv
  OBVIOUS
<1>1. InMemory
  BY ClosedLemma DEF PromptInit, InMemory
<1>2. ProposedBefore /\ RemindedBefore
  BY ClosedLemma DEF PromptInit, ProposedBefore, ProposedOf, RemindedBefore, NoneYet, Counts, Proposals
<1> QED  BY <1>1, <1>2 DEF PromptInv

\* One more of those of which there was none, or one.
LEMMA OneMoreLemma ==
  ASSUME NEW f \in Counts, NEW D \in SUBSET Docs, \A d \in D : f[d] = 0
  PROVE  OneMore(f, D) \in Counts /\ \A d \in Docs : OneMore(f, D)[d] = IF d \in D THEN 1 ELSE f[d]
BY DEF OneMore, Counts

LEMMA OneProposalLemma ==
  ASSUME NEW f \in Proposals, NEW D \in SUBSET Docs, \A d \in D : f[d] # 2
  PROVE  OneMore(f, D) \in Proposals /\ \A d \in Docs : OneMore(f, D)[d] = IF d \in D THEN f[d] + 1 ELSE f[d]
<1>1. \A d \in D : f[d] + 1 \in {0, 1, 2}
  BY DEF Proposals
<1> QED  BY <1>1 DEF OneMore, Proposals

LEMMA PublishedLemma ==
  ASSUME NEW cs \in SUBSET SUBSET Docs, NEW D \in SUBSET Docs
  PROVE  Published(cs, D) \in SUBSET SUBSET Docs
BY DEF Published

\* What is looked at is seen from now on; what is gone is forgotten.
LEMMA CheckedLemma ==
  ASSUME NEW p \in Page, NEW l \in SUBSET Docs
  PROVE  LET q == Checked(p, l)
         IN  /\ q \in Page /\ q.seen = l /\ q.queue = p.queue /\ q.loaded = p.loaded /\ q.open = p.open
             /\ q.timer = p.timer /\ q.known = p.known
             /\ q.prompted = p.prompted \ (p.seen \ l) /\ q.stalled = (p.stalled \union Stalled(p, l)) \ (p.seen \ l)
<1>1. Stalled(p, l) \in SUBSET Docs
  BY DEF Stalled
<1> QED  BY <1>1 DEF Checked, Page

LEMMA DocStep ==
  ASSUME PromptInv, NEW d \in Docs, BeginsToWait(d) \/ StopsWaiting(d) \/ TimePasses(d)
  PROVE  PromptInv'
<1>1. UNCHANGED <<waitListed, page, remembered, promptCards>>
  BY DEF BeginsToWait, StopsWaiting, TimePasses
<1>2. /\ state' \in [Docs -> {"absent", "waiting", "other"}]
      /\ \A e \in Docs : e # d => state'[e] = state[e]
      /\ state'[d] = "waiting" => state[d] = "waiting" \/ BeginsToWait(d)
  BY DEF PromptInv, InMemory, BeginsToWait, StopsWaiting, TimePasses
<1>3. /\ proposed' \in Proposals /\ reminded' \in Counts
      /\ \A e \in Docs : proposed'[e] \in {0, proposed[e]} /\ reminded'[e] \in {0, reminded[e]}
      /\ BeginsToWait(d) => proposed'[d] = 0 /\ reminded'[d] = 0
  <2>1. CASE UNCHANGED <<proposed, reminded>> /\ ~BeginsToWait(d)
    BY <2>1 DEF PromptInv, ProposedBefore, RemindedBefore
  <2>2. CASE BeginsToWait(d)
    BY <2>2 DEF BeginsToWait, PromptInv, ProposedBefore, RemindedBefore, Counts, Proposals
  <2> QED  BY <2>1, <2>2 DEF StopsWaiting, TimePasses
<1>4. InMemory'
  BY <1>1, <1>2 DEF PromptInv, InMemory, MemoryOf, Closed, Opened
<1>5. ASSUME NEW e \in Docs  PROVE ProposedOf(e)'
  <2>1. ProposedOf(e) /\ proposed[e] \in {0, 1, 2} /\ proposed'[e] \in {0, proposed[e]}
    BY <1>3 DEF PromptInv, ProposedBefore, Proposals
  <2>2. CASE BeginsToWait(d) /\ e = d
    <3>1. proposed'[d] = 0 /\ UNCHANGED <<page, remembered>>
      BY <1>1, <1>3, <2>2
    <3>2. d \in page.queue => d \in page.prompted \union returned'
      BY <2>2 DEF BeginsToWait
    <3>3. d \in page.queue => page.open /\ remembered = MemoryOf(page)
      BY ClosedLemma DEF PromptInv, InMemory
    <3> QED  BY <2>2, <3>1, <3>2, <3>3 DEF ProposedOf, MemoryOf
  <2>3. CASE ~(BeginsToWait(d) /\ e = d)
    <3>1. e \in returned' <=> e \in returned
      BY <2>3 DEF BeginsToWait, StopsWaiting, TimePasses
    <3>2. proposed'[e] = proposed[e]
      <4>1. CASE BeginsToWait(d)
        BY <2>3, <4>1 DEF BeginsToWait, PromptInv, ProposedBefore, Proposals
      <4>2. CASE StopsWaiting(d) \/ TimePasses(d)
        BY <4>2 DEF StopsWaiting, TimePasses
      <4> QED  BY <4>1, <4>2
    <3>3. state'[e] = "waiting" => state[e] = "waiting"
      BY <1>2, <2>3
    <3> QED  BY <1>1, <2>1, <3>1, <3>2, <3>3 DEF ProposedOf
  <2> QED  BY <2>2, <2>3
<1>6. RemindedBefore'
  BY <1>1, <1>2, <1>3 DEF PromptInv, RemindedBefore
<1> QED  BY <1>3, <1>4, <1>5, <1>6 DEF PromptInv, ProposedBefore

LEMMA WaitListStep == ASSUME PromptInv, WaitListArrives  PROVE PromptInv'
<1>0. /\ page \in Page /\ page.open /\ remembered = MemoryOf(page) /\ page.seen \subseteq waitListed
      /\ promptCards \in SUBSET SUBSET Docs /\ (~page.loaded => page.queue = {})
      /\ remembered.prompted = page.prompted /\ remembered.stalled = page.stalled
  BY DEF WaitListArrives, PromptInv, InMemory, MemoryOf
<1> DEFINE l == Waiting
           fresh == Fresh(l)
           p == [page EXCEPT !.loaded = TRUE, !.known = @ \union {d \in Docs : state[d] # "absent"},
                             !.prompted = @ \union fresh, !.queue = IF ~page.loaded THEN @ ELSE @ \union fresh,
                             !.timer = @ \/ (page.loaded /\ fresh # {})]
           initial == IF ~page.loaded THEN fresh ELSE {}
           stalled == Stalled(p, l)
           kept == {c \intersect l : c \in promptCards} \ {{}}
<1>1. /\ waitListed' = l /\ page' = Checked(p, l) /\ remembered' = MemoryOf(page')
      /\ promptCards' = Published(Published(kept, initial), stalled)
      /\ proposed' = OneMore(proposed, initial) /\ reminded' = OneMore(reminded, stalled)
      /\ state' = state /\ returned' = returned
  BY DEF WaitListArrives
<1>2. l \in SUBSET Docs /\ fresh \in SUBSET l /\ (\A d \in fresh : d \notin page.prompted /\ d \notin page.known)
      /\ \A d \in Docs : d \in l <=> state[d] = "waiting"
  BY DEF Waiting, Fresh
<1>3. /\ p \in Page /\ p.loaded /\ p.open /\ p.seen = page.seen /\ p.prompted = page.prompted \union fresh
      /\ p.stalled = page.stalled /\ p.queue = IF ~page.loaded THEN page.queue ELSE page.queue \union fresh
      /\ l \subseteq p.known /\ page.known \subseteq p.known
  <2>1. \A d \in l : state[d] # "absent"
    BY <1>2
  <2> QED  BY <1>0, <1>2, <2>1 DEF Page
<1>4. initial \in SUBSET fresh /\ stalled \in SUBSET l /\ stalled \intersect page.stalled = {}
  BY <1>3 DEF Stalled
<1> HIDE DEF l, fresh, p, initial, stalled, kept
<1>5. /\ page' \in Page /\ page'.seen = l /\ page'.queue = p.queue /\ page'.loaded /\ page'.open /\ page'.known = p.known
      /\ page'.prompted = p.prompted \ (p.seen \ l) /\ page'.stalled = (p.stalled \union stalled) \ (p.seen \ l)
  BY <1>1, <1>2, <1>3, CheckedLemma DEF stalled
<1>6. InMemory'
  <2>1. promptCards' \in SUBSET SUBSET Docs
    <3>1. kept \in SUBSET SUBSET Docs
      BY <1>2 DEF kept
    <3> QED  BY <1>1, <1>2, <1>4, <3>1, PublishedLemma
  <2>2. remembered' \in [prompted : SUBSET Docs, stalled : SUBSET Docs]
    BY <1>1, <1>5 DEF MemoryOf, Page
  <2>3. remembered' = MemoryOf(page)'
    BY <1>1 DEF MemoryOf
  <2>4. page'.queue \subseteq page'.known
    BY <1>2, <1>3, <1>5 DEF PromptInv, InMemory
  <2> QED  BY <1>1, <1>2, <1>5, <2>1, <2>2, <2>3, <2>4 DEF PromptInv, InMemory
<1>7. remembered'.prompted = page'.prompted /\ remembered'.stalled = page'.stalled
  BY <1>1 DEF MemoryOf
<1>8. ProposedBefore'
  <2>1. ASSUME NEW d \in fresh
        PROVE  /\ proposed[d] # 2 /\ (proposed[d] = 1 => d \in returned) /\ (page.loaded => proposed[d] = 0)
    <3>1. ProposedOf(d) /\ d \in Docs /\ state[d] = "waiting" /\ proposed[d] \in {0, 1, 2}
      BY <1>2 DEF PromptInv, ProposedBefore, Proposals
    <3>2. d \notin remembered.prompted /\ d \notin page.known
      BY <1>0, <1>2
    <3> QED  BY <3>1, <3>2 DEF ProposedOf
  <2>2. /\ proposed' \in Proposals
        /\ \A d \in Docs : proposed'[d] = IF d \in initial THEN proposed[d] + 1 ELSE proposed[d]
    BY <1>1, <1>2, <1>4, <2>1, OneProposalLemma DEF PromptInv, ProposedBefore
  <2>3. ASSUME NEW d \in Docs  PROVE ProposedOf(d)'
    <3>1. ProposedOf(d) /\ proposed[d] \in {0, 1, 2}
      BY DEF PromptInv, ProposedBefore, Proposals
    <3>2. d \in page'.queue => proposed'[d] = 0
      <4>1. CASE ~page.loaded
        BY <1>0, <1>3, <1>5, <4>1
      <4>2. CASE page.loaded
        <5>1. initial = {} /\ page'.queue = page.queue \union fresh
          BY <1>3, <1>5, <4>2 DEF initial
        <5> QED  BY <2>1, <2>2, <3>1, <4>2, <5>1 DEF ProposedOf
      <4> QED  BY <4>1, <4>2
    <3>3. state'[d] = "waiting" => d \in l /\ d \in page'.known /\ d \notin p.seen \ l
      BY <1>1, <1>2, <1>3, <1>5
    <3>4. state'[d] = "waiting" /\ d \in page.prompted \union fresh => d \in remembered'.prompted
      BY <1>3, <1>5, <1>7, <3>3
    <3>5. CASE d \in initial
      <4>1. d \in fresh /\ proposed'[d] = proposed[d] + 1
        BY <1>4, <2>2, <3>5
      <4>2. proposed'[d] = 2 => d \in returned'
        BY <1>1, <2>1, <3>1, <4>1
      <4> QED  BY <3>2, <3>3, <3>4, <4>1, <4>2 DEF ProposedOf
    <3>6. CASE d \notin initial
      <4>1. proposed'[d] = proposed[d]
        BY <2>2, <3>6
      <4>2. d \in page'.queue => d \in page.queue \/ d \in fresh
        BY <1>3, <1>5
      <4> QED  BY <1>0, <1>1, <3>1, <3>2, <3>3, <3>4, <4>1, <4>2 DEF ProposedOf
    <3> QED  BY <3>5, <3>6
  <2> QED  BY <2>2, <2>3 DEF ProposedBefore
<1>9. RemindedBefore'
  <2>1. \A d \in stalled : reminded[d] = 0
    BY <1>0, <1>2, <1>4 DEF PromptInv, RemindedBefore, Counts
  <2>2. reminded' \in Counts /\ \A d \in Docs : reminded'[d] = IF d \in stalled THEN 1 ELSE reminded[d]
    BY <1>1, <1>2, <1>4, <2>1, OneMoreLemma DEF PromptInv, RemindedBefore
  <2>3. ASSUME NEW d \in Docs, state'[d] = "waiting" \/ d \in waitListed', reminded'[d] = 1
        PROVE  d \in remembered'.stalled
    <3>1. d \in l /\ state[d] = "waiting"
      BY <1>1, <1>2, <2>3
    <3>2. d \in stalled \/ d \in page.stalled
      BY <1>0, <2>2, <2>3, <3>1 DEF PromptInv, RemindedBefore
    <3> QED  BY <1>3, <1>5, <1>7, <3>1, <3>2
  <2> QED  BY <2>2, <2>3 DEF RemindedBefore
<1> QED  BY <1>6, <1>8, <1>9 DEF PromptInv

LEMMA CheckStep == ASSUME PromptInv, CheckStalled  PROVE PromptInv'
<1> DEFINE stalled == Stalled(page, waitListed)
<1>0. /\ page \in Page /\ page.open /\ remembered = MemoryOf(page) /\ page.seen \subseteq waitListed
      /\ promptCards \in SUBSET SUBSET Docs /\ waitListed \in SUBSET Docs
      /\ remembered.prompted = page.prompted /\ remembered.stalled = page.stalled
  BY DEF CheckStalled, PromptInv, InMemory, MemoryOf
<1>1. /\ page' = Checked(page, waitListed) /\ remembered' = MemoryOf(page') /\ UNCHANGED <<state, waitListed, proposed, returned>>
      /\ promptCards' = Published(promptCards, stalled) /\ reminded' = OneMore(reminded, stalled)
  BY DEF CheckStalled
<1>2. stalled \in SUBSET waitListed /\ stalled \intersect page.stalled = {}
  BY DEF Stalled
<1> HIDE DEF stalled
<1>3. /\ page' \in Page /\ page'.seen = waitListed /\ page'.queue = page.queue /\ page'.loaded = page.loaded
      /\ page'.open /\ page'.prompted = page.prompted /\ page'.stalled = page.stalled \union stalled
      /\ page'.known = page.known
  <2>1. page.seen \ waitListed = {}
    BY <1>0
  <2>2. /\ page' \in Page /\ page'.seen = waitListed /\ page'.queue = page.queue /\ page'.loaded = page.loaded
        /\ page'.open = page.open /\ page'.known = page.known
        /\ page'.prompted = page.prompted \ (page.seen \ waitListed)
        /\ page'.stalled = (page.stalled \union stalled) \ (page.seen \ waitListed)
    BY <1>0, <1>1, CheckedLemma DEF stalled
  <2>3. page.prompted \ {} = page.prompted /\ (page.stalled \union stalled) \ {} = page.stalled \union stalled
    OBVIOUS
  <2> QED  BY <1>0, <2>1, <2>2, <2>3
<1>4. remembered'.prompted = page'.prompted /\ remembered'.stalled = page'.stalled /\ remembered' = MemoryOf(page)'
      /\ remembered' \in [prompted : SUBSET Docs, stalled : SUBSET Docs]
  BY <1>1, <1>3 DEF MemoryOf, Page
<1>5. InMemory'
  <2>1. promptCards' \in SUBSET SUBSET Docs
    BY <1>0, <1>1, <1>2, PublishedLemma
  <2> QED  BY <1>0, <1>1, <1>3, <1>4, <2>1 DEF PromptInv, InMemory
<1>6. ProposedBefore'
  BY <1>0, <1>1, <1>3, <1>4 DEF PromptInv, ProposedBefore, ProposedOf
<1>7. RemindedBefore'
  <2>1. \A d \in stalled : reminded[d] = 0
    BY <1>0, <1>2 DEF PromptInv, RemindedBefore, Counts
  <2>2. reminded' \in Counts /\ \A d \in Docs : reminded'[d] = IF d \in stalled THEN 1 ELSE reminded[d]
    BY <1>0, <1>1, <1>2, <2>1, OneMoreLemma DEF PromptInv, RemindedBefore
  <2> QED  BY <1>0, <1>1, <1>3, <1>4, <2>2 DEF PromptInv, RemindedBefore
<1> QED  BY <1>5, <1>6, <1>7 DEF PromptInv

LEMMA TimerStep == ASSUME PromptInv, PromptTimer  PROVE PromptInv'
<1> DEFINE D == page.queue \intersect waitListed
<1>1. /\ page.timer /\ page' = [page EXCEPT !.timer = FALSE, !.queue = {}]
      /\ promptCards' = Published(promptCards, D) /\ proposed' = OneMore(proposed, D)
      /\ UNCHANGED <<state, waitListed, remembered, reminded, returned>>
  BY DEF PromptTimer
<1>2. page.open
  BY <1>1, ClosedLemma DEF PromptInv, InMemory
<1>3. /\ page' \in Page /\ page'.queue = {} /\ page'.open /\ page'.seen = page.seen /\ page'.prompted = page.prompted
      /\ page'.stalled = page.stalled /\ page'.known = page.known /\ page'.loaded = page.loaded
  BY <1>1, <1>2 DEF PromptInv, InMemory, Page
<1>4. D \in SUBSET Docs /\ \A d \in D : d \in page.queue /\ d \in page.known /\ proposed[d] = 0
  BY DEF PromptInv, InMemory, ProposedBefore, ProposedOf
<1> HIDE DEF D
<1>5. InMemory'
  <2>1. promptCards' \in SUBSET SUBSET Docs
    BY <1>1, <1>4, PublishedLemma DEF PromptInv, InMemory
  <2>2. remembered' = MemoryOf(page)'
    BY <1>1, <1>2, <1>3 DEF PromptInv, InMemory, MemoryOf
  <2> QED  BY <1>1, <1>3, <2>1, <2>2 DEF PromptInv, InMemory
<1>6. proposed' \in Proposals /\ \A d \in Docs : proposed'[d] = IF d \in D THEN 1 ELSE proposed[d]
  <2>1. \A d \in D : proposed[d] # 2 /\ proposed[d] + 1 = 1
    BY <1>4
  <2> QED  BY <1>1, <1>4, <2>1, OneProposalLemma DEF PromptInv, ProposedBefore
<1>7. ASSUME NEW d \in Docs  PROVE ProposedOf(d)'
  <2>1. ProposedOf(d) /\ proposed[d] \in {0, 1, 2}
    BY DEF PromptInv, ProposedBefore, Proposals
  <2>2. CASE d \in D
    BY <1>1, <1>3, <1>4, <1>6, <2>1, <2>2 DEF ProposedOf
  <2>3. CASE d \notin D
    BY <1>1, <1>3, <1>6, <2>1, <2>3 DEF ProposedOf
  <2> QED  BY <2>2, <2>3
<1> QED  BY <1>1, <1>5, <1>6, <1>7 DEF PromptInv, ProposedBefore, RemindedBefore

LEMMA PageStep == ASSUME PromptInv, OpenPage \/ ClosePage \/ (\E c \in promptCards : AnswerCard(c))  PROVE PromptInv'
<1>1. UNCHANGED <<state, remembered, proposed, reminded, returned>>
  BY DEF OpenPage, ClosePage, AnswerCard
<1>2. CASE OpenPage
  <2>1. page' = Opened(remembered) /\ ~page.open /\ UNCHANGED <<waitListed, promptCards>>
    BY <1>2 DEF OpenPage
  <2>2. /\ page' \in Page /\ page'.queue = {} /\ page'.seen = {} /\ page'.open /\ ~page'.loaded
        /\ remembered = MemoryOf(page')
    BY <2>1, ClosedLemma DEF PromptInv, InMemory
  <2>3. InMemory'
    BY <1>1, <2>1, <2>2 DEF PromptInv, InMemory, MemoryOf
  <2> QED  BY <1>1, <2>1, <2>2, <2>3 DEF PromptInv, ProposedBefore, ProposedOf, RemindedBefore
<1>3. CASE ClosePage
  <2>1. page' = Closed /\ waitListed' = {} /\ promptCards' = {}
    BY <1>3 DEF ClosePage
  <2>2. Closed' = Closed
    BY DEF Closed, Opened, NoMemory
  <2>3. InMemory'
    BY <1>1, <2>1, <2>2, ClosedLemma DEF PromptInv, InMemory
  <2> QED  BY <1>1, <2>1, <2>3, ClosedLemma DEF PromptInv, ProposedBefore, ProposedOf, RemindedBefore
<1>4. ASSUME NEW c \in promptCards, AnswerCard(c)  PROVE PromptInv'
  <2>1. UNCHANGED <<page, waitListed>> /\ promptCards' = promptCards \ {c}
    BY <1>4 DEF AnswerCard
  <2> QED  BY <1>1, <2>1 DEF PromptInv, InMemory, ProposedBefore, ProposedOf, RemindedBefore, MemoryOf, Closed, Opened
<1> QED  BY <1>2, <1>3, <1>4

LEMMA PromptInvNext == PromptInv /\ [PromptNext]_promptVars => PromptInv'
<1> SUFFICES ASSUME PromptInv, [PromptNext]_promptVars  PROVE PromptInv'
  OBVIOUS
<1>1. CASE PromptNext
  BY <1>1, DocStep, WaitListStep, CheckStep, TimerStep, PageStep DEF PromptNext
<1>2. CASE UNCHANGED promptVars
  BY <1>2 DEF promptVars, PromptInv, InMemory, ProposedBefore, ProposedOf, RemindedBefore, MemoryOf, Closed, Opened
<1> QED  BY <1>1, <1>2

\* While a document waits it is proposed once and reminded of once, however often the page is closed and opened again
\* and whatever the list of documents that it has misses (usePendingWorkNotifications.ts).  One that began to wait again
\* while the timer still had it, although the page saw it stop, may be proposed twice, and never more often.
THEOREM ProposedOnceTheorem == PromptSpec => []ProposedOnce
<1>1. ASSUME PromptInv, NEW d \in Docs  PROVE proposed[d] <= MayBeProposed(d) /\ reminded[d] <= 1
  <2>1. /\ proposed[d] \in {0, 1, 2} /\ (proposed[d] = 2 => d \in returned) /\ reminded[d] \in {0, 1}
    BY <1>1 DEF PromptInv, ProposedBefore, ProposedOf, RemindedBefore, Counts, Proposals
  <2> QED  BY <2>1 DEF MayBeProposed
<1>2. PromptInv => ProposedOnce
  BY <1>1 DEF ProposedOnce
<1> QED  BY <1>2, PromptInvInit, PromptInvNext, PTL DEF PromptSpec
-----------------------------------------------------------------------------
(* PdfIngest: a task exists only when the conversion is over, so that the    *)
(* note, once it is absent, is gone for good; and what the page has or will  *)
(* have of the list after the note was taken in does not call it converted.  *)

Tasks == [is : BOOLEAN, running : BOOLEAN, missing : Nat]
Fetches == [asked : BOOLEAN, read : BOOLEAN, saw : NoteStates]
Requests == [away : Nat, accepted : Nat, refused : Nat]

PdfTypes ==
  /\ note \in NoteStates /\ noteListed \in NoteStates /\ fetch \in Fetches /\ task \in Tasks
  /\ ingestRequests \in Requests /\ ingests \in Nat
  /\ here \in BOOLEAN /\ stored \in BOOLEAN /\ touched \in BOOLEAN /\ left \in BOOLEAN

Pending == ingestRequests.away + ingestRequests.accepted + ingestRequests.refused

TaskIsOver ==
  /\ task.is \/ stored \/ "gone" \in pdfTold \/ ingests > 0 \/ Pending > 0 => conversion = "over"
  /\ task.running => task.is
  /\ IF here THEN task.is <=> stored ELSE ~task.is

\* The list that is on its way was read after one that missed the note.
Missed ==
  task.is /\ task.missing > 0 /\ ~touched /\ fetch.read /\ fetch.saw = "absent" => note = "absent"

SentOnce ==
  ~left =>
    /\ Pending <= 1
    /\ Pending = 1 => task.running
    /\ ingests + ingestRequests.away <= 1
    /\ ingests > 0 => note \notin {"converting", "converted"}
    /\ ingests > 0 /\ stored /\ ~task.running => noteListed # "converted" /\ (fetch.read => fetch.saw # "converted")

PdfInv == PdfTypes /\ TaskIsOver /\ Missed /\ SentOnce /\ GoneIsGone

LEMMA PdfConstants ==
  /\ NoTask \in Tasks /\ ~NoTask.is /\ ~NoTask.running /\ NoTask.missing = 0
  /\ NewTask \in Tasks /\ NewTask.is /\ ~NewTask.running /\ NewTask.missing = 0
  /\ NoFetch \in Fetches /\ ~NoFetch.read
  /\ FetchAsked \in Fetches /\ ~FetchAsked.read
<1>1. NoTask \in Tasks /\ ~NoTask.is /\ ~NoTask.running /\ NoTask.missing = 0
  BY DEF NoTask, Tasks
<1>2. NewTask \in Tasks /\ NewTask.is /\ ~NewTask.running /\ NewTask.missing = 0
  BY <1>1 DEF NewTask, Tasks
<1>3. NoFetch \in Fetches /\ ~NoFetch.read
  BY DEF NoFetch, Fetches, NoteStates
<1>4. FetchAsked \in Fetches /\ ~FetchAsked.read
  BY <1>3 DEF FetchAsked, Fetches
<1> QED  BY <1>1, <1>2, <1>3, <1>4

\* What looking at the list comes to: the task t waits on with at most n lists that miss the note, its note is sent to
\* be taken in, or the task ends.
WaitsOn(t, n, f) ==
  /\ task' \in Tasks /\ task'.is = t.is /\ task'.running = t.running /\ task'.missing <= n
  /\ fetch' = f /\ UNCHANGED <<ingestRequests, pdfTold>>
IsSent(t, l, f) ==
  /\ t.is /\ ~t.running /\ l = "converted"
  /\ task' \in Tasks /\ task'.is /\ task'.running /\ task'.missing = 0
  /\ ingestRequests' = [ingestRequests EXCEPT !.away = @ + 1]
  /\ fetch' = f /\ UNCHANGED pdfTold
IsOver(t, l, n) ==
  /\ t.is /\ ~t.running
  /\ task' = NoTask /\ ~stored' /\ stored' \in BOOLEAN /\ fetch' = FetchAsked /\ UNCHANGED ingestRequests
  /\ "gone" \in pdfTold' => "gone" \in pdfTold \/ (l = "absent" /\ n >= MissingLimit)

LEMMA StepLemma ==
  ASSUME NEW l \in NoteStates, NEW m \in Nat
  PROVE  /\ Step(l, m) \in {"gone", "waiting", "failed", "ready"}
         /\ Step(l, m) = "gone" => l = "absent" /\ m >= MissingLimit
         /\ Step(l, m) = "ready" /\ l # "ingested" => l = "converted"
BY PdfIngestAssumption DEF Step, NoteStates

\* n: the lists that miss the note by then.
LEMMA LookLemma ==
  ASSUME NEW t \in Tasks, NEW l \in NoteStates, NEW f, NEW n, NEW kept \in BOOLEAN,
         \/ n = t.missing + 1 /\ kept = stored /\ Look(t, l, TRUE, f, stored)
         \/ n = t.missing /\ kept = stored /\ Look(t, l, FALSE, f, stored)
         \/ n = t.missing /\ kept = TRUE /\ Look(t, l, FALSE, f, TRUE)
  PROVE  ((WaitsOn(t, n, f) \/ IsSent(t, l, f)) /\ stored' = kept) \/ IsOver(t, l, n)
<1> DEFINE missing == IF l # "absent" THEN 0 ELSE n
           step == Step(l, missing)
           goesOn == ~t.is \/ t.running \/ step = "waiting"
           sends == ~goesOn /\ step = "ready" /\ l # "ingested"
<1>0. n = t.missing \/ n = t.missing + 1
  OBVIOUS
<1>1. t.missing \in Nat /\ n \in Nat /\ t.missing <= n /\ t.is \in BOOLEAN /\ t.running \in BOOLEAN
  BY <1>0 DEF Tasks
<1>2. /\ task' = IF goesOn THEN [t EXCEPT !.missing = IF t.is /\ ~t.running THEN missing ELSE @]
                  ELSE IF sends THEN [t EXCEPT !.missing = missing, !.running = TRUE] ELSE NoTask
      /\ ingestRequests' = IF sends THEN [ingestRequests EXCEPT !.away = @ + 1] ELSE ingestRequests
      /\ pdfTold' = IF goesOn \/ sends THEN pdfTold ELSE pdfTold \union {IF step = "ready" THEN "requested" ELSE step}
      /\ stored' = (kept /\ (goesOn \/ sends))
      /\ fetch' = IF goesOn \/ sends THEN f ELSE FetchAsked
  <2>1. CASE n = t.missing + 1 /\ kept = stored /\ Look(t, l, TRUE, f, stored)
    BY <2>1 DEF Look
  <2>2. CASE n = t.missing /\ kept = stored /\ Look(t, l, FALSE, f, stored)
    <3>1. missing = (IF l # "absent" THEN 0 ELSE t.missing + (IF FALSE THEN 1 ELSE 0))
      BY <1>1, <2>2
    <3> HIDE DEF missing
    <3> QED  BY <2>2, <3>1 DEF Look
  <2>3. CASE n = t.missing /\ kept = TRUE /\ Look(t, l, FALSE, f, TRUE)
    <3>1. missing = (IF l # "absent" THEN 0 ELSE t.missing + (IF FALSE THEN 1 ELSE 0))
      BY <1>1, <2>3
    <3> HIDE DEF missing
    <3> QED  BY <2>3, <3>1 DEF Look
  <2> QED  BY <2>1, <2>2, <2>3
<1>3. missing \in Nat /\ missing <= n /\ (l = "converted" => missing = 0)
  BY <1>1
<1>4. step = "gone" => l = "absent" /\ n >= MissingLimit
  BY <1>1, <1>3, StepLemma, PdfIngestAssumption
<1>5. step = "ready" /\ l # "ingested" => l = "converted"
  BY <1>3, StepLemma
<1> HIDE DEF missing, step
<1>6. CASE goesOn
  <2>1. PICK m \in Nat : m <= n /\ task' = [t EXCEPT !.missing = m]
    BY <1>1, <1>2, <1>3, <1>6
  <2>2. task' \in Tasks /\ task'.is = t.is /\ task'.running = t.running /\ task'.missing <= n
    BY <2>1 DEF Tasks
  <2> QED  BY <1>2, <1>6, <2>2 DEF WaitsOn
<1>7. CASE sends
  <2>1. task' \in Tasks /\ task'.is /\ task'.running /\ task'.missing = 0
    BY <1>1, <1>2, <1>3, <1>5, <1>7 DEF Tasks
  <2> QED  BY <1>1, <1>2, <1>5, <1>7, <2>1 DEF IsSent
<1>8. CASE ~goesOn /\ ~sends
  BY <1>1, <1>2, <1>4, <1>8 DEF IsOver
<1> QED  BY <1>6, <1>7, <1>8

LEMMA PdfInvInit == PdfInit => PdfInv
<1> SUFFICES ASSUME PdfInit  PROVE PdfInv
  OBVIOUS
<1>1. ingestRequests \in Requests /\ Pending = 0
  BY DEF PdfInit, Requests, Pending
<1>2. PdfTypes
  BY <1>1, PdfConstants DEF PdfInit, PdfTypes, NoteStates
<1> QED  BY <1>1, <1>2, PdfConstants DEF PdfInit, PdfInv, TaskIsOver, Missed, SentOnce, GoneIsGone, Requests

LEMMA NoteStep == ASSUME PdfInv, NoteMoves \/ NoteIsDeleted \/ Converts  PROVE PdfInv'
<1>1. /\ UNCHANGED <<here, noteListed, fetch, task, stored, ingestRequests, pdfTold, ingests, touched, left>>
      /\ note' \in NoteStates /\ (note = "absent" /\ conversion = "over" => note' = "absent")
      /\ conversion = "over" => conversion' = "over"
      /\ note' \in {"converting", "converted"} => conversion # "over" \/ note \in {"converting", "converted"}
  BY DEF NoteMoves, NoteIsDeleted, Converts, pdfHistory, PdfInv, PdfTypes, NoteStates
<1>2. Pending' = Pending
  BY <1>1 DEF Pending
<1>3. PdfTypes'
  BY <1>1 DEF PdfInv, PdfTypes
<1>4. TaskIsOver'
  BY <1>1, <1>2 DEF PdfInv, TaskIsOver
<1>5. Missed' /\ GoneIsGone'
  BY <1>1 DEF PdfInv, TaskIsOver, Missed, GoneIsGone
<1>6. SentOnce'
  BY <1>1, <1>2 DEF PdfInv, TaskIsOver, SentOnce
<1> QED  BY <1>3, <1>4, <1>5, <1>6 DEF PdfInv

\* A request is answered by the server, or the answer arrives.
LEMMA MovesLemma ==
  ASSUME NEW r \in Requests, NEW q, r.away > 0,
         \/ q = [r EXCEPT !.away = @ - 1, !.refused = @ + 1] \/ q = [r EXCEPT !.away = @ - 1, !.accepted = @ + 1]
  PROVE  q \in Requests /\ q.away = r.away - 1 /\ q.accepted + q.refused = r.accepted + r.refused + 1
<1>1. r.away \in Nat /\ r.accepted \in Nat /\ r.refused \in Nat
  BY DEF Requests
<1>2. CASE q = [r EXCEPT !.away = @ - 1, !.refused = @ + 1]
  <2>1. q = [away |-> r.away - 1, accepted |-> r.accepted, refused |-> r.refused + 1]
    BY <1>2 DEF Requests
  <2> QED  BY <1>1, <2>1 DEF Requests
<1>3. CASE q = [r EXCEPT !.away = @ - 1, !.accepted = @ + 1]
  <2>1. q = [away |-> r.away - 1, accepted |-> r.accepted + 1, refused |-> r.refused]
    BY <1>3 DEF Requests
  <2> QED  BY <1>1, <2>1 DEF Requests
<1> QED  BY <1>2, <1>3

LEMMA IngestsStep == ASSUME PdfInv, Ingests  PROVE PdfInv'
<1>1. /\ UNCHANGED <<conversion, here, noteListed, fetch, task, stored, pdfTold, touched, left>>
      /\ ingestRequests.away > 0
  BY DEF Ingests
<1>2. ingestRequests \in Requests /\ ingests \in Nat
  BY DEF PdfInv, PdfTypes
<1>3. /\ ingestRequests' \in Requests /\ ingestRequests'.away = ingestRequests.away - 1 /\ Pending' = Pending
      /\ \/ UNCHANGED <<note, ingests>>
         \/ note # "absent" /\ note' = "ingesting" /\ ingests' = ingests + 1
  <2>1. /\ \/ ingestRequests' = [ingestRequests EXCEPT !.away = @ - 1, !.refused = @ + 1]
           \/ ingestRequests' = [ingestRequests EXCEPT !.away = @ - 1, !.accepted = @ + 1]
        /\ \/ UNCHANGED <<note, ingests>>
           \/ note # "absent" /\ note' = "ingesting" /\ ingests' = ingests + 1
    BY DEF Ingests
  <2>2. /\ ingestRequests' \in Requests /\ ingestRequests'.away = ingestRequests.away - 1
        /\ ingestRequests'.accepted + ingestRequests'.refused = ingestRequests.accepted + ingestRequests.refused + 1
    BY <1>1, <1>2, <2>1, MovesLemma
  <2> QED  BY <1>2, <2>1, <2>2 DEF Requests, Pending
<1>4. Pending > 0 /\ Pending \in Nat
  BY <1>1, <1>2 DEF Requests, Pending
<1>5. PdfTypes'
  BY <1>1, <1>2, <1>3 DEF PdfInv, PdfTypes, NoteStates
<1>6. TaskIsOver'
  BY <1>1, <1>3, <1>4 DEF PdfInv, TaskIsOver
<1>7. Missed' /\ GoneIsGone'
  BY <1>1, <1>3 DEF PdfInv, Missed, GoneIsGone
<1>8. SentOnce'
  <2> SUFFICES ASSUME ~left  PROVE SentOnce'
    BY <1>1 DEF SentOnce
  <2>1. Pending = 1 /\ task.running
    BY <1>4 DEF PdfInv, SentOnce
  <2>2. ingests' + ingestRequests'.away <= 1
    BY <1>2, <1>3 DEF PdfInv, SentOnce, Requests
  <2>3. ingests' > 0 => note' \notin {"converting", "converted"}
    BY <1>3 DEF PdfInv, SentOnce
  <2> QED  BY <1>1, <1>3, <2>1, <2>2, <2>3 DEF SentOnce
<1> QED  BY <1>5, <1>6, <1>7, <1>8 DEF PdfInv

\* The steps that leave the task and its requests as they are.
LEMMA ListStep ==
  ASSUME PdfInv, UNCHANGED <<note, here, noteListed, task, stored, ingestRequests, pdfTold, ingests, touched, left>>,
         conversion = "over" => conversion' = "over", fetch' \in Fetches,
         fetch'.read => fetch'.saw = note \/ (fetch.read /\ fetch'.saw = fetch.saw)
  PROVE  PdfInv'
<1>1. Pending' = Pending
  BY DEF Pending
<1>2. PdfTypes' /\ TaskIsOver'
  BY <1>1 DEF PdfInv, PdfTypes, TaskIsOver
<1>3. Missed' /\ GoneIsGone'
  BY DEF PdfInv, Missed, GoneIsGone
<1>4. SentOnce'
  BY <1>1 DEF PdfInv, SentOnce
<1> QED  BY <1>2, <1>3, <1>4 DEF PdfInv

LEMMA FetchStep == ASSUME PdfInv, ReadsList \/ Confirm \/ Refresh \/ Poll  PROVE PdfInv'
<1>1. fetch \in Fetches /\ note \in NoteStates
  BY DEF PdfInv, PdfTypes
<1>2. /\ UNCHANGED <<note, here, noteListed, task, stored, ingestRequests, pdfTold, ingests, touched, left>>
      /\ conversion = "over" => conversion' = "over"
  BY DEF ReadsList, Confirm, Refresh, Poll, pdfHistory
<1>3. CASE ReadsList
  <2>1. fetch' \in Fetches /\ fetch'.saw = note
    BY <1>1, <1>3 DEF ReadsList, Fetches
  <2> QED  BY <1>2, <2>1, ListStep
<1>4. CASE Confirm \/ Refresh \/ Poll
  <2>1. fetch' = fetch \/ fetch' = FetchAsked
    BY <1>4 DEF Confirm, Refresh, Poll
  <2> QED  BY <1>1, <1>2, <2>1, ListStep, PdfConstants
<1> QED  BY <1>3, <1>4

\* The steps that look at the list in the selected workspace.
LEMMA LooksStep ==
  ASSUME PdfInv, NEW t \in Tasks, NEW f \in Fetches, NEW n \in Nat, NEW k \in BOOLEAN,
         ((WaitsOn(t, n, f) \/ IsSent(t, noteListed', f)) /\ stored' = k) \/ IsOver(t, noteListed', n),
         UNCHANGED <<note, ingests, left>>, noteListed' \in NoteStates, here' = TRUE, touched' \in BOOLEAN,
         t.is <=> k, t.running => t.is, ~left /\ Pending = 1 => t.running,
         t.is \/ "gone" \in pdfTold \/ ingests > 0 \/ Pending > 0 => conversion' = "over",
         t.is /\ ~touched' /\ f.read => n = 0,
         t.is /\ noteListed' = "absent" /\ n >= MissingLimit => note = "absent" \/ touched', touched => touched',
         ~left /\ ingests > 0 /\ t.is /\ ~t.running => noteListed' # "converted" /\ (f.read => f.saw # "converted")
  PROVE  PdfInv'
<1>1. /\ note \in NoteStates /\ ingestRequests \in Requests /\ ingests \in Nat /\ left \in BOOLEAN
      /\ Pending \in Nat /\ t.is \in BOOLEAN /\ t.running \in BOOLEAN
  BY DEF PdfInv, PdfTypes, Requests, Pending, Tasks
<1>2. ~left => /\ Pending <= 1 /\ ingests + ingestRequests.away <= 1
               /\ ingests > 0 => note \notin {"converting", "converted"}
  BY DEF PdfInv, SentOnce
<1>3. GoneIsGone
  BY DEF PdfInv
<1>4. CASE WaitsOn(t, n, f) /\ stored' = k
  <2>1. /\ task' \in Tasks /\ task'.is = t.is /\ task'.running = t.running /\ task'.missing <= n
        /\ fetch' = f /\ UNCHANGED <<ingestRequests, pdfTold>> /\ Pending' = Pending
    BY <1>4 DEF WaitsOn, Pending
  <2>2. PdfTypes'
    BY <1>1, <1>4, <2>1 DEF PdfTypes
  <2>3. TaskIsOver'
    BY <1>1, <1>4, <2>1 DEF TaskIsOver
  <2>4. Missed'
    BY <2>1 DEF Missed, Tasks
  <2>5. GoneIsGone'
    BY <1>3, <2>1 DEF GoneIsGone
  <2>6. SentOnce'
    BY <1>1, <1>2, <1>4, <2>1 DEF SentOnce
  <2> QED  BY <2>2, <2>3, <2>4, <2>5, <2>6 DEF PdfInv
<1>5. CASE IsSent(t, noteListed', f) /\ stored' = k
  <2>1. /\ t.is /\ ~t.running /\ noteListed' = "converted"
        /\ task' \in Tasks /\ task'.is /\ task'.running /\ task'.missing = 0 /\ fetch' = f /\ UNCHANGED pdfTold
    BY <1>5 DEF IsSent
  <2>2. /\ ingestRequests' \in Requests /\ Pending' = Pending + 1
        /\ ingestRequests'.away = ingestRequests.away + 1
    BY <1>1, <1>5 DEF IsSent, Requests, Pending
  <2>3. PdfTypes'
    BY <1>1, <1>5, <2>1, <2>2 DEF PdfTypes
  <2>4. TaskIsOver'
    BY <1>1, <1>5, <2>1 DEF TaskIsOver
  <2>5. Missed' /\ GoneIsGone'
    BY <1>3, <2>1 DEF Missed, GoneIsGone
  <2>6. SentOnce'
    <3> SUFFICES ASSUME ~left  PROVE SentOnce'
      BY DEF SentOnce
    <3>1. Pending = 0 /\ ingests = 0
      BY <1>1, <1>2, <2>1
    <3>2. ingestRequests.away = 0
      BY <1>1, <3>1 DEF Requests, Pending
    <3> QED  BY <2>1, <2>2, <3>1, <3>2 DEF SentOnce
  <2> QED  BY <2>3, <2>4, <2>5, <2>6 DEF PdfInv
<1>6. CASE IsOver(t, noteListed', n)
  <2>1. /\ t.is /\ ~t.running /\ task' = NoTask /\ stored' = FALSE /\ fetch' = FetchAsked
        /\ UNCHANGED ingestRequests /\ Pending' = Pending
        /\ "gone" \in pdfTold' => "gone" \in pdfTold \/ (noteListed' = "absent" /\ n >= MissingLimit)
    BY <1>6 DEF IsOver, Pending
  <2>2. PdfTypes'
    BY <1>1, <2>1, PdfConstants DEF PdfTypes
  <2>3. TaskIsOver'
    BY <1>1, <2>1, PdfConstants DEF TaskIsOver
  <2>4. Missed' /\ GoneIsGone'
    BY <1>3, <2>1, PdfConstants DEF Missed, GoneIsGone
  <2>5. SentOnce'
    BY <1>1, <1>2, <2>1 DEF SentOnce
  <2> QED  BY <2>2, <2>3, <2>4, <2>5 DEF PdfInv
<1> QED  BY <1>4, <1>5, <1>6

LEMMA LookingStep == ASSUME PdfInv, TouchList \/ NoteListArrives \/ ConversionAnswered \/ ReturnToWorkspace
                     PROVE  PdfInv'
<1>1. /\ note \in NoteStates /\ noteListed \in NoteStates /\ fetch \in Fetches /\ task \in Tasks /\ stored \in BOOLEAN
      /\ touched \in BOOLEAN /\ here \in BOOLEAN /\ task.missing \in Nat /\ fetch.saw \in NoteStates
  BY DEF PdfInv, PdfTypes, Tasks, Fetches
<1>2. /\ task.is \/ stored \/ "gone" \in pdfTold \/ ingests > 0 \/ Pending > 0 => conversion = "over"
      /\ task.running => task.is
      /\ IF here THEN task.is <=> stored ELSE ~task.is
  BY DEF PdfInv, TaskIsOver
<1>3. ~left =>
        /\ Pending = 1 => task.running
        /\ ingests > 0 /\ stored /\ ~task.running => noteListed # "converted" /\ (fetch.read => fetch.saw # "converted")
  BY DEF PdfInv, SentOnce
<1>4. Pending \in Nat /\ ingests \in Nat
  BY DEF PdfInv, PdfTypes, Requests, Pending
<1>5. CASE TouchList
  <2>1. /\ UNCHANGED <<note, conversion, here, noteListed, ingests, left>> /\ here
        /\ touched' = (touched \/ task.is) /\ Look(task, noteListed, TRUE, fetch, stored)
    BY <1>5 DEF TouchList
  <2>2. ((WaitsOn(task, task.missing + 1, fetch) \/ IsSent(task, noteListed, fetch)) /\ stored' = stored)
          \/ IsOver(task, noteListed, task.missing + 1)
    BY <1>1, <2>1, LookLemma
  <2> QED  BY <1>1, <1>2, <1>3, <2>1, <2>2, LooksStep
<1>6. CASE NoteListArrives /\ here
  <2>1. /\ UNCHANGED <<note, conversion, here, ingests, touched, left>> /\ here /\ fetch.read
        /\ noteListed' = fetch.saw /\ Look(task, fetch.saw, TRUE, NoFetch, stored)
    BY <1>6 DEF NoteListArrives, pdfHistory
  <2>2. ((WaitsOn(task, task.missing + 1, NoFetch) \/ IsSent(task, fetch.saw, NoFetch)) /\ stored' = stored)
          \/ IsOver(task, fetch.saw, task.missing + 1)
    BY <1>1, <2>1, LookLemma, PdfConstants
  <2>3. task.is /\ fetch.saw = "absent" /\ task.missing + 1 >= MissingLimit => note = "absent" \/ touched
    BY <1>1, <2>1, PdfIngestAssumption DEF PdfInv, Missed
  <2> QED  BY <1>1, <1>2, <1>3, <2>1, <2>2, <2>3, LooksStep, PdfConstants
<1>7. CASE NoteListArrives /\ ~here
  <2>1. /\ UNCHANGED <<note, conversion, here, ingests, touched, left, task, ingestRequests, pdfTold, stored>>
        /\ ~here /\ fetch.read /\ noteListed' = fetch.saw /\ fetch' = NoFetch /\ Pending' = Pending
    BY <1>7 DEF NoteListArrives, pdfHistory, Pending
  <2>2. PdfTypes' /\ TaskIsOver'
    BY <1>1, <2>1, PdfConstants DEF PdfInv, PdfTypes, TaskIsOver
  <2>3. Missed' /\ GoneIsGone'
    BY <2>1, PdfConstants DEF PdfInv, Missed, GoneIsGone
  <2>4. SentOnce'
    BY <2>1, PdfConstants DEF PdfInv, SentOnce
  <2> QED  BY <2>2, <2>3, <2>4 DEF PdfInv
<1>8. CASE ConversionAnswered
  <2>1. /\ UNCHANGED <<note, here, noteListed, ingests, touched, left>>
        /\ conversion # "over" /\ conversion' = "over"
        /\ IF conversion = "made" /\ here THEN Look(NewTask, noteListed, FALSE, fetch, TRUE)
           ELSE UNCHANGED <<task, ingestRequests, pdfTold, stored, fetch>>
    BY <1>8 DEF ConversionAnswered, pdfHistory
  <2>2. ~task.is /\ ingests = 0 /\ Pending = 0 /\ "gone" \notin pdfTold
    BY <1>2, <1>4, <2>1
  <2>3. CASE conversion = "made" /\ here
    <3>0. PICK k \in BOOLEAN : k = TRUE
      OBVIOUS
    <3>1. ((WaitsOn(NewTask, 0, fetch) \/ IsSent(NewTask, noteListed', fetch)) /\ stored' = k)
            \/ IsOver(NewTask, noteListed', 0)
      BY <1>1, <2>1, <2>3, <3>0, LookLemma, PdfConstants
    <3>2. ~(0 >= MissingLimit)
      BY PdfIngestAssumption
    <3>3. /\ UNCHANGED <<note, ingests, left>> /\ noteListed' = noteListed /\ here' = TRUE /\ touched' = touched
          /\ conversion' = "over" /\ NewTask \in Tasks /\ NewTask.is = TRUE /\ ~NewTask.running /\ 0 \in Nat
      BY <2>1, <2>3, PdfConstants
    <3>4. PICK t \in Tasks : t = NewTask
      BY <3>3
    <3>5. /\ t.is <=> k
          /\ t.running => t.is
          /\ ~left /\ Pending = 1 => t.running
          /\ t.is \/ "gone" \in pdfTold \/ ingests > 0 \/ Pending > 0 => conversion' = "over"
          /\ t.is /\ noteListed' = "absent" /\ 0 >= MissingLimit => note = "absent" \/ touched'
          /\ touched => touched'
          /\ ~left /\ ingests > 0 /\ t.is /\ ~t.running
               => noteListed' # "converted" /\ (fetch.read => fetch.saw # "converted")
      BY <2>2, <3>0, <3>2, <3>3, <3>4
    <3>6. ((WaitsOn(t, 0, fetch) \/ IsSent(t, noteListed', fetch)) /\ stored' = k) \/ IsOver(t, noteListed', 0)
      BY <3>1, <3>4
    <3> QED  BY <1>1, <3>3, <3>5, <3>6, LooksStep
  <2>4. CASE ~(conversion = "made" /\ here)
    BY <1>1, <2>1, <2>4, ListStep
  <2> QED  BY <2>3, <2>4
<1>9. CASE ReturnToWorkspace
  <2> DEFINE f == IF fetch.asked THEN fetch ELSE FetchAsked
  <2>1. /\ UNCHANGED <<note, conversion, noteListed, ingests, touched, left>>
        /\ ~here /\ here' = TRUE /\ Look(Restored, noteListed, FALSE, f, stored)
    BY <1>9 DEF ReturnToWorkspace, pdfHistory
  <2>2. f \in Fetches /\ (f.read => f = fetch)
    BY <1>1, PdfConstants
  <2>3. Restored \in Tasks /\ (Restored.is <=> stored) /\ ~Restored.running /\ Restored.missing = 0
    BY <1>1, PdfConstants DEF Restored
  <2> HIDE DEF f
  <2>4. ((WaitsOn(Restored, 0, f) \/ IsSent(Restored, noteListed, f)) /\ stored' = stored)
          \/ IsOver(Restored, noteListed, 0)
    BY <1>1, <2>1, <2>3, LookLemma
  <2>5. ~(0 >= MissingLimit)
    BY PdfIngestAssumption
  <2> QED  BY <1>1, <1>2, <1>3, <2>1, <2>2, <2>3, <2>4, <2>5, LooksStep
<1> QED  BY <1>5, <1>6, <1>7, <1>8, <1>9

LEMMA AnswerStep == ASSUME PdfInv, NEW how \in {"accepted", "refused"}, IngestAnswered(how)  PROVE PdfInv'
<1>1. /\ UNCHANGED <<note, conversion, here, noteListed, ingests, touched, left>>
      /\ pdfTold' = pdfTold \union {IF how = "accepted" THEN "requested" ELSE "refused"}
      /\ \/ here /\ task' = NoTask /\ stored' = FALSE /\ fetch' = FetchAsked
         \/ ~here /\ UNCHANGED <<task, stored, fetch>>
  BY DEF IngestAnswered, pdfHistory
<1>2. ingestRequests \in Requests /\ Pending \in Nat /\ ingests \in Nat
  BY DEF PdfInv, PdfTypes, Requests, Pending
<1>3. /\ ingestRequests' \in Requests /\ Pending' = Pending - 1 /\ Pending > 0
      /\ ingestRequests'.away = ingestRequests.away
  <2>1. CASE how = "accepted"
    BY <1>2, <2>1 DEF IngestAnswered, Requests, Pending
  <2>2. CASE how = "refused"
    BY <1>2, <2>2 DEF IngestAnswered, Requests, Pending
  <2> QED  BY <2>1, <2>2
<1>4. PdfTypes'
  BY <1>1, <1>3, PdfConstants DEF PdfInv, PdfTypes
<1>5. TaskIsOver'
  BY <1>1, <1>2, <1>3, PdfConstants DEF PdfInv, TaskIsOver
<1>6. Missed' /\ GoneIsGone'
  BY <1>1, PdfConstants DEF PdfInv, Missed, GoneIsGone
<1>7. SentOnce'
  BY <1>1, <1>2, <1>3, PdfConstants DEF PdfInv, SentOnce, TaskIsOver
<1> QED  BY <1>4, <1>5, <1>6, <1>7 DEF PdfInv

\* A request that is on its way when the page is left is remembered by left.
LEMMA AwayStep == ASSUME PdfInv, LeaveWorkspace \/ ReloadTab  PROVE PdfInv'
<1>1. /\ ingestRequests \in Requests /\ Pending \in Nat /\ ingests \in Nat /\ task \in Tasks /\ stored \in BOOLEAN
      /\ left \in BOOLEAN /\ task.running \in BOOLEAN
  BY DEF PdfInv, PdfTypes, Requests, Pending, Tasks
<1>2. CASE LeaveWorkspace
  <2>1. /\ UNCHANGED <<note, conversion, noteListed, fetch, stored, ingestRequests, pdfTold, ingests, touched>>
        /\ here' = FALSE /\ task' = NoTask /\ left' = (left \/ task.running) /\ Pending' = Pending
    BY <1>2 DEF LeaveWorkspace, Pending
  <2>2. PdfTypes' /\ TaskIsOver'
    BY <1>1, <2>1, PdfConstants DEF PdfInv, PdfTypes, TaskIsOver
  <2>3. Missed' /\ GoneIsGone'
    BY <2>1, PdfConstants DEF PdfInv, Missed, GoneIsGone
  <2>4. SentOnce'
    BY <1>1, <2>1, PdfConstants DEF PdfInv, SentOnce
  <2> QED  BY <2>2, <2>3, <2>4 DEF PdfInv
<1>3. CASE ReloadTab
  <2>1. /\ UNCHANGED <<here, stored, pdfTold, ingests, touched>> /\ here
        /\ task' = Restored /\ noteListed' = "absent" /\ fetch' = FetchAsked
        /\ note' = note \/ (conversion = "sent" /\ note' = "converting")
        /\ conversion = "over" => conversion' = "over"
        /\ left' = (left \/ ingestRequests.away > 0)
        /\ ingestRequests' = [ingestRequests EXCEPT !.accepted = 0, !.refused = 0]
    BY <1>3 DEF ReloadTab
  <2>2. /\ ingestRequests' \in Requests /\ ingestRequests'.away = ingestRequests.away
        /\ Pending' = ingestRequests.away /\ ingestRequests.away \in Nat /\ (Pending' > 0 => Pending > 0)
    <3>1. ingestRequests' = [away |-> ingestRequests.away, accepted |-> 0, refused |-> 0]
      BY <1>1, <2>1 DEF Requests
    <3> QED  BY <1>1, <3>1 DEF Requests, Pending
  <2>3. Restored \in Tasks /\ (Restored.is <=> stored) /\ ~Restored.running /\ Restored.missing = 0
    BY <1>1, PdfConstants DEF Restored
  <2>4. PdfTypes'
    BY <1>1, <2>1, <2>2, <2>3, PdfConstants DEF PdfInv, PdfTypes, NoteStates
  <2>5. TaskIsOver'
    BY <1>1, <2>1, <2>2, <2>3 DEF PdfInv, TaskIsOver
  <2>6. Missed' /\ GoneIsGone'
    BY <2>1, <2>3, PdfConstants DEF PdfInv, Missed, GoneIsGone, TaskIsOver
  <2>7. SentOnce'
    BY <1>1, <2>1, <2>2, <2>3, PdfConstants DEF PdfInv, SentOnce, TaskIsOver
  <2> QED  BY <2>4, <2>5, <2>6, <2>7 DEF PdfInv
<1> QED  BY <1>2, <1>3

LEMMA PdfInvNext == PdfInv /\ [PdfNext]_pdfVars => PdfInv'
<1> SUFFICES ASSUME PdfInv, [PdfNext]_pdfVars  PROVE PdfInv'
  OBVIOUS
<1>1. CASE PdfNext
  BY <1>1, NoteStep, IngestsStep, FetchStep, LookingStep, AnswerStep, AwayStep DEF PdfNext
<1>2. CASE UNCHANGED pdfVars
  BY <1>2 DEF pdfVars, PdfInv, PdfTypes, TaskIsOver, Missed, SentOnce, GoneIsGone, Pending
<1> QED  BY <1>1, <1>2

\* A task is given up for gone only when its note is gone, and a note is taken into the wiki once: no list that was
\* read before the conversion began, no reload and no number of polls makes it otherwise (usePdfWikiIngest.ts).
THEOREM IngestIsRightTheorem == PdfSpec => []IngestIsRight
<1>1. PdfInv => IngestIsRight
  <2> SUFFICES ASSUME PdfInv  PROVE IngestIsRight
    OBVIOUS
  <2>1. ingests \in Nat /\ ingestRequests.away \in Nat
    BY DEF PdfInv, PdfTypes, Requests
  <2> QED  BY <2>1 DEF PdfInv, SentOnce, IngestIsRight, IngestedOnce
<1> QED  BY <1>1, PdfInvInit, PdfInvNext, PTL DEF PdfSpec
-----------------------------------------------------------------------------
(* NoticeStack: the stack is never fuller than it may be, and full while a   *)
(* card waits.                                                               *)

StackInv ==
  /\ cards \in Seq(Card) /\ arrivals \in 0..MaxArrivals
  /\ Cardinality(ShownPlaces(cards)) <= MaxVisible
  /\ RoomIsUsed

(* Ranks in a finite set of places.                                          *)

LEMMA Counted == ASSUME NEW S, IsFiniteSet(S), NEW T \in SUBSET S
                 PROVE  IsFiniteSet(T) /\ Cardinality(T) \in Nat /\ Cardinality(T) <= Cardinality(S)
                        /\ Cardinality(S) \in Nat
BY FS_Subset, FS_CardinalityType

LEMMA PlacesAreCounted == ASSUME NEW cs \in Seq(Card), NEW S \in SUBSET DOMAIN cs
                          PROVE  IsFiniteSet(S) /\ Cardinality(S) \in Nat /\ S \in SUBSET Nat
<1>1. DOMAIN cs = 1..Len(cs) /\ Len(cs) \in Nat
  OBVIOUS
<1>2. IsFiniteSet(DOMAIN cs)
  BY <1>1, FS_Interval
<1> QED  BY <1>1, <1>2, Counted

LEMMA Least == ASSUME NEW S \in SUBSET Nat, S # {}  PROVE \E m \in S : \A j \in S : m <= j
<1>1. PICK m \in S : \A j \in S : ~ (<<j, m>> \in OpToRel(<, Nat))
  BY NatLessThanWellFounded, WFMin
<1>2. \A j \in S : m <= j
  <2> SUFFICES ASSUME NEW j \in S  PROVE m <= j
    OBVIOUS
  <2>1. <<j, m>> \notin OpToRel(<, Nat)
    BY <1>1
  <2>2. j \in Nat /\ m \in Nat
    OBVIOUS
  <2>3. ~ (j < m)
    BY <2>1, <2>2, Zenon DEF OpToRel
  <2> QED  BY <2>2, <2>3
<1> QED  BY <1>2

LEMMA RankGrows ==
  ASSUME NEW W \in SUBSET Nat, IsFiniteSet(W), NEW i \in W, NEW j \in W, i < j
  PROVE  Rank(W, i) < Rank(W, j)
<1> DEFINE A == {x \in W : x < i}
           B == {x \in W : x < j}
<1>1. IsFiniteSet(A) /\ IsFiniteSet(B) /\ Cardinality(A) \in Nat /\ Cardinality(B) \in Nat
  BY Counted, A \in SUBSET W, B \in SUBSET W
<1>2. A \cup {i} \in SUBSET B /\ i \notin A
  <2>1. \A x \in W : x < i => x < j
    OBVIOUS
  <2>2. i \notin A
    OBVIOUS
  <2>3. A \cup {i} \in SUBSET B
    BY <2>1, Zenon
  <2> QED  BY <2>2, <2>3
<1>3. Cardinality(A \cup {i}) = Cardinality(A) + 1
  BY <1>1, <1>2, FS_AddElement
<1>4. Cardinality(A \cup {i}) <= Cardinality(B)
  BY <1>1, <1>2, FS_Subset
<1>5. Rank(W, i) = Cardinality(A) /\ Rank(W, j) = Cardinality(B)
  BY DEF Rank
<1> HIDE DEF A, B
<1> QED  BY <1>1, <1>3, <1>4, <1>5

LEMMA RankType ==
  ASSUME NEW W \in SUBSET Nat, IsFiniteSet(W), NEW i \in W
  PROVE  Rank(W, i) \in 0..(Cardinality(W) - 1) /\ Cardinality(W) \in Nat
<1> DEFINE A == {x \in W : x < i}
<1>1. IsFiniteSet(A) /\ Cardinality(A) \in Nat /\ Cardinality(W) \in Nat
  BY Counted, A \in SUBSET W
<1>2. A \cup {i} \in SUBSET W /\ i \notin A
  OBVIOUS
<1>3. Cardinality(A \cup {i}) = Cardinality(A) + 1
  BY <1>1, <1>2, FS_AddElement
<1>4. Cardinality(A \cup {i}) <= Cardinality(W)
  BY <1>1, <1>2, FS_Subset
<1>5. Rank(W, i) = Cardinality(A)
  BY DEF Rank
<1> HIDE DEF A
<1> QED  BY <1>1, <1>3, <1>4, <1>5

LEMMA RankIsOneToOne ==
  ASSUME NEW W \in SUBSET Nat, IsFiniteSet(W), NEW i \in W, NEW j \in W, Rank(W, i) = Rank(W, j)
  PROVE  i = j
<1>1. Rank(W, i) \in Nat
  BY RankType
<1>2. ~ (i < j) /\ ~ (j < i)
  BY <1>1, RankGrows
<1> QED  BY <1>2

(* The first R of W are R, or all.                                           *)
LEMMA FirstOnes ==
  ASSUME NEW W \in SUBSET Nat, IsFiniteSet(W), NEW R \in Nat
  PROVE  LET F == {i \in W : Rank(W, i) < R}
         IN  /\ IsFiniteSet(F) /\ Cardinality(F) \in Nat /\ Cardinality(F) <= R
             /\ F # W => Cardinality(F) = R
<1> DEFINE F == {i \in W : Rank(W, i) < R}
<1>1. IsFiniteSet(F) /\ Cardinality(F) \in Nat
  BY Counted, F \in SUBSET W
<1>2. Cardinality(F) <= R
  <2> DEFINE f == [i \in F |-> Rank(W, i)]
  <2>1. f \in [F -> 0..(R - 1)]
    <3> SUFFICES ASSUME NEW i \in F  PROVE Rank(W, i) \in 0..(R - 1)
      OBVIOUS
    <3>1. Rank(W, i) \in Nat
      BY RankType
    <3> QED  BY <3>1
  <2>2. \A i, j \in F : f[i] = f[j] => i = j
    BY RankIsOneToOne
  <2>3. f \in Injection(F, 0..(R - 1))
    BY <2>1, <2>2 DEF Injection, IsInjective
  <2>4. IsFiniteSet(0..(R - 1)) /\ Cardinality(0..(R - 1)) = R
    BY FS_Interval
  <2> HIDE DEF f, F
  <2> QED  BY <2>3, <2>4, FS_Injection
<1>3. ASSUME F # W  PROVE Cardinality(F) >= R
  <2>1. W \ F \in SUBSET Nat /\ W \ F # {}
    BY <1>3
  <2>2. PICK m \in W \ F : \A j \in W \ F : m <= j
    BY <2>1, Least
  <2>3. {x \in W : x < m} \in SUBSET F
    <3> SUFFICES ASSUME NEW x \in W, x < m, x \notin F  PROVE FALSE
      BY Zenon
    <3> QED  BY <2>2
  <2>4. Rank(W, m) <= Cardinality(F)
    BY <2>3, <1>1, Counted DEF Rank
  <2>5. Rank(W, m) >= R /\ Rank(W, m) \in Nat
    BY <2>2, RankType
  <2> QED  BY <2>4, <2>5, <1>1
<1> QED  BY <1>1, <1>2, <1>3

LEMMA EveryRankIsTaken ==
  ASSUME NEW W \in SUBSET Nat, IsFiniteSet(W), NEW n \in 1..Cardinality(W)
  PROVE  \E i \in W : Rank(W, i) = n - 1
<1> DEFINE N == Cardinality(W)
           f == [i \in W |-> Rank(W, i) + 1]
<1>0. N \in Nat
  BY FS_CardinalityType
<1>1. f \in [W -> 1..N]
  <2> SUFFICES ASSUME NEW i \in W  PROVE Rank(W, i) + 1 \in 1..N
    OBVIOUS
  <2> QED  BY RankType
<1>2. \A i, j \in W : f[i] = f[j] => i = j
  <2> SUFFICES ASSUME NEW i \in W, NEW j \in W, Rank(W, i) + 1 = Rank(W, j) + 1  PROVE i = j
    OBVIOUS
  <2>1. Rank(W, i) \in Nat /\ Rank(W, j) \in Nat
    BY RankType
  <2> QED  BY <2>1, RankIsOneToOne
<1>3. f \in Injection(W, 1..N)
  BY <1>1, <1>2 DEF Injection, IsInjective
<1>4. IsFiniteSet(1..N) /\ Cardinality(1..N) = N
  BY <1>0, FS_Interval
<1>5. f \in Surjection(W, 1..N)
  <2> HIDE DEF f
  <2> QED  BY <1>3, <1>4, FS_Injection
<1>6. \E i \in W : f[i] = n
  BY <1>5 DEF Surjection
<1> QED  
  <2> PICK i \in W : f[i] = n
    BY <1>6
  <2>1. Rank(W, i) + 1 = n /\ Rank(W, i) \in Nat
    BY RankType
  <2> QED  BY <2>1

-----------------------------------------------------------------------------
(* What the steps do to the cards that are shown, and to those that wait.    *)

IsStack(cs) ==
  /\ cs \in Seq(Card)
  /\ Cardinality(ShownPlaces(cs)) <= MaxVisible
  /\ WaitingPlaces(cs) # {} => Cardinality(ShownPlaces(cs)) = MaxVisible

LEMMA PlacesType ==
  ASSUME NEW cs \in Seq(Card)
  PROVE  /\ DOMAIN cs = 1..Len(cs) /\ Len(cs) \in Nat
         /\ \A i \in DOMAIN cs : cs[i] \in Card
         /\ ShownPlaces(cs) \in SUBSET DOMAIN cs /\ WaitingPlaces(cs) \in SUBSET DOMAIN cs
         /\ IsFiniteSet(ShownPlaces(cs)) /\ Cardinality(ShownPlaces(cs)) \in Nat
         /\ IsFiniteSet(WaitingPlaces(cs)) /\ WaitingPlaces(cs) \in SUBSET Nat
         /\ Room(cs) = MaxVisible - Cardinality(ShownPlaces(cs))
<1>1. ShownPlaces(cs) \in SUBSET DOMAIN cs /\ WaitingPlaces(cs) \in SUBSET DOMAIN cs
  BY DEF ShownPlaces, WaitingPlaces
<1>2. DOMAIN cs = 1..Len(cs) /\ Len(cs) \in Nat /\ \A i \in DOMAIN cs : cs[i] \in Card
  OBVIOUS
<1> QED  BY <1>1, <1>2, PlacesAreCounted DEF Room

LEMMA AppearsLemma ==
  ASSUME NEW c \in Card
  PROVE  Appears(c) \in Card /\ ~Appears(c).parked /\ Appears(c).leaving = c.leaving
         /\ Appears(c).id = c.id /\ Appears(c).kind = c.kind
BY DEF Appears, Card

LEMMA PromoteLemma ==
  ASSUME NEW cs \in Seq(Card), Cardinality(ShownPlaces(cs)) <= MaxVisible
  PROVE  IsStack(Promote(cs))
<1> DEFINE p == Promote(cs)
           S == ShownPlaces(cs)
           W == WaitingPlaces(cs)
           R == Room(cs)
           F == {i \in W : Rank(W, i) < R}
<1>1. /\ IsFiniteSet(S) /\ Cardinality(S) \in Nat /\ IsFiniteSet(W) /\ W \in SUBSET Nat
      /\ R = MaxVisible - Cardinality(S) /\ R \in Nat
  BY PlacesType, NoticeStackAssumption
<1>2. /\ IsFiniteSet(F) /\ Cardinality(F) \in Nat /\ Cardinality(F) <= R
      /\ F # W => Cardinality(F) = R
  <2> HIDE DEF W, R
  <2> QED  BY <1>1, FirstOnes
<1>3. /\ p = [i \in 1..Len(cs) |-> IF i \in F THEN Appears(cs[i]) ELSE cs[i]]
      /\ F \subseteq W /\ W \subseteq DOMAIN cs /\ S \subseteq DOMAIN cs /\ DOMAIN cs = 1..Len(cs) /\ Len(cs) \in Nat
  BY PlacesType DEF Promote, WaitingPlaces
<1> HIDE DEF F, R
<1>4. p \in Seq(Card) /\ DOMAIN p = DOMAIN cs
  <2>1. p \in [1..Len(cs) -> Card]
    BY <1>3, PlacesType, AppearsLemma
  <2> HIDE DEF p
  <2> QED  BY <2>1, <1>3
<1>5. \A i \in DOMAIN cs : /\ IsShown(p[i]) <=> (i \in S \/ i \in F)
                           /\ Waits(p[i]) <=> (i \in W /\ i \notin F)
  <2> SUFFICES ASSUME NEW i \in DOMAIN cs
               PROVE  /\ IsShown(p[i]) <=> (i \in S \/ i \in F)
                      /\ Waits(p[i]) <=> (i \in W /\ i \notin F)
    OBVIOUS
  <2>1. /\ i \in S <=> (~cs[i].leaving /\ ~cs[i].parked)
        /\ i \in W <=> (cs[i].parked /\ ~cs[i].leaving)
    BY DEF ShownPlaces, WaitingPlaces, IsShown, Waits
  <2>2. cs[i] \in Card
    OBVIOUS
  <2>3. CASE i \in F
    <3>1. p[i] = Appears(cs[i])
      BY <1>3, <2>3
    <3> QED  BY <3>1, <2>1, <2>2, <2>3, <1>3, AppearsLemma DEF IsShown, Waits
  <2>4. CASE i \notin F
    <3>1. p[i] = cs[i]
      BY <1>3, <2>4
    <3> QED  BY <3>1, <2>1, <2>4 DEF IsShown, Waits
  <2> QED  BY <2>3, <2>4
<1>6. ShownPlaces(p) = S \cup F /\ WaitingPlaces(p) = W \ F
  <2> HIDE DEF p, S, W
  <2> QED  BY <1>3, <1>4, <1>5 DEF ShownPlaces, WaitingPlaces
<1>7. S \cap F = {}
  BY <1>3 DEF ShownPlaces, WaitingPlaces, IsShown, Waits
<1>8. Cardinality(S \cup F) = Cardinality(S) + Cardinality(F)
  <2>1. Cardinality(S \cup F) = Cardinality(S) + Cardinality(F) - Cardinality(S \cap F)
    BY <1>1, <1>2, FS_Union
  <2>2. Cardinality(S \cap F) = 0
    BY <1>7, FS_EmptySet
  <2> QED  BY <2>1, <2>2, <1>1, <1>2
<1>9. Cardinality(ShownPlaces(p)) <= MaxVisible
      /\ (WaitingPlaces(p) # {} => Cardinality(ShownPlaces(p)) = MaxVisible)
  <2>1. W \ F # {} => F # W
    OBVIOUS
  <2>2. MaxVisible \in Nat
    BY NoticeStackAssumption
  <2> HIDE DEF p, S, W
  <2> QED  BY <2>1, <2>2, <1>1, <1>2, <1>6, <1>8
<1> QED  BY <1>4, <1>9 DEF IsStack

LEMMA AppendLemma ==
  ASSUME NEW cs \in Seq(Card), NEW c \in Card, IsShown(c)
  PROVE  /\ Append(cs, c) \in Seq(Card)
         /\ Cardinality(ShownPlaces(Append(cs, c))) = Cardinality(ShownPlaces(cs)) + 1
         /\ WaitingPlaces(Append(cs, c)) = WaitingPlaces(cs)
         /\ \A i \in DOMAIN cs : i \in DOMAIN Append(cs, c) /\ Append(cs, c)[i] = cs[i]
<1> DEFINE t == Append(cs, c)
<1>1. /\ t \in Seq(Card) /\ DOMAIN t = 1..(Len(cs) + 1) /\ DOMAIN cs = 1..Len(cs) /\ Len(cs) \in Nat
      /\ \A i \in DOMAIN cs : t[i] = cs[i]
      /\ t[Len(cs) + 1] = c
  OBVIOUS
<1> HIDE DEF t
<1>2. \A i : i \in DOMAIN t <=> (i \in DOMAIN cs \/ i = Len(cs) + 1)
  BY <1>1
<1>3. Len(cs) + 1 \notin DOMAIN cs
  BY <1>1
<1>4. ShownPlaces(t) = ShownPlaces(cs) \cup {Len(cs) + 1} /\ Len(cs) + 1 \notin ShownPlaces(cs)
  BY <1>1, <1>2, <1>3, Zenon DEF ShownPlaces
<1>5. WaitingPlaces(t) = WaitingPlaces(cs)
  <2>1. ~Waits(t[Len(cs) + 1])
    BY <1>1 DEF Waits, IsShown
  <2> QED  BY <1>1, <1>2, <2>1, Zenon DEF WaitingPlaces
<1>6. Cardinality(ShownPlaces(t)) = Cardinality(ShownPlaces(cs)) + 1
  BY <1>4, PlacesType, FS_AddElement
<1> QED  BY <1>1, <1>2, <1>5, <1>6 DEF t


LEMMA RemoveAtLemma ==
  ASSUME NEW cs \in Seq(Card), NEW i \in DOMAIN cs
  PROVE  /\ RemoveAt(cs, i) \in Seq(Card) /\ DOMAIN RemoveAt(cs, i) = 1..(Len(cs) - 1)
         /\ Len(cs) \in Nat /\ i \in 1..Len(cs) /\ DOMAIN cs = 1..Len(cs)
         /\ \A j \in 1..(Len(cs) - 1) : RemoveAt(cs, i)[j] = IF j < i THEN cs[j] ELSE cs[j + 1]
<1> DEFINE a == SubSeq(cs, 1, i - 1)
           b == SubSeq(cs, i + 1, Len(cs))
<1>0. i \in 1..Len(cs) /\ Len(cs) \in Nat /\ DOMAIN cs = 1..Len(cs)
  OBVIOUS
<1>1. a \in Seq(Card) /\ Len(a) = i - 1 /\ \A j \in 1..(i - 1) : a[j] = cs[j]
  BY <1>0
<1>2. b \in Seq(Card) /\ Len(b) = Len(cs) - i /\ \A j \in 1..(Len(cs) - i) : b[j] = cs[i + j]
  BY <1>0
<1>3. RemoveAt(cs, i) = a \o b
  BY DEF RemoveAt
<1> HIDE DEF a, b
<1>4. a \o b \in Seq(Card) /\ Len(a \o b) = Len(cs) - 1 /\ DOMAIN (a \o b) = 1..(Len(cs) - 1)
  <2>1. a \o b \in Seq(Card) /\ Len(a \o b) = Len(a) + Len(b) /\ DOMAIN (a \o b) = 1..Len(a \o b)
    <3>0. a \in Seq(Card) /\ b \in Seq(Card)
      BY <1>1, <1>2
    <3>1. a \o b \in Seq(Card) /\ Len(a \o b) = Len(a) + Len(b)
      BY <3>0
    <3>2. \A q \in Seq(Card) : DOMAIN q = 1..Len(q)
      OBVIOUS
    <3> QED  BY <3>1, <3>2
  <2>2. Len(a) + Len(b) = Len(cs) - 1
    BY <1>0, <1>1, <1>2
  <2> QED  BY <2>1, <2>2
<1>5. ASSUME NEW j \in 1..(Len(cs) - 1)  PROVE (a \o b)[j] = IF j < i THEN cs[j] ELSE cs[j + 1]
  <2>1. CASE j < i
    BY <2>1, <1>0, <1>1, <1>2
  <2>2. CASE ~ (j < i)
    <3>1. (a \o b)[j] = b[j - (i - 1)]
      BY <2>2, <1>0, <1>1, <1>2
    <3>2. j - (i - 1) \in 1..(Len(cs) - i) /\ i + (j - (i - 1)) = j + 1
      BY <2>2, <1>0
    <3> QED  BY <2>2, <3>1, <3>2, <1>2
  <2> QED  BY <2>1, <2>2
<1> QED  BY <1>0, <1>3, <1>4, <1>5

KeepsOthers(cs, i, t) == \A j \in DOMAIN cs : j # i => \E k \in DOMAIN t : t[k] = cs[j]

LEMMA CloseLemma ==
  ASSUME NEW cs \in Seq(Card), NEW i \in DOMAIN cs, NEW t,
         t = RemoveAt(cs, i) \/ t = [cs EXCEPT ![i].leaving = TRUE]
  PROVE  /\ t \in Seq(Card)
         /\ Cardinality(ShownPlaces(t)) = Cardinality(ShownPlaces(cs) \ {i})
         /\ KeepsOthers(cs, i, t)
<1> DEFINE S == ShownPlaces(cs) \ {i}
<1>1. DOMAIN cs = 1..Len(cs) /\ Len(cs) \in Nat /\ i \in 1..Len(cs)
      /\ \A j \in S : j \in 1..Len(cs) /\ j # i /\ IsShown(cs[j])
  BY DEF ShownPlaces
<1> USE DEF KeepsOthers
<1>2. CASE t = [cs EXCEPT ![i].leaving = TRUE]
  <2>1. cs[i] \in Card
    OBVIOUS
  <2>2. [cs[i] EXCEPT !.leaving = TRUE] \in Card /\ ~IsShown([cs[i] EXCEPT !.leaving = TRUE])
    BY <2>1 DEF Card, IsShown
  <2>3. t = [cs EXCEPT ![i] = [cs[i] EXCEPT !.leaving = TRUE]]
    BY <1>2
  <2>4. t \in Seq(Card) /\ DOMAIN t = DOMAIN cs /\ \A j \in DOMAIN cs : j # i => t[j] = cs[j]
    BY <2>2, <2>3
  <2>5. ~IsShown(t[i])
    BY <2>2, <2>3
  <2>6. ShownPlaces(t) = S
    BY <2>4, <2>5, Zenon DEF ShownPlaces
  <2> QED  BY <2>4, <2>6
<1>3. CASE t = RemoveAt(cs, i)
  <2> DEFINE f == [j \in S |-> IF j < i THEN j ELSE j - 1]
             T == ShownPlaces(t)
  <2>1. /\ t \in Seq(Card) /\ DOMAIN t = 1..(Len(cs) - 1)
        /\ \A j \in 1..(Len(cs) - 1) : t[j] = IF j < i THEN cs[j] ELSE cs[j + 1]
    BY <1>3, RemoveAtLemma
  <2>2. ASSUME NEW j \in 1..Len(cs), j # i
        PROVE  LET k == IF j < i THEN j ELSE j - 1 IN k \in DOMAIN t /\ t[k] = cs[j]
    <3>1. CASE j < i
      <4>1. j \in 1..(Len(cs) - 1)
        BY <3>1, <1>1
      <4>2. t[j] = cs[j]
        BY <2>1, <3>1, <4>1
      <4> QED  BY <2>1, <3>1, <4>1, <4>2
    <3>2. CASE ~ (j < i)
      <4>1. j - 1 \in 1..(Len(cs) - 1) /\ ~ (j - 1 < i) /\ (j - 1) + 1 = j
        BY <2>2, <3>2, <1>1
      <4>2. t[j - 1] = cs[(j - 1) + 1]
        BY <2>1, <4>1
      <4> QED  BY <2>1, <3>2, <4>1, <4>2
    <3> QED  BY <3>1, <3>2
  <2>3. f \in [S -> T]
    BY <2>2, <1>1 DEF ShownPlaces
  <2>4. \A j, k \in S : f[j] = f[k] => j = k
    BY <1>1
  <2>5. \A k \in T : \E j \in S : f[j] = k
    <3> SUFFICES ASSUME NEW k \in T  PROVE \E j \in S : f[j] = k
      OBVIOUS
    <3>1. k \in 1..(Len(cs) - 1) /\ IsShown(t[k])
      BY <2>1 DEF ShownPlaces
    <3>2. CASE k < i
      <4>1. k \in S
        <5>1. t[k] = cs[k]
          BY <3>1, <3>2, <2>1
        <5>2. k \in DOMAIN cs /\ k # i
          BY <3>1, <3>2, <1>1
        <5> QED  BY <3>1, <5>1, <5>2 DEF ShownPlaces
      <4> QED  BY <4>1, <3>2
    <3>3. CASE ~ (k < i)
      <4>1. k + 1 \in S
        <5>1. t[k] = cs[k + 1]
          BY <3>1, <3>3, <2>1
        <5>2. k + 1 \in DOMAIN cs /\ k + 1 # i
          BY <3>1, <3>3, <1>1
        <5> QED  BY <3>1, <5>1, <5>2 DEF ShownPlaces
      <4>2. ~ (k + 1 < i) /\ (k + 1) - 1 = k
        BY <3>1, <3>3, <1>1
      <4> QED  BY <4>1, <4>2
    <3> QED  BY <3>2, <3>3
  <2>6. f \in Bijection(S, T)
    <3> HIDE DEF f, S, T
    <3> QED  BY <2>3, <2>4, <2>5 DEF Bijection, Injection, Surjection, IsInjective
  <2>7. IsFiniteSet(S)
    BY PlacesAreCounted DEF ShownPlaces
  <2>8. Cardinality(T) = Cardinality(S)
    <3> HIDE DEF f, S, T
    <3> QED  BY <2>6, <2>7, FS_Bijection DEF ExistsBijection
  <2> QED  BY <2>1, <2>2, <2>8, <1>1
<1> QED  BY <1>2, <1>3

LEMMA ClosedStack ==
  ASSUME NEW cs \in Seq(Card), Cardinality(ShownPlaces(cs)) <= MaxVisible, NEW i \in DOMAIN cs, NEW t,
         t = RemoveAt(cs, i) \/ t = [cs EXCEPT ![i].leaving = TRUE]
  PROVE  t \in Seq(Card) /\ Cardinality(ShownPlaces(t)) <= MaxVisible
<1>1. IsFiniteSet(ShownPlaces(cs)) /\ Cardinality(ShownPlaces(cs)) \in Nat
  BY PlacesType
<1>2. Cardinality(ShownPlaces(cs) \ {i}) <= Cardinality(ShownPlaces(cs))
  <2> DEFINE S == ShownPlaces(cs)
  <2>1. S \ {i} \in SUBSET S
    OBVIOUS
  <2> HIDE DEF S
  <2>2. Cardinality(S \ {i}) <= Cardinality(S)
    BY <1>1, <2>1, Counted DEF S
  <2> QED  BY <2>2 DEF S
<1>3. Cardinality(ShownPlaces(cs) \ {i}) \in Nat /\ MaxVisible \in Nat
  BY <1>1, Counted, NoticeStackAssumption
<1> QED  BY <1>1, <1>2, <1>3, CloseLemma

LEMMA ParkLemma ==
  ASSUME NEW cs \in Seq(Card), NEW i \in ShownPlaces(cs)
  PROVE  LET t == [cs EXCEPT ![i].parked = TRUE]
         IN  /\ t \in Seq(Card)
             /\ ShownPlaces(t) = ShownPlaces(cs) \ {i}
             /\ \A j \in DOMAIN cs : j \in DOMAIN t /\ t[j].id = cs[j].id /\ t[j].leaving = cs[j].leaving
<1> DEFINE c == [cs[i] EXCEPT !.parked = TRUE]
           t == [cs EXCEPT ![i] = c]
<1>1. i \in DOMAIN cs /\ cs[i] \in Card
  BY DEF ShownPlaces
<1>2. c \in Card /\ ~IsShown(c) /\ c.id = cs[i].id /\ c.leaving = cs[i].leaving
  BY <1>1 DEF Card, IsShown
<1> HIDE DEF c
<1>3. t \in Seq(Card) /\ DOMAIN t = DOMAIN cs /\ t[i] = c /\ \A j \in DOMAIN cs : j # i => t[j] = cs[j]
  BY <1>1, <1>2
<1>4. t = [cs EXCEPT ![i].parked = TRUE]
  BY DEF c
<1> HIDE DEF t
<1>5. ShownPlaces(t) = ShownPlaces(cs) \ {i}
  BY <1>1, <1>2, <1>3, Zenon DEF ShownPlaces
<1>6. \A j \in DOMAIN cs : j \in DOMAIN t /\ t[j].id = cs[j].id /\ t[j].leaving = cs[j].leaving
  BY <1>2, <1>3
<1> QED  BY <1>3, <1>4, <1>5, <1>6

LEMMA WithoutLemma ==
  ASSUME NEW cs \in Seq(Card), Cardinality(ShownPlaces(cs)) <= MaxVisible, NEW k
  PROVE  Without(cs, k) \in Seq(Card) /\ Cardinality(ShownPlaces(Without(cs, k))) <= MaxVisible
<1> DEFINE P == {i \in DOMAIN cs : cs[i].kind # k}
           N == Cardinality(P)
           g(n) == CHOOSE i \in P : Rank(P, i) = n - 1
           t == Without(cs, k)
           S == ShownPlaces(cs)
           T == ShownPlaces(t)
<1>1. IsFiniteSet(P) /\ N \in Nat /\ P \in SUBSET Nat
  BY PlacesAreCounted
<1>2. t = [n \in 1..N |-> cs[g(n)]]
  BY DEF Without
<1>3. ASSUME NEW n \in 1..N  PROVE g(n) \in P /\ Rank(P, g(n)) = n - 1
  <2> HIDE DEF P
  <2>1. \E i \in P : Rank(P, i) = n - 1
    BY <1>1, EveryRankIsTaken
  <2> QED  BY <2>1
<1> HIDE DEF t, g
<1>4. ASSUME NEW n \in 1..N  PROVE g(n) \in DOMAIN cs /\ cs[g(n)] \in Card
  BY <1>3
<1>5. t \in [1..N -> Card]
  BY <1>2, <1>4
<1> HIDE DEF P, N
<1>6. t \in Seq(Card) /\ DOMAIN t = 1..N
  BY <1>1, <1>5
<1> DEFINE f == [n \in T |-> g(n)]
<1>7. f \in [T -> S]
  <2> SUFFICES ASSUME NEW n \in T  PROVE g(n) \in S
    OBVIOUS
  <2>1. n \in 1..N /\ IsShown(t[n])
    BY <1>6 DEF ShownPlaces
  <2>2. t[n] = cs[g(n)]
    BY <2>1, <1>2
  <2> QED  BY <2>1, <2>2, <1>4 DEF ShownPlaces
<1>8. \A m, n \in T : f[m] = f[n] => m = n
  <2> SUFFICES ASSUME NEW m \in T, NEW n \in T, g(m) = g(n)  PROVE m = n
    OBVIOUS
  <2>1. m \in 1..N /\ n \in 1..N
    BY <1>6 DEF ShownPlaces
  <2>2. m - 1 = n - 1
    BY <2>1, <1>3
  <2> QED  BY <2>1, <2>2
<1>9. IsFiniteSet(S) /\ Cardinality(S) \in Nat /\ MaxVisible \in Nat
  BY PlacesType, NoticeStackAssumption
<1>10. IsFiniteSet(T) /\ Cardinality(T) <= Cardinality(S)
  <2> HIDE DEF S, T, f
  <2>1. f \in Injection(T, S)
    BY <1>7, <1>8 DEF Injection, IsInjective
  <2> QED  BY <2>1, <1>9, FS_Injection
<1>11. Cardinality(T) \in Nat
  BY <1>6, PlacesType
<1> QED  BY <1>6, <1>9, <1>10, <1>11 DEF t


Stays(cs, t) ==
  \A i \in DOMAIN cs :
    ~cs[i].leaving /\ (cs[i].kind = "proposal" \/ cs[i].young) =>
      \E k \in DOMAIN t : t[k].id = cs[i].id /\ ~t[k].leaving

LEMMA EnqueueLemma ==
  ASSUME NEW cs, IsStack(cs), NEW c \in Card, IsShown(c)
  PROVE  IsStack(Enqueue(cs, c)) /\ Stays(cs, Enqueue(cs, c))
<1> DEFINE shown == ShownPlaces(cs)
           seen == {i \in shown : IsGivingWay(cs[i])}
<1>1. /\ cs \in Seq(Card) /\ shown \in SUBSET DOMAIN cs /\ IsFiniteSet(shown) /\ Cardinality(shown) \in Nat
      /\ Cardinality(shown) <= MaxVisible /\ MaxVisible \in Nat \ {0} /\ shown \in SUBSET Nat
      /\ WaitingPlaces(cs) # {} => Cardinality(shown) = MaxVisible
  BY PlacesType, NoticeStackAssumption DEF IsStack
<1>2. ASSUME NEW t \in Seq(Card), Cardinality(ShownPlaces(t)) = MaxVisible - 1
      PROVE  IsStack(Append(t, c))
  BY <1>1, <1>2, AppendLemma DEF IsStack
<1>3. ASSUME NEW i \in shown  PROVE Cardinality(shown \ {i}) = Cardinality(shown) - 1
  <2> HIDE DEF shown
  <2> QED  BY <1>1, <1>3, FS_RemoveElement
<1>4. CASE Cardinality(shown) < MaxVisible
  <2>1. Enqueue(cs, c) = Append(cs, c)
    BY <1>4 DEF Enqueue
  <2>2. WaitingPlaces(Append(cs, c)) = {}
    BY <1>1, <1>4, AppendLemma
  <2>3. IsStack(Append(cs, c))
    BY <1>1, <1>4, <2>2, AppendLemma DEF IsStack
  <2>4. Stays(cs, Append(cs, c))
    BY <1>1, AppendLemma DEF Stays
  <2> QED  BY <2>1, <2>3, <2>4
<1>5. Cardinality(shown) = MaxVisible \/ Cardinality(shown) < MaxVisible
  BY <1>1
<1>6. CASE Cardinality(shown) = MaxVisible /\ seen # {}
  <2>1. Oldest(seen) \in seen
    <3>1. \E m \in seen : \A j \in seen : m <= j
      BY <1>1, <1>6, Least
    <3> QED  BY <3>1, Zenon DEF Oldest
  <2>2. PICK i \in seen : i = Oldest(seen)
    BY <2>1
  <2>3. PICK t : t = Close(cs, i)
    OBVIOUS
  <2>4. Enqueue(cs, c) = Append(t, c)
    BY <1>1, <1>6, <2>2, <2>3, MaxVisible >= MaxVisible DEF Enqueue
  <2>5. i \in shown /\ i \in DOMAIN cs /\ cs[i].kind = "result" /\ ~cs[i].young
    BY <1>1, <2>2 DEF IsGivingWay
  <2>6. t = RemoveAt(cs, i) \/ t = [cs EXCEPT ![i].leaving = TRUE]
    BY <2>3 DEF Close
  <2>7. /\ t \in Seq(Card) /\ Cardinality(ShownPlaces(t)) = Cardinality(shown \ {i})
        /\ KeepsOthers(cs, i, t)
    <3>1. cs \in Seq(Card) /\ i \in DOMAIN cs
      BY <1>1, <2>5
    <3> QED  BY <3>1, <2>6, CloseLemma
  <2>8. Cardinality(ShownPlaces(t)) = MaxVisible - 1
    BY <1>3, <1>6, <2>5, <2>7
  <2>9. IsStack(Append(t, c))
    BY <1>2, <2>7, <2>8
  <2>10. Stays(cs, Append(t, c))
    <3> SUFFICES ASSUME NEW j \in DOMAIN cs, ~cs[j].leaving, cs[j].kind = "proposal" \/ cs[j].young
                 PROVE  \E k \in DOMAIN Append(t, c) : Append(t, c)[k].id = cs[j].id /\ ~Append(t, c)[k].leaving
      BY DEF Stays
    <3>1. j # i
      BY <2>5
    <3>2. PICK k \in DOMAIN t : t[k] = cs[j]
      BY <2>7, <3>1 DEF KeepsOthers
    <3>3. k \in DOMAIN Append(t, c) /\ Append(t, c)[k] = t[k]
      BY <2>7, AppendLemma
    <3> QED  BY <3>2, <3>3
  <2> QED  BY <2>4, <2>9, <2>10
<1>7. CASE Cardinality(shown) = MaxVisible /\ seen = {}
  <2> DEFINE i == Oldest(shown)
             t == [cs EXCEPT ![i].parked = TRUE]
  <2>1. i \in shown
    <3>1. shown # {}
      BY <1>1, <1>7, FS_EmptySet
    <3>2. \E m \in shown : \A j \in shown : m <= j
      BY <1>1, <3>1, Least
    <3> QED  BY <3>2, Zenon DEF Oldest
  <2>2. Enqueue(cs, c) = Append(t, c)
    BY <1>1, <1>7, MaxVisible >= MaxVisible DEF Enqueue
  <2> HIDE DEF i
  <2>3. /\ t \in Seq(Card) /\ ShownPlaces(t) = shown \ {i}
        /\ \A j \in DOMAIN cs : j \in DOMAIN t /\ t[j].id = cs[j].id /\ t[j].leaving = cs[j].leaving
    BY <1>1, <2>1, ParkLemma
  <2> HIDE DEF t
  <2>4. Cardinality(ShownPlaces(t)) = MaxVisible - 1
    BY <1>3, <1>7, <2>1, <2>3
  <2>5. IsStack(Append(t, c))
    BY <1>2, <2>3, <2>4
  <2>6. Stays(cs, Append(t, c))
    <3>1. \A j \in DOMAIN cs : j \in DOMAIN Append(t, c) /\ Append(t, c)[j].id = cs[j].id
                                 /\ Append(t, c)[j].leaving = cs[j].leaving
      BY <2>3, AppendLemma
    <3> QED  BY <3>1 DEF Stays
  <2> QED  BY <2>2, <2>5, <2>6
<1> HIDE DEF shown, seen
<1> QED  BY <1>4, <1>5, <1>6, <1>7

LEMMA RipenLemma ==
  ASSUME NEW cs, IsStack(cs), NEW i \in DOMAIN cs
  PROVE  IsStack([cs EXCEPT ![i].young = FALSE])
<1> DEFINE c == [cs[i] EXCEPT !.young = FALSE]
           t == [cs EXCEPT ![i] = c]
<1>1. cs \in Seq(Card) /\ cs[i] \in Card
  BY DEF IsStack
<1>2. c \in Card /\ c.parked = cs[i].parked /\ c.leaving = cs[i].leaving
  BY <1>1 DEF Card
<1>3. t = [cs EXCEPT ![i].young = FALSE]
  OBVIOUS
<1> HIDE DEF c
<1>4. t \in Seq(Card) /\ DOMAIN t = DOMAIN cs /\ t[i] = c /\ \A j \in DOMAIN cs : j # i => t[j] = cs[j]
  BY <1>1, <1>2
<1> HIDE DEF t
<1>5. \A j \in DOMAIN cs : t[j].parked = cs[j].parked /\ t[j].leaving = cs[j].leaving
  BY <1>2, <1>4
<1>6. ShownPlaces(t) = ShownPlaces(cs) /\ WaitingPlaces(t) = WaitingPlaces(cs)
  BY <1>4, <1>5, Zenon DEF ShownPlaces, WaitingPlaces, IsShown, Waits
<1> QED  BY <1>3, <1>4, <1>6 DEF IsStack

LEMMA StackInvNext ==
  ASSUME StackInv, [StackNext]_stackVars
  PROVE  StackInv' /\ (arrivals' # arrivals => Stays(cards, cards'))
<1>0. IsStack(cards) /\ arrivals \in 0..MaxArrivals /\ MaxVisible \in Nat \ {0} /\ MaxArrivals \in Nat
      /\ cards \in Seq(Card) /\ Cardinality(ShownPlaces(cards)) <= MaxVisible
  BY PlacesType, NoticeStackAssumption DEF StackInv, RoomIsUsed, IsStack
<1>1. SUFFICES IsStack(cards') /\ arrivals' \in 0..MaxArrivals /\ (arrivals' # arrivals => Stays(cards, cards'))
  BY <1>0, PlacesType DEF StackInv, RoomIsUsed, IsStack
<1>2. ASSUME NEW i \in DOMAIN cards, CloseCard(i)
      PROVE  IsStack(cards') /\ arrivals' = arrivals
  <2> DEFINE t == Close(cards, i)
  <2>1. t = RemoveAt(cards, i) \/ t = [cards EXCEPT ![i].leaving = TRUE]
    BY DEF Close
  <2>2. cards' = Promote(t) /\ arrivals' = arrivals
    BY <1>2 DEF CloseCard
  <2> HIDE DEF t
  <2> QED  BY <1>0, <2>1, <2>2, ClosedStack, PromoteLemma
<1>3. ASSUME NEW i \in DOMAIN cards, PressButton(i) \/ TimeIsUp(i) \/ Withdraw(i)
      PROVE  IsStack(cards') /\ arrivals' = arrivals
  BY <1>2, <1>3 DEF PressButton, TimeIsUp, Withdraw
<1>4. ASSUME NEW i \in DOMAIN cards, Exit(i)
      PROVE  IsStack(cards') /\ arrivals' = arrivals
  <2> DEFINE t == RemoveAt(cards, i)
  <2>1. cards' = Promote(t) /\ arrivals' = arrivals
    BY <1>4 DEF Exit
  <2>2. t \in Seq(Card) /\ Cardinality(ShownPlaces(t)) <= MaxVisible
    BY <1>0, ClosedStack
  <2> HIDE DEF t
  <2> QED  BY <2>1, <2>2, PromoteLemma
<1>5. ASSUME NEW i \in DOMAIN cards, Ripen(i)
      PROVE  IsStack(cards') /\ arrivals' = arrivals
  BY <1>0, <1>5, RipenLemma DEF Ripen
<1>6. ASSUME NEW k \in CardKinds, TurnOff(k)
      PROVE  IsStack(cards') /\ arrivals' = arrivals
  BY <1>0, <1>6, WithoutLemma, PromoteLemma DEF TurnOff
<1>7. ASSUME NEW k \in CardKinds, Publish(k)
      PROVE  IsStack(cards') /\ arrivals' \in 0..MaxArrivals /\ Stays(cards, cards')
  <2> DEFINE n == [id |-> arrivals', kind |-> k, parked |-> FALSE, leaving |-> FALSE, young |-> FALSE]
             c == Appears(n)
  <2>1. arrivals < MaxArrivals /\ arrivals' = arrivals + 1 /\ cards' = Enqueue(cards, c)
    BY <1>7 DEF Publish
  <2>2. arrivals' \in 1..MaxArrivals
    BY <1>0, <2>1
  <2>3. n \in Card /\ n.leaving = FALSE
    BY <2>2 DEF Card
  <2> HIDE DEF n
  <2>4. c \in Card /\ IsShown(c)
    BY <2>3, AppearsLemma DEF IsShown
  <2> HIDE DEF c
  <2> QED  BY <1>0, <2>1, <2>2, <2>4, EnqueueLemma
<1>8. CASE CoverOrUncover \/ UNCHANGED stackVars
  BY <1>0, <1>8 DEF CoverOrUncover, stackVars
<1> QED  BY <1>0, <1>3, <1>4, <1>5, <1>6, <1>7, <1>8 DEF StackNext

\* After every step a card waits only while the stack is full, and a new card closes neither a proposal, which is the
\* user's to answer, nor a result that was seen too shortly (noticeQueue.ts), for a stack of any size.
THEOREM CardsTakeTurnsTheorem == StackSpec => CardsTakeTurns
<1>1. StackInit => StackInv
  <2> SUFFICES ASSUME StackInit  PROVE StackInv
    OBVIOUS
  <2>1. cards = <<>> /\ arrivals = 0 /\ MaxVisible \in Nat \ {0} /\ MaxArrivals \in Nat
    BY NoticeStackAssumption DEF StackInit
  <2>2. ShownPlaces(cards) = {} /\ WaitingPlaces(cards) = {}
    BY <2>1 DEF ShownPlaces, WaitingPlaces
  <2>3. Cardinality(ShownPlaces(cards)) = 0
    BY <2>2, FS_EmptySet
  <2> QED  BY <2>1, <2>2, <2>3 DEF StackInv, RoomIsUsed
<1>2. StackInv /\ [StackNext]_stackVars => StackInv'
  BY StackInvNext
<1>3. StackInv /\ [StackNext]_stackVars =>
        [/\ RoomIsUsed'
         /\ arrivals' # arrivals =>
              \A c \in ToSet(cards) :
                ~c.leaving /\ (c.kind = "proposal" \/ c.young) =>
                  \E d \in ToSet(cards') : d.id = c.id /\ ~d.leaving]_stackVars
  <2> SUFFICES ASSUME StackInv, [StackNext]_stackVars
               PROVE  /\ RoomIsUsed'
                      /\ arrivals' # arrivals =>
                           \A c \in ToSet(cards) :
                             ~c.leaving /\ (c.kind = "proposal" \/ c.young) =>
                               \E d \in ToSet(cards') : d.id = c.id /\ ~d.leaving
    OBVIOUS
  <2>1. RoomIsUsed'
    BY StackInvNext DEF StackInv
  <2>2. ASSUME arrivals' # arrivals, NEW c \in ToSet(cards), ~c.leaving, c.kind = "proposal" \/ c.young
        PROVE  \E d \in ToSet(cards') : d.id = c.id /\ ~d.leaving
    <3>1. PICK i \in DOMAIN cards : c = cards[i]
      BY <2>2, Zenon DEF ToSet
    <3>2. PICK k \in DOMAIN cards' : cards'[k].id = cards[i].id /\ ~cards'[k].leaving
      BY <2>2, <3>1, StackInvNext DEF Stays
    <3>3. cards'[k] \in ToSet(cards')
      BY Zenon DEF ToSet
    <3> QED  BY <3>1, <3>2, <3>3
  <2> QED  BY <2>1, <2>2
<1> QED  BY <1>1, <1>2, <1>3, PTL DEF StackSpec, CardsTakeTurns
=============================================================================
