---------------------------- MODULE IngestPrompts ----------------------------
(*****************************************************************************)
(* The cards that propose to take new documents into the wiki                *)
(* (usePendingWorkNotifications.ts): documents that wait when the page is    *)
(* opened, documents that begin to wait while it is open, and a reminder     *)
(* for what still waits.  What was proposed is remembered in the browser,    *)
(* so that a reload does not propose it again.                               *)
(*****************************************************************************)
EXTENDS Naturals

CONSTANTS
  Docs,
  MaxWaits,    (* Bounds how often a document begins to wait.                *)
  MaxCloses    (* Bounds how often the page is closed, or reloaded.          *)

ASSUME IngestPromptsAssumption == MaxWaits \in Nat /\ MaxCloses \in Nat

VARIABLES
  state,       (* External: the documents; some wait for their first ingest. *)
  waitListed,  (* Those that wait in the list that the page has.             *)
  page,        (* What the page remembers, see Page.                         *)
  remembered,  (* localStorage: what was proposed, and what was reminded of. *)
  promptCards, (* The cards, each with the documents it is about.            *)
  quiet,       (* INGEST_STALL_MS have passed since a document was seen      *)
               (* waiting, and since its last card went.                     *)
  proposed,    (* History: the proposals of a document in this wait,         *)
  reminded,    (* and the reminders.                                         *)
  returned,    (* History: the documents whose wait began while the timer    *)
               (* still had them from a wait that the page saw end.          *)
  waits, closes

promptVars == <<state, waitListed, page, remembered, promptCards, quiet, proposed, reminded, returned, waits, closes>>

(* known: the documents of the first list and of all since; queue: what the  *)
(* timer (INGEST_PROMPT_DEBOUNCE_MS) will propose; seen: uploadedFirstSeen.  *)
Page == [open : BOOLEAN, loaded : BOOLEAN, known : SUBSET Docs, prompted : SUBSET Docs, stalled : SUBSET Docs,
         queue : SUBSET Docs, timer : BOOLEAN, seen : SUBSET Docs]

(* A page that was just opened, with what it restores.                       *)
Opened(memory) ==
  [open |-> TRUE, loaded |-> FALSE, known |-> {}, prompted |-> memory.prompted, stalled |-> memory.stalled,
   queue |-> {}, timer |-> FALSE, seen |-> {}]

NoMemory == [prompted |-> {}, stalled |-> {}]
Closed == [Opened(NoMemory) EXCEPT !.open = FALSE]
NoneYet == [d \in Docs |-> 0]

PromptInit ==
  /\ state \in [Docs -> {"absent", "other"}] /\ waitListed = {}
  /\ page = Closed /\ remembered = NoMemory
  /\ promptCards = {} /\ quiet = {}
  /\ proposed = NoneYet /\ reminded = NoneYet /\ returned = {}
  /\ waits = 0 /\ closes = 0

-----------------------------------------------------------------------------
(* The documents.                                                            *)

Waiting == {d \in Docs : state[d] = "waiting"}

(* One is uploaded or written, or waits again (isAwaitingFirstIngest).  It   *)
(* returns when the timer has it and checkStalledUploads has forgotten it.   *)
BeginsToWait(d) ==
  /\ state[d] # "waiting" /\ waits < MaxWaits /\ waits' = waits + 1
  /\ state' = [state EXCEPT ![d] = "waiting"]
  /\ proposed' = [proposed EXCEPT ![d] = 0] /\ reminded' = [reminded EXCEPT ![d] = 0]
  /\ returned' = IF d \in page.queue \ page.prompted THEN returned \union {d} ELSE returned \ {d}
  /\ UNCHANGED <<waitListed, page, remembered, promptCards, quiet, closes>>

(* Its ingest begins, from a card or elsewhere, or it is removed.            *)
StopsWaiting(d) ==
  /\ state[d] = "waiting"
  /\ state' \in {[state EXCEPT ![d] = s] : s \in {"absent", "other"}}
  /\ UNCHANGED <<waitListed, page, remembered, promptCards, quiet, proposed, reminded, returned, waits, closes>>

-----------------------------------------------------------------------------
(* Cards.                                                                    *)

Shown == UNION promptCards
OneMore(f, D) == [d \in Docs |-> IF d \in D THEN f[d] + 1 ELSE f[d]]
Published(cs, D) == IF D = {} THEN cs ELSE cs \union {D}

(* A card goes by one of its buttons.                                        *)
AnswerCard(c) ==
  /\ promptCards' = promptCards \ {c}
  /\ quiet' = quiet \ c
  /\ UNCHANGED <<state, waitListed, page, remembered, proposed, reminded, returned, waits, closes>>

-----------------------------------------------------------------------------
(* The page.                                                                 *)

(* The reminder: what is due, for a page that remembers p.                   *)
Stalled(p, l) == (l \intersect p.seen \intersect quiet) \ (p.stalled \union Shown)

(* checkStalledUploads: what waits is seen from now on, and what does not is *)
(* forgotten.                                                                *)
Checked(p, l) ==
  LET gone == p.seen \ l
  IN [p EXCEPT !.seen = l, !.stalled = (@ \union Stalled(p, l)) \ gone, !.prompted = @ \ gone]

MemoryOf_Reminders(p) == [prompted |-> {}, stalled |-> p.stalled]  \* Mutant: proposals are not stored.

MemoryOf(p) == [prompted |-> p.prompted, stalled |-> p.stalled]

(* New lists are looked at: fresh documents are queued, those of the first   *)
(* list are proposed at once.  Both are remembered before they are proposed. *)
Fresh(l) == l \ (page.prompted \union page.known)

WaitListArrives ==
  LET l == Waiting
      first == ~page.loaded
      fresh == Fresh(l)
      p == [page EXCEPT !.loaded = TRUE, !.known = @ \union {d \in Docs : state[d] # "absent"}, !.prompted = @ \union fresh,
                        !.queue = IF first THEN @ ELSE @ \union fresh,
                        !.timer = @ \/ (~first /\ fresh # {})]
      initial == IF first THEN fresh ELSE {}
      stalled == Stalled(p, l)
      kept == {c \intersect l : c \in promptCards} \ {{}}
  IN /\ page.open
     /\ waitListed' = l
     /\ page' = Checked(p, l)
     /\ remembered' = MemoryOf(page')
     /\ promptCards' = Published(Published(kept, initial), stalled)
     /\ proposed' = OneMore(proposed, initial) /\ reminded' = OneMore(reminded, stalled)
     /\ quiet' = quiet \intersect l \intersect p.seen
     /\ UNCHANGED <<state, returned, waits, closes>>

(* The interval looks again.                                                 *)
CheckStalled ==
  LET stalled == Stalled(page, waitListed)
  IN /\ page.open
     /\ page' = Checked(page, waitListed)
     /\ remembered' = MemoryOf(page')
     /\ promptCards' = Published(promptCards, stalled)
     /\ reminded' = OneMore(reminded, stalled)
     /\ quiet' = quiet \intersect page.seen
     /\ UNCHANGED <<state, waitListed, proposed, returned, waits, closes>>

(* The timer proposes what is queued and still waits.                        *)
PromptTimer ==
  /\ page.timer
  /\ page' = [page EXCEPT !.timer = FALSE, !.queue = {}]
  /\ promptCards' = Published(promptCards, page.queue \intersect waitListed)
  /\ proposed' = OneMore(proposed, page.queue \intersect waitListed)
  /\ UNCHANGED <<state, waitListed, remembered, quiet, reminded, returned, waits, closes>>

TimePasses(d) ==
  /\ d \in page.seen \ (quiet \union Shown)
  /\ quiet' = quiet \union {d}
  /\ UNCHANGED <<state, waitListed, page, remembered, promptCards, proposed, reminded, returned, waits, closes>>

OpenPage ==
  /\ ~page.open
  /\ page' = Opened(remembered)
  /\ UNCHANGED <<state, waitListed, remembered, promptCards, quiet, proposed, reminded, returned, waits, closes>>

(* A reload closes the page and opens it at once.                            *)
ClosePage ==
  /\ page.open
  /\ closes < MaxCloses /\ closes' = closes + 1
  /\ page' = Closed
  /\ waitListed' = {} /\ promptCards' = {} /\ quiet' = {}
  /\ UNCHANGED <<state, remembered, proposed, reminded, returned, waits>>

PromptNext ==
  \/ \E d \in Docs : BeginsToWait(d) \/ StopsWaiting(d) \/ TimePasses(d)
  \/ \E c \in promptCards : AnswerCard(c)
  \/ WaitListArrives \/ CheckStalled \/ PromptTimer \/ OpenPage \/ ClosePage

PromptSpec == PromptInit /\ [][PromptNext]_promptVars

(* The list is polled and the timers fire; no card need ever be answered.    *)
PromptFairness ==
  /\ WF_promptVars(WaitListArrives) /\ WF_promptVars(CheckStalled) /\ WF_promptVars(PromptTimer)
  /\ \A d \in Docs : WF_promptVars(TimePasses(d))

-----------------------------------------------------------------------------
PromptTypeOK ==
  /\ state \in [Docs -> {"absent", "waiting", "other"}]
  /\ waitListed \subseteq Docs /\ page \in Page
  /\ remembered \in [prompted : SUBSET Docs, stalled : SUBSET Docs]
  /\ page.loaded => remembered = MemoryOf(page)
  /\ promptCards \subseteq SUBSET Docs \ {{}}
  /\ quiet \subseteq page.seen /\ page.seen \subseteq waitListed
  /\ (page.queue # {} => page.timer)
  /\ returned \subseteq Docs
  /\ waits \in 0..MaxWaits /\ closes \in 0..MaxCloses

(* While a document waits it is proposed once and reminded of once, however  *)
(* often the page is reloaded (usePendingWorkNotifications.ts:20).  The      *)
(* exception is one that returned: the timer proposes it although the memory *)
(* has forgotten it (:283-288), and so the next page proposes it once more.  *)
MayBeProposed(d) == IF d \in returned THEN 2 ELSE 1
ProposedOnce == \A d \in Docs : proposed[d] <= MayBeProposed(d) /\ reminded[d] <= 1

(* While a page stays open, a document that waits is proposed or reminded    *)
(* of, although an earlier page lost what its timer was to propose; unless   *)
(* the memory holds that it was reminded of in an earlier wait, the end of   *)
(* which no page saw.                                                        *)
Unnoticed == {d \in Waiting \ (Shown \union page.stalled) : proposed[d] + reminded[d] = 0}
WaitIsNoticed == page.open /\ Unnoticed # {} ~> ~page.open \/ Unnoticed = {}
=============================================================================
