----------------------------- MODULE NoticeStack -----------------------------
(*****************************************************************************)
(* The stack of notice cards (features/document-notifications/model/         *)
(* noticeQueue.ts and useDocumentProcessingNotifications.ts).  A result      *)
(* closes by itself, a proposal waits for the user.  A card for which        *)
(* there is no room pushes an old result out, or makes another card wait.    *)
(*****************************************************************************)
EXTENDS Integers, FiniteSets, SequencesExt

CONSTANTS
  MaxVisible,  (* MAX_VISIBLE_NOTICES, 2 in the code.                        *)
  MaxArrivals  (* Bounds the notices that are published.                     *)

ASSUME NoticeStackAssumption == MaxVisible \in Nat \ {0} /\ MaxArrivals \in Nat

VARIABLES
  cards,       (* notices: the cards in the order in which they came.        *)
  covered,     (* isPaused: another panel lies over the stack.               *)
  calm,        (* reduceMotion: what is closed is removed at once.           *)
  arrivals     (* How many notices were published; the last one's id.        *)

stackVars == <<cards, covered, calm, arrivals>>

CardKinds == {"result", "proposal"}
(* young: a result that was shown for less than NOTICE_MIN_VISIBLE_MS.       *)
Card == [id : 1..MaxArrivals, kind : CardKinds, parked : BOOLEAN, leaving : BOOLEAN, young : BOOLEAN]

IsShown(c) == ~c.leaving /\ ~c.parked
Waits(c) == c.parked /\ ~c.leaving
Appears(c) == [c EXCEPT !.parked = FALSE, !.young = c.kind = "result"]

StackInit ==
  /\ cards = <<>>
  /\ covered = FALSE
  /\ calm \in BOOLEAN
  /\ arrivals = 0

ShownPlaces(cs) == {i \in DOMAIN cs : IsShown(cs[i])}
WaitingPlaces(cs) == {i \in DOMAIN cs : Waits(cs[i])}
Room(cs) == MaxVisible - Cardinality(ShownPlaces(cs))

(* How many of the places S come before i.                                  *)
Rank(S, i) == Cardinality({j \in S : j < i})

(* promoteParkedNotices: the cards that wait come back in their order, as    *)
(* many as there is room for.                                                *)
Promote(cs) ==
  [i \in DOMAIN cs |->
     IF Waits(cs[i]) /\ Rank(WaitingPlaces(cs), i) < Room(cs)
     THEN Appears(cs[i]) ELSE cs[i]]

(* Closing: the card leaves, and is removed after its animation.             *)
Close(cs, i) ==
  IF calm THEN RemoveAt(cs, i) ELSE [cs EXCEPT ![i].leaving = TRUE]

(* The cards of the other kind, in their order: SelectSeq by rank, to have a *)
(* count of the places.                                                      *)
Without(cs, k) ==
  LET places == {i \in DOMAIN cs : cs[i].kind # k}
  IN [n \in 1..Cardinality(places) |-> cs[CHOOSE i \in places : Rank(places, i) = n - 1]]

Oldest(S) == CHOOSE i \in S : \A j \in S : i <= j

IsGivingWay_Any(c) == c.kind = "result"  \* Mutant: a result gives way however short it was seen.

(* A result that was seen long enough may be closed for a new card.          *)
IsGivingWay(c) == c.kind = "result" /\ ~c.young

(* enqueueNotice: the new card is shown.  Of the others that are, at most    *)
(* MaxVisible, one gives way: the oldest result that was seen, or else the   *)
(* oldest card, which waits.                                                 *)
Enqueue(cs, c) ==
  LET shown == ShownPlaces(cs)
      seen == {i \in shown : IsGivingWay(cs[i])}
  IN IF Cardinality(shown) < MaxVisible THEN Append(cs, c)
     ELSE IF seen # {} THEN Append(Close(cs, Oldest(seen)), c)
     ELSE Append([cs EXCEPT ![Oldest(shown)].parked = TRUE], c)

-----------------------------------------------------------------------------

(* publishNotice and pushNotice.                                             *)
Publish(k) ==
  /\ arrivals < MaxArrivals
  /\ arrivals' = arrivals + 1
  /\ cards' = Enqueue(cards, Appears([id |-> arrivals', kind |-> k, parked |-> FALSE,
                                      leaving |-> FALSE, young |-> FALSE]))
  /\ UNCHANGED <<covered, calm>>

(* NOTICE_MIN_VISIBLE_MS have passed since the card appeared.                *)
Ripen(i) ==
  /\ cards[i].young
  /\ cards' = [cards EXCEPT ![i].young = FALSE]
  /\ UNCHANGED <<covered, calm, arrivals>>

CloseCard(i) ==
  /\ cards' = Promote(Close(cards, i))
  /\ UNCHANGED <<covered, calm, arrivals>>

(* dismissNotice: one of the buttons of the card.                            *)
PressButton(i) == IsShown(cards[i]) /\ ~covered /\ CloseCard(i)

(* The timer of a result that is shown; no timer runs while the stack is     *)
(* covered, and new ones are set when it is seen again.                      *)
TimeIsUp(i) ==
  /\ IsShown(cards[i]) /\ cards[i].kind = "result" /\ ~cards[i].young
  /\ ~covered
  /\ CloseCard(i)

(* The documents of a proposal are gone, or the permission it needs: also    *)
(* that of a card that waits (reconcileNotices, selectPermissionRevokedIds). *)
Withdraw(i) == cards[i].kind = "proposal" /\ ~cards[i].leaving /\ CloseCard(i)

(* The end of the animation.                                                 *)
Exit(i) ==
  /\ cards[i].leaving
  /\ cards' = Promote(RemoveAt(cards, i))
  /\ UNCHANGED <<covered, calm, arrivals>>

(* The user turns one kind of notices off: its cards go at once.             *)
TurnOff(k) ==
  /\ \E i \in DOMAIN cards : cards[i].kind = k
  /\ cards' = Promote(Without(cards, k))
  /\ UNCHANGED <<covered, calm, arrivals>>

CoverOrUncover ==
  /\ covered' = ~covered
  /\ UNCHANGED <<cards, calm, arrivals>>

StackNext ==
  \/ \E k \in CardKinds : Publish(k) \/ TurnOff(k)
  \/ \E i \in DOMAIN cards : Ripen(i) \/ PressButton(i) \/ TimeIsUp(i) \/ Withdraw(i) \/ Exit(i)
  \/ CoverOrUncover

StackSpec == StackInit /\ [][StackNext]_stackVars

(* Time passes, and its timers fire; of the user nothing is assumed.         *)
StackFairness ==
  \A i \in 1..MaxArrivals :
    WF_stackVars(i \in DOMAIN cards /\ (Ripen(i) \/ TimeIsUp(i) \/ Exit(i)))

-----------------------------------------------------------------------------
StackTypeOK ==
  /\ cards \in Seq(Card) /\ Len(cards) <= arrivals
  /\ arrivals \in 0..MaxArrivals
  /\ Cardinality(ShownPlaces(cards)) <= MaxVisible
  /\ \A i, j \in DOMAIN cards : i < j => cards[i].id < cards[j].id

RoomIsUsed == WaitingPlaces(cards) # {} => Room(cards) = 0

(* After every step a card waits only while the stack is full, and no new    *)
(* card closes a proposal, which is the user's to answer, or a result that   *)
(* was seen too shortly (noticeQueue.ts:25, and the case of quality          *)
(* assurance in noticeQueue.test.mjs:47).                                    *)
CardsTakeTurns ==
  [][/\ RoomIsUsed'
     /\ arrivals' # arrivals =>
          \A c \in ToSet(cards) :
            ~c.leaving /\ (c.kind = "proposal" \/ c.young) => \E d \in ToSet(cards') : d.id = c.id /\ ~d.leaving]_stackVars

(* Results that are shown go by themselves: whatever covers the stack for a  *)
(* while, their timers are set again.                                        *)
ShownResults == {c \in ToSet(cards) : c.kind = "result" /\ IsShown(c)}
ResultsLeave == ShownResults # {} ~> ShownResults = {} \/ covered
=============================================================================
