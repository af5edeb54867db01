-------------------------- MODULE OperationNotices --------------------------
(*****************************************************************************)
(* The notices of operations that take long, tidying the wiki (lint) and     *)
(* rolling a change back (restore): a loop of polls compares what it finds   *)
(* with what it found before (useOperationNotifications.ts), the page that   *)
(* asked for a lint tells its end itself (usePendingWorkNotifications.ts),   *)
(* and a filter lets each operation through once (operationNoticeFilter.ts). *)
(* The filter of the code forgets all but the newest 200 operations (:20);   *)
(* here it keeps them all: the code counts on no notice of one so old (:3).  *)
(*****************************************************************************)
EXTENDS Integers, FiniteSets

CONSTANTS
  Lints, Restores,   (* The operations, by type.                             *)
  MaxPollTrouble,    (* Bounds the polls and answers that fail.              *)
  MaxSwitches        (* Bounds how often the user switches a kind on or off. *)

ASSUME OperationNoticesAssumption ==
  /\ Lints \intersect Restores = {}
  /\ MaxPollTrouble \in Nat /\ MaxSwitches \in Nat

VARIABLES
  progress,    (* External: how far each operation is.                       *)
  watched,     (* watchLint, watchRestore: the kinds that are switched on.   *)
  hidden,      (* The tab is not seen.                                       *)
  loop,        (* The loop of polls.                                         *)
  requested,   (* The lints this page asked for and waits for.               *)
  passed,      (* shownIds of the filter.                                    *)
  told,        (* History: the cards that name each operation.               *)
  owed,        (* History: the operations that were found running since the  *)
               (* loop began, and of which nothing was told.                 *)
  pollTrouble, switches

operationVars == <<progress, watched, hidden, loop, requested, passed, told, owed, pollTrouble, switches>>

Operations == Lints \union Restores
Kinds == {"lint", "restore"}
KindOf(o) == IF o \in Lints THEN "lint" ELSE "restore"
IsWatched(o) == KindOf(o) \in watched

(* The lookups of one poll, which the server answers one by one: the list of *)
(* what has ended, and one list for each state of what runs.                 *)
RunningStates(k) == IF k = "lint" THEN {"running"} ELSE {"running", "rebuilding"}
Lookups == {<<"ended", "all">>} \union {<<s, k>> : s \in {"running", "rebuilding"}, k \in Kinds}
LookupsOf(ws) == {l \in Lookups : l[2] = "all" \/ (l[2] \in ws /\ l[1] \in RunningStates(l[2]))}

Nothing == [o \in Operations |-> "unknown"]
NoAnswers == [l \in Lookups |-> {}]

(* stage: waiting (for its timer), slow (the timer of a tab that is not      *)
(* seen), paused, asking, or off.  known: the last answers, once there are   *)
(* any (based).  found: whether the last answers held anything that runs.    *)
Loop == [stage : {"off", "asking", "waiting", "slow", "paused"}, based : BOOLEAN,
         known : [Operations -> {"unknown", "active", "ended"}], found : BOOLEAN,
         open : SUBSET Lookups, answers : [Lookups -> SUBSET Operations]]

FirstPoll(ws) ==
  [stage |-> IF ws = {} THEN "off" ELSE "asking", based |-> FALSE, known |-> Nothing, found |-> FALSE,
   open |-> IF ws = {} THEN {} ELSE LookupsOf(ws), answers |-> NoAnswers]

OperationInit ==
  /\ progress = [o \in Operations |-> "none"]
  /\ watched \in SUBSET Kinds
  /\ hidden = FALSE
  /\ loop = FirstPoll(watched)
  /\ requested = {} /\ passed = {} /\ owed = {}
  /\ told = [o \in Operations |-> 0]
  /\ pollTrouble = 0 /\ switches = 0

-----------------------------------------------------------------------------
(* The operations.                                                           *)

Begins(o) ==
  /\ progress[o] = "none"
  /\ progress' = [progress EXCEPT ![o] = "running"]

(* External: another member, or the server by itself.                        *)
BeginsElsewhere(o) ==
  /\ Begins(o)
  /\ UNCHANGED <<watched, hidden, loop, requested, passed, told, owed, pollTrouble, switches>>

(* requestWikiLint, from the card that proposes it.                          *)
RequestLint(o) ==
  /\ o \in Lints
  /\ Begins(o)
  /\ requested' = requested \union {o}
  /\ UNCHANGED <<watched, hidden, loop, passed, told, owed, pollTrouble, switches>>

(* External: the operation goes on, or ends.                                 *)
GoesOn(o) ==
  /\ \/ /\ o \in Restores /\ progress[o] = "running"
        /\ progress' = [progress EXCEPT ![o] = "rebuilding"]
     \/ /\ progress[o] \in {"running", "rebuilding"}
        /\ progress' = [progress EXCEPT ![o] = "ended"]
  /\ UNCHANGED <<watched, hidden, loop, requested, passed, told, owed, pollTrouble, switches>>

-----------------------------------------------------------------------------
(* What is told.                                                             *)

Passes_All(O) == O \intersect {o \in Operations : IsWatched(o)}  \* Mutant: the filter forgets.

(* pushNotice: a kind that is off is dropped before the filter remembers it. *)
Passes(O) == {o \in O : IsWatched(o) /\ o \notin passed}

Tell(O) ==
  /\ passed' = passed \union Passes(O)
  /\ told' = [o \in Operations |-> told[o] + IF o \in Passes(O) THEN 1 ELSE 0]

(* The lint that this page asked for has ended: it says so itself.           *)
LintAnswered(o) ==
  /\ o \in requested /\ progress[o] = "ended"
  /\ requested' = requested \ {o}
  /\ Tell({o})
  /\ owed' = owed \ passed'
  /\ UNCHANGED <<progress, watched, hidden, loop, pollTrouble, switches>>

(* It ended with a failure, or its lookups fail or last too long: a notice   *)
(* of failure that names no operation.                                       *)
LintUnanswered(o) ==
  /\ o \in requested
  /\ \/ progress[o] = "ended" /\ UNCHANGED pollTrouble
     \/ pollTrouble < MaxPollTrouble /\ pollTrouble' = pollTrouble + 1
  /\ requested' = requested \ {o}
  /\ UNCHANGED <<progress, watched, hidden, loop, passed, told, owed, switches>>

-----------------------------------------------------------------------------
(* The loop.                                                                 *)

(* External: one lookup is answered with what is in its state now.           *)
AnswerLookup(l) ==
  /\ l \in loop.open
  /\ loop' = [loop EXCEPT !.open = @ \ {l},
                          !.answers[l] = {o \in Operations : progress[o] = l[1] /\ (IF l[2] = "all" THEN IsWatched(o) ELSE KindOf(o) = l[2])}]
  /\ UNCHANGED <<progress, watched, hidden, requested, passed, told, owed, pollTrouble, switches>>

(* schedule: soon while something runs, also in a tab that is not seen;      *)
(* without, such a tab waits until it is seen.                               *)
Scheduled(found) == IF ~hidden THEN "waiting" ELSE IF found THEN "slow" ELSE "paused"

EndedFound == loop.answers[<<"ended", "all">>]
RunningFound == UNION {loop.answers[l] : l \in Lookups \ {<<"ended", "all">>}}

(* What has ended and was not known to: it was running, or not there at all. *)
NewlyEnded == {o \in EndedFound : loop.known[o] # "ended"}

(* The answers of all lookups.  An operation that ends between two of them   *)
(* is in both lists, and counts as running, or in none.                      *)
PollSucceeds ==
  /\ loop.stage = "asking" /\ loop.open = {}
  /\ Tell(IF loop.based THEN NewlyEnded ELSE {})
  /\ owed' = (owed \union {o \in RunningFound : IsWatched(o)}) \ passed'
  /\ loop' = [stage |-> Scheduled(RunningFound # {}), based |-> TRUE, found |-> RunningFound # {},
              known |-> [o \in Operations |-> IF o \in RunningFound THEN "active"
                                              ELSE IF o \in EndedFound THEN "ended" ELSE "unknown"],
              open |-> {}, answers |-> NoAnswers]
  /\ UNCHANGED <<progress, watched, hidden, requested, pollTrouble, switches>>

PollFails ==
  /\ loop.stage = "asking"
  /\ pollTrouble < MaxPollTrouble /\ pollTrouble' = pollTrouble + 1
  /\ loop' = [loop EXCEPT !.stage = Scheduled(loop.found), !.open = {}, !.answers = NoAnswers]
  /\ UNCHANGED <<progress, watched, hidden, requested, passed, told, owed, switches>>

Polls == [loop EXCEPT !.stage = "asking", !.open = LookupsOf(watched), !.answers = NoAnswers]

PollTimer ==
  /\ loop.stage \in {"waiting", "slow"}
  /\ loop' = Polls
  /\ UNCHANGED <<progress, watched, hidden, requested, passed, told, owed, pollTrouble, switches>>

(* visibilitychange; resumeWhenVisible polls at once if the loop was paused  *)
(* or slow.                                                                  *)
HideOrShow ==
  /\ hidden' = ~hidden
  /\ loop' = IF hidden /\ loop.stage \in {"slow", "paused"} THEN Polls ELSE loop
  /\ UNCHANGED <<progress, watched, requested, passed, told, owed, pollTrouble, switches>>

(* A kind is switched on or off: the effect begins a loop of its own, whose  *)
(* first answers are what is compared with; the old one's are dropped.       *)
SwitchKind(k) ==
  /\ switches < MaxSwitches /\ switches' = switches + 1
  /\ watched' = IF k \in watched THEN watched \ {k} ELSE watched \union {k}
  /\ loop' = FirstPoll(watched')
  /\ owed' = {}
  /\ UNCHANGED <<progress, hidden, requested, passed, told, pollTrouble>>

OperationNext ==
  \/ \E o \in Operations : \/ BeginsElsewhere(o) \/ RequestLint(o) \/ GoesOn(o)
                           \/ LintAnswered(o) \/ LintUnanswered(o)
  \/ \E l \in Lookups : AnswerLookup(l)
  \/ PollSucceeds \/ PollFails \/ PollTimer \/ HideOrShow
  \/ \E k \in Kinds : SwitchKind(k)

OperationSpec == OperationInit /\ [][OperationNext]_operationVars

(* Lookups are answered or fail, timers fire and operations end.  Nobody     *)
(* need ever look at the tab again.                                          *)
OperationFairness ==
  /\ \A l \in Lookups : WF_operationVars(AnswerLookup(l))
  /\ WF_operationVars(PollSucceeds) /\ WF_operationVars(PollTimer)
  /\ \A o \in Operations : WF_operationVars(GoesOn(o))

-----------------------------------------------------------------------------
OperationTypeOK ==
  /\ progress \in [Operations -> {"none", "running", "rebuilding", "ended"}]
  /\ watched \subseteq Kinds /\ hidden \in BOOLEAN
  /\ loop \in Loop
  /\ loop.stage = "off" <=> watched = {}
  /\ loop.open # {} => loop.stage = "asking"
  /\ requested \subseteq Lints /\ passed \subseteq Operations /\ owed \subseteq Operations
  /\ pollTrouble \in 0..MaxPollTrouble /\ switches \in 0..MaxSwitches

(* No two notices name the same operation, although the page that asked for  *)
(* it and the loop both learn of its end, and although an operation that     *)
(* ends while a poll looks is found running and ended at once and so ends    *)
(* twice (operationNoticeFilter.ts:8).                                       *)
EndIsToldOnce == \A o \in Operations : told[o] <= 1

(* What was found running is told when it has ended, whatever fails and      *)
(* whatever a torn poll missed, in a tab that is not seen too as long as the *)
(* loop goes on there.                                                       *)
EndIsTold == owed # {} ~> owed = {} \/ (hidden /\ loop.stage = "paused")
=============================================================================
