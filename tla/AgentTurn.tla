----------------------------- MODULE AgentTurn -----------------------------
(***************************************************************************)
(* A turn of the agent in the work tab (useAgentTurn.ts, useComposerStop.ts *)
(* and what AgentPanel.tsx wires between them): it is asked, followed to    *)
(* its end, stopped with Esc or closed, followed again when its end could   *)
(* not be seen, and its proposal is applied, refused, set aside, reopened   *)
(* or, when the user's settings allow it, applied without asking.           *)
(* A turn is the number of its question; the text of questions, proposals   *)
(* and documents is left out, and so is the lock of the input by messages   *)
(* that the list still shows as pending: the list may be older than them.   *)
(***************************************************************************)
EXTENDS Integers, FiniteSets

CONSTANTS MaxTurns,        (* Questions that are asked.                      *)
          MaxStops,        (* Times that a turn is stopped or closed.        *)
          MaxTurnTrouble   (* Requests that fail, and ends that stay unseen. *)

ASSUME TurnAssumption == MaxTurns \in Nat \ {0} /\ MaxStops \in Nat /\ MaxTurnTrouble \in Nat

VARIABLES panel,    (* The state and the refs of the hooks.                   *)
          closing,  (* For each turn, whether the user closed it.             *)
          turns,    (* The turns at the Agent service.                        *)
          setting,  (* The setting that edits need no approval.               *)
          spent,    (* What the bounds count.                                 *)
          past      (* What the properties remember.                          *)

turnVars == <<panel, closing, turns, setting, spent, past>>

Turns == 1 .. MaxTurns
NoTurn == 0
Proposals == {"edit", "create"}
Ended == Proposals \cup {"answer", "failed", "cancelled"}
Outcomes == {"none", "applied", "auto_applied", "rejected", "cancelled"}

TurnInit ==
  /\ setting \in BOOLEAN
  /\ panel = [request |-> NoTurn, response |-> NoTurn, turnId |-> NoTurn, unconfirmed |-> NoTurn,
              loading |-> FALSE, stage |-> "none", follows |-> NoTurn,
              stop |-> "none", stopTurn |-> NoTurn, making |-> NoTurn, makes |-> "none",
              aside |-> {}, decided |-> {}, manual |-> {}, stopped |-> {},
              outcome |-> [t \in Turns |-> "none"],
              approval |-> IF setting THEN "on" ELSE "off"]
  /\ closing = [t \in Turns |-> "no"]
  /\ turns = [t \in Turns |-> "none"]
  /\ spent = [stops |-> 0, trouble |-> 0]
  /\ past = [escaped |-> {}, replaced |-> {}, overlaid |-> FALSE, allowed |-> FALSE]

TurnTrouble == spent.trouble < MaxTurnTrouble /\ spent' = [spent EXCEPT !.trouble = @ + 1]
-----------------------------------------------------------------------------
(* Following a turn.                                                         *)

FollowingTurn(p) == IF p.loading THEN p.turnId ELSE NoTurn

StopFollowing(p) ==
  [p EXCEPT !.stage = "none", !.follows = NoTurn, !.stopped = @ \cup ({p.turnId} \ {NoTurn})]

CancelFollowing(p) == [StopFollowing(p) EXCEPT !.stop = "cancel", !.stopTurn = p.turnId]

(* The effect of an Esc that waits for the turn's ID.                        *)
AwaitEffect(p) ==
  IF p.stop # "await" THEN p
  ELSE IF FollowingTurn(p) # NoTurn THEN CancelFollowing(p)
  ELSE IF p.loading THEN p
  ELSE [p EXCEPT !.stop = "none"]

(* The panel is rendered with p. A stop that was waiting for the ID ends     *)
(* with it.                                                                  *)
ShowsPanel(p) == panel' = AwaitEffect(p)

Escaped(p) == past.escaped \cup IF p.stop = "await" /\ AwaitEffect(p).stop = "cancel"
                                THEN {p.follows} \ {NoTurn} ELSE {}

Ask(p, t) ==
  [p EXCEPT !.request = t, !.response = NoTurn, !.turnId = NoTurn, !.unconfirmed = NoTurn,
            !.loading = TRUE, !.stage = "post", !.follows = t, !.approval = "asked"]

\* Mutant: the setting that is known is taken for the turn that is followed again.
ResumeTurn_Trusts(p, t) ==
  [p EXCEPT !.unconfirmed = NoTurn, !.loading = TRUE, !.stage = "follow", !.follows = t]

ResumeTurn(p, t) ==
  [p EXCEPT !.unconfirmed = NoTurn, !.loading = TRUE, !.stage = "follow", !.follows = t,
            !.approval = "asked"]

(* What is followed again comes over what is shown, when that is something   *)
(* else than its question alone.                                             *)
Resumed(p, t) == [past EXCEPT !.allowed = setting,
                              !.overlaid = @ \/ p.request # t \/ p.response # NoTurn \/ p.making # NoTurn]
-----------------------------------------------------------------------------
(* Proposals.                                                                *)

(* The proposal that is open: shown, with its question, and not decided.     *)
OpenProposal(p) == IF p.request # NoTurn /\ p.response # NoTurn /\ p.makes # "auto"
                   THEN {<<p.request, p.response>>} ELSE {}

AsideTurns(p) == {pair[2] : pair \in p.aside}

\* Mutant: a follow-up question takes the place of the proposal.
SetAside_Drops(p) == p.aside

SetAside(p) == {pair \in p.aside : pair[2] # p.response} \cup OpenProposal(p)

Dismiss(p) == [p EXCEPT !.request = NoTurn, !.response = NoTurn]

Records(p, t, outcome) == [p EXCEPT !.outcome[t] = outcome]

Makes(p, kind) == [p EXCEPT !.making = p.response, !.makes = kind]

(* Applying without asking is allowed for the turn that is shown.            *)
AutoApplies(p) ==
  /\ p.approval = "on"
  /\ p.response \notin p.manual \cup p.stopped
  /\ p.outcome[p.response] \notin {"applied", "auto_applied"}
  /\ p.request # NoTurn

(* The effect that decides once about a proposal that is shown. An edit that *)
(* cannot be applied, for one of the other reasons, is left to the user.     *)
AutoDecisions(p) ==
  LET t == p.response
      q == [p EXCEPT !.decided = @ \cup {t}]
      byHand == [q EXCEPT !.manual = @ \cup {t}]
  IN  IF t = NoTurn \/ p.loading \/ t \in p.decided THEN {p}
      ELSE IF ~AutoApplies(p) THEN {byHand}
      ELSE {byHand, IF turns[t] = "create" THEN Makes(q, "auto")
                    ELSE Dismiss(Records(q, t, "auto_applied"))}
-----------------------------------------------------------------------------
(* The user.                                                                 *)

Asked == {t \in Turns : turns[t] # "none"}
CanAsk == Cardinality(Asked) < MaxTurns
NextTurn == Cardinality(Asked) + 1

Starts(p) ==
  /\ CanAsk
  /\ ShowsPanel(Ask(p, NextTurn))
  /\ turns' = [turns EXCEPT ![NextTurn] = "asked"]
  /\ UNCHANGED <<closing, setting, spent>>

(* A new question, from the input or for a task of the list that failed or   *)
(* has no answer.                                                            *)
SubmitTurn ==
  /\ ~panel.loading /\ panel.making = NoTurn
  /\ Starts([panel EXCEPT !.aside = SetAside(panel)])
  /\ past' = [past EXCEPT !.allowed = setting]

(* The question that is shown once more, as it is or with an instruction:    *)
(* its proposal is given up for the one to come.                             *)
Regenerate ==
  /\ panel.request # NoTurn /\ panel.making = NoTurn
  /\ panel.loading => panel.response # NoTurn /\ turns[panel.response] = "create"
  /\ Starts(panel)
  /\ past' = [past EXCEPT !.allowed = setting, !.replaced = @ \cup ({panel.response} \ {NoTurn})]

Recheck ==
  /\ panel.unconfirmed # NoTurn /\ ~panel.loading
  /\ ShowsPanel(ResumeTurn(panel, panel.unconfirmed))
  /\ past' = Resumed(panel, panel.unconfirmed)
  /\ UNCHANGED <<closing, turns, setting, spent>>

(* Esc while a turn is followed.                                             *)
Escape ==
  /\ panel.loading /\ panel.stop = "none"
  /\ spent.stops < MaxStops
  /\ spent' = [spent EXCEPT !.stops = @ + 1]
  /\ panel' = IF panel.turnId = NoTurn THEN [panel EXCEPT !.stop = "await"] ELSE CancelFollowing(panel)
  /\ past' = IF panel.turnId = NoTurn THEN past
             ELSE [past EXCEPT !.escaped = @ \cup ({panel.follows} \ {NoTurn})]
  /\ UNCHANGED <<closing, turns, setting>>

(* A turn of the list that has no answer is closed, with its button or Esc.  *)
(* The panel of this moment is what the answer will be compared with.        *)
CloseTurn(t) ==
  /\ turns[t] \notin {"none", "asked"} /\ t \notin panel.decided
  /\ closing[t] = "no" /\ t # FollowingTurn(panel)
  /\ spent.stops < MaxStops
  /\ spent' = [spent EXCEPT !.stops = @ + 1]
  /\ closing' = [closing EXCEPT ![t] = IF panel.unconfirmed = t THEN "unconfirmed" ELSE "listed"]
  /\ UNCHANGED <<panel, turns, setting, past>>

(* A proposal that was set aside is opened, in place of the one that is.     *)
Reopen(pair) ==
  /\ ~panel.loading /\ panel.making = NoTurn
  /\ pair \in panel.aside
  /\ ShowsPanel([panel EXCEPT !.aside = SetAside([panel EXCEPT !.aside = @ \ {pair}]),
                         !.request = pair[1], !.response = pair[2], !.turnId = pair[2]])
  /\ UNCHANGED <<closing, turns, setting, spent, past>>

(* A draft can be decided about while a turn is followed, an edit cannot.    *)
CanDecide ==
  /\ OpenProposal(panel) # {} /\ panel.making = NoTurn
  /\ panel.loading => turns[panel.response] = "create"

(* The proposal is applied to the document, refused or cancelled.            *)
Decide(outcome) ==
  /\ CanDecide
  /\ outcome = "cancelled" \/ turns[panel.response] = "edit"
  /\ ShowsPanel(Dismiss(Records(panel, panel.response, outcome)))
  /\ UNCHANGED <<closing, turns, setting, spent, past>>

(* A document is made of the proposal: of a draft, or of an edit.            *)
MakeDocumentOf ==
  /\ CanDecide
  /\ ShowsPanel(Makes(panel, turns[panel.response]))
  /\ UNCHANGED <<closing, turns, setting, spent, past>>

(* A visit to the chat tab, where the user does none of the above: a stop    *)
(* that still waits for the turn's ID is forgotten.                          *)
VisitChat ==
  /\ panel.stop = "await"
  /\ ShowsPanel([panel EXCEPT !.stop = "none"])
  /\ UNCHANGED <<closing, turns, setting, spent, past>>

(* Another conversation is opened, and this one again: what was shown is     *)
(* not shown any more.                                                       *)
LeaveConversation ==
  /\ panel.request # NoTurn /\ ~panel.loading /\ panel.making = NoTurn
  /\ ShowsPanel([Dismiss(panel) EXCEPT !.turnId = NoTurn, !.unconfirmed = NoTurn])
  /\ past' = [past EXCEPT !.replaced = @ \cup ({panel.response} \ {NoTurn})]
  /\ UNCHANGED <<closing, turns, setting, spent>>

(* The user withdraws the setting at another device.                         *)
WithdrawApproval ==
  /\ setting /\ setting' = FALSE
  /\ UNCHANGED <<panel, closing, turns, spent, past>>
-----------------------------------------------------------------------------
(* The services, and their answers.                                          *)

EndTurn(t) ==
  /\ turns[t] = "running"
  /\ \E end \in Proposals \cup {"answer", "failed"} : turns' = [turns EXCEPT ![t] = end]
  /\ UNCHANGED <<panel, closing, setting, spent, past>>

(* The service accepts the turn and answers with its ID; a stop that waits   *)
(* for it goes on.                                                           *)
TurnIsAccepted ==
  LET p == [panel EXCEPT !.stage = "follow", !.turnId = panel.follows]
  IN  /\ panel.stage = "post"
      /\ turns' = [turns EXCEPT ![panel.follows] = "running"]
      /\ ShowsPanel(p)
      /\ past' = [past EXCEPT !.escaped = Escaped(p)]
      /\ UNCHANGED <<closing, setting, spent>>

FollowEnds(p) == [p EXCEPT !.stage = "none", !.follows = NoTurn, !.loading = FALSE]

(* The question is refused, or its answer is lost: the panel has no ID.      *)
TurnNotAccepted ==
  /\ panel.stage = "post" /\ TurnTrouble
  /\ \E known \in {"failed", "running"} : turns' = [turns EXCEPT ![panel.follows] = known]
  /\ ShowsPanel(FollowEnds(panel))
  /\ UNCHANGED <<closing, setting, past>>

(* The turn has ended: with a result, after which the list is asked for, or  *)
(* not.                                                                      *)
TurnEnded ==
  /\ panel.stage = "follow" /\ turns[panel.follows] \in Ended
  /\ ShowsPanel(IF turns[panel.follows] \in {"failed", "cancelled"} THEN FollowEnds(panel)
           ELSE [panel EXCEPT !.stage = "refresh"])
  /\ UNCHANGED <<closing, turns, setting, spent, past>>

(* The stream and then the polls failed, or the turn takes too long.         *)
TurnLost ==
  /\ panel.stage = "follow" /\ TurnTrouble
  /\ ShowsPanel([FollowEnds(panel) EXCEPT !.unconfirmed = panel.follows])
  /\ UNCHANGED <<closing, turns, setting, past>>

(* The list is there: the result is shown, and it is decided about it.       *)
ResultShown ==
  LET t == panel.follows
      p == [FollowEnds(panel) EXCEPT !.response = IF turns[t] \in Proposals THEN t ELSE NoTurn]
  IN  /\ panel.stage = "refresh"
      /\ \E q \in AutoDecisions(p) : ShowsPanel(q)
      /\ UNCHANGED <<closing, turns, setting, spent, past>>

(* A request to cancel turn t is answered: accepted, refused because the     *)
(* turn has ended, or it fails and may have reached the service or not.      *)
Cancellable(t) == turns[t] \in {"running", "cancelled"}

CancelAccepted(t) == Cancellable(t) /\ turns' = [turns EXCEPT ![t] = "cancelled"] /\ UNCHANGED spent
CancelRefused(t) == ~Cancellable(t) /\ UNCHANGED <<turns, spent>>
CancelFails(t) ==
  /\ TurnTrouble
  /\ turns' \in {turns} \cup {[turns EXCEPT ![t] = "cancelled"] : u \in {v \in {t} : Cancellable(v)}}

StopAnswers ==
  LET t == panel.stopTurn
      p == [panel EXCEPT !.stop = "none", !.stopTurn = NoTurn]
  IN  /\ panel.stop = "cancel"
      /\ \/ /\ CancelAccepted(t)
            /\ ShowsPanel([p EXCEPT !.loading = FALSE])
            /\ UNCHANGED past
         \/ /\ CancelRefused(t) \/ CancelFails(t)
            /\ ShowsPanel(ResumeTurn(p, t))
            /\ past' = Resumed(p, t)
      /\ UNCHANGED <<closing, setting>>

ForgetTurn(p, t) == IF closing[t] = "unconfirmed" THEN [p EXCEPT !.unconfirmed = NoTurn] ELSE p

(* The answer to a close is handled with what the panel was when it was      *)
(* asked for.                                                                *)
CloseAnswers(t) ==
  /\ closing[t] \in {"listed", "unconfirmed"}
  /\ closing' = [closing EXCEPT ![t] = "closed"]
  /\ \/ /\ CancelRefused(t) /\ closing[t] = "unconfirmed"
        /\ ShowsPanel(ResumeTurn(panel, t))
        /\ past' = Resumed(panel, t)
     \/ /\ CancelAccepted(t) \/ CancelFails(t) \/ (CancelRefused(t) /\ closing[t] = "listed")
        /\ ShowsPanel(ForgetTurn(panel, t))
        /\ UNCHANGED past
  /\ UNCHANGED setting

(* The document is there, or it could not be made.                           *)
DocumentMade ==
  /\ panel.making # NoTurn
  /\ ShowsPanel([Dismiss(Records(panel, panel.making, IF panel.makes = "auto" THEN "auto_applied" ELSE "applied"))
              EXCEPT !.making = NoTurn, !.makes = "none"])
  /\ UNCHANGED <<closing, turns, setting, spent, past>>

DocumentNotMade ==
  /\ panel.making # NoTurn /\ TurnTrouble
  /\ ShowsPanel([panel EXCEPT !.making = NoTurn, !.makes = "none",
                         !.manual = IF panel.makes = "edit" THEN @ ELSE @ \cup {panel.making}])
  /\ UNCHANGED <<closing, turns, setting, past>>

(* The setting is known again, or the request for it failed.                 *)
ApprovalKnown ==
  /\ panel.approval = "asked"
  /\ \E known \in {"off"} \cup {IF setting THEN "on" ELSE "off"} : ShowsPanel([panel EXCEPT !.approval = known])
  /\ UNCHANGED <<closing, turns, setting, spent, past>>
-----------------------------------------------------------------------------
TurnNext ==
  \/ SubmitTurn \/ Regenerate \/ Recheck \/ Escape
  \/ \E t \in Turns : CloseTurn(t) \/ CloseAnswers(t) \/ EndTurn(t)
  \/ \E pair \in panel.aside : Reopen(pair)
  \/ \E outcome \in {"applied", "rejected", "cancelled"} : Decide(outcome)
  \/ MakeDocumentOf \/ DocumentMade \/ DocumentNotMade
  \/ VisitChat \/ LeaveConversation \/ WithdrawApproval \/ ApprovalKnown
  \/ TurnIsAccepted \/ TurnNotAccepted \/ TurnEnded \/ TurnLost \/ ResultShown \/ StopAnswers

TurnSpec == TurnInit /\ [][TurnNext]_turnVars

(* The Agent service answers and ends its turns, and the panel hears of it.  *)
TurnFairness ==
  /\ \A t \in Turns : WF_turnVars(EndTurn(t))
  /\ WF_turnVars(TurnIsAccepted) /\ WF_turnVars(TurnEnded) /\ WF_turnVars(ResultShown)
  /\ WF_turnVars(StopAnswers)
-----------------------------------------------------------------------------
(* Types; a turn whose end is unknown is not being followed, and while the   *)
(* panel shows progress a turn is followed or being stopped.                 *)
TurnTypeOK ==
  /\ panel.request \in 0 .. MaxTurns /\ panel.response \in 0 .. MaxTurns
  /\ panel.stage \in {"none", "post", "follow", "refresh"} /\ panel.stop \in {"none", "await", "cancel"}
  /\ panel.aside \subseteq Turns \X Turns
  /\ panel.outcome \in [Turns -> Outcomes]
  /\ panel.unconfirmed # NoTurn => ~panel.loading
  /\ panel.loading => panel.stage # "none" \/ panel.stop = "cancel"

AutoStarts(t) ==
  \/ panel'.outcome[t] = "auto_applied" /\ panel.outcome[t] # "auto_applied" /\ panel.making # t
  \/ panel'.makes = "auto" /\ panel'.making = t /\ panel.makes # "auto"

(* A turn is applied without asking only if it was never applied or shown    *)
(* for a decision, if it was not being followed when the user pressed Esc,   *)
(* and if the setting allowed it when it was last asked for or followed      *)
(* again (useAgentTurn.ts:222, :230, :306).                                  *)
AutoApplyIsAllowed ==
  [][\A t \in Turns : AutoStarts(t) =>
       /\ panel.outcome[t] = "none" /\ t \notin panel.decided
       /\ (t \notin past.escaped \/ past.overlaid) /\ past.allowed]_turnVars

Offered(p, t) == t \in AsideTurns(p) \cup {pair[2] : pair \in OpenProposal(p)} /\ p.outcome[t] = "none"

(* A proposal that waits for the user's decision is not lost: it stays open  *)
(* or set aside until it is decided, or replaced on purpose. Not so once a   *)
(* turn was followed again while something else than its question was shown: *)
(* its result takes the place of what is there.                              *)
ProposalIsKept ==
  [][\A t \in Turns : Offered(panel, t) =>
       \/ Offered(panel', t) \/ panel'.outcome[t] # "none"
       \/ t \in past'.replaced \/ past'.overlaid]_turnVars

(* The progress card does not stay: the turn ends, is stopped or given up.   *)
TurnEnds == [](panel.loading => <>~panel.loading)
=============================================================================
