--------------------------- MODULE PendingNoteSave ---------------------------
(***************************************************************************)
(* The save candidates of the note editor and the pure functions of        *)
(* features/note-editing/model/pendingNoteSaveMerge.ts that combine them.  *)
(*                                                                         *)
(* A candidate is one whole body of the note on its way to the server.     *)
(* A body is abstracted to the set of edits it contains; marker            *)
(* composition and image placeholders are left out.                        *)
(***************************************************************************)
EXTENDS Integers

CONSTANTS Edits,      \* identities of edits: the local ones and those of other writers
          Ops,        \* apply operation ids of AI edits
          NoOp        \* no apply operation id

ASSUME NoOpAssumption == NoOp \notin Ops

Sources == {"user", "agent"}

\* PendingNoteSave | null: the null candidate has revision 0.
NoSave == [revision |-> 0, body |-> {}, source |-> "user", op |-> NoOp]

Candidate == [revision : Nat, body : SUBSET Edits, source : Sources, op : Ops \cup {NoOp}]

\* next.applyOperationId ?? current?.applyOperationId
OrElse(op, fallback) == IF op # NoOp THEN op ELSE fallback

(***************************************************************************)
(* The body that waits behind a request in flight is replaced by a newer   *)
(* one, which inherits the agent source and operation of either.           *)
(***************************************************************************)
MergePendingNoteSave(current, next) ==
  IF current.source # "agent" /\ next.source # "agent"
  THEN next
  ELSE [next EXCEPT !.source = "agent", !.op = OrElse(next.op, current.op)]

\* recoverPendingNoteSaveAfterAgentFailure, the pending body it returns.
PromoteAfterAgentFailure(pending) ==
  IF pending = NoSave THEN NoSave ELSE [pending EXCEPT !.source = "agent"]

\* applyRequiredAgentSource
ApplyRequiredAgentSource(candidate, required, op) ==
  IF required
  THEN [candidate EXCEPT !.source = "agent", !.op = OrElse(candidate.op, op)]
  ELSE candidate

\* selectDetachedSaveCandidate: what is sent when the editor goes away.
SelectDetachedSaveCandidate(scheduled, agentRetry) ==
  IF scheduled = NoSave THEN agentRetry
  ELSE IF agentRetry = NoSave THEN scheduled
  ELSE IF scheduled.revision >= agentRetry.revision
       THEN MergePendingNoteSave(agentRetry, scheduled)
       ELSE MergePendingNoteSave(scheduled, agentRetry)
=============================================================================
