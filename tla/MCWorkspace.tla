---------------------------- MODULE MCWorkspace ----------------------------
(***************************************************************************)
(* Small instances of parts of the open workspace for TLC: the edit lock of *)
(* a document, and what the page tells by itself: the stack of cards,       *)
(* operations that end, a PDF and new documents on their way into the wiki. *)
(* They share no state that is modelled, so a behaviour is one of the part  *)
(* that is chosen at the start; the others stay as they were.               *)
(***************************************************************************)
EXTENDS EditLock, NoticeStack, OperationNotices, PdfIngest, IngestPrompts, TLC

VARIABLE subject  (* The part that is looked at.                                *)

noticeVars == <<stackVars, operationVars, pdfVars, promptVars>>
workspaceVars == <<vars, noticeVars, subject>>

(* What is not looked at has one initial state.                              *)
WorkspaceInit ==
  /\ subject \in {"lock", "cards", "operations", "pdf", "prompts"}
  /\ Init /\ StackInit /\ OperationInit /\ PdfInit /\ PromptInit
  /\ subject # "cards" => ~calm
  /\ subject # "operations" => watched = {}
  /\ subject # "pdf" => ~here
  /\ subject # "prompts" => \A d \in Docs : state[d] = "absent"

NoticeStep ==
  \/ /\ subject = "cards" /\ StackNext
     /\ UNCHANGED <<operationVars, pdfVars, promptVars>>
  \/ /\ subject = "operations" /\ OperationNext
     /\ UNCHANGED <<stackVars, pdfVars, promptVars>>
  \/ /\ subject = "pdf" /\ PdfNext
     /\ UNCHANGED <<stackVars, operationVars, promptVars>>
  \/ /\ subject = "prompts" /\ PromptNext
     /\ UNCHANGED <<stackVars, operationVars, pdfVars>>

WorkspaceNext ==
  \/ subject = "lock" /\ Next /\ UNCHANGED <<noticeVars, subject>>
  \/ NoticeStep /\ UNCHANGED <<vars, subject>>

WorkspaceSpec == WorkspaceInit /\ [][WorkspaceNext]_workspaceVars

-----------------------------------------------------------------------------
(* The part that moves has its types; no more cards are shown than there is  *)
(* room for.                                                                 *)
WorkspaceTypeOK ==
  /\ subject = "lock" => TypeOK
  /\ subject = "cards" => StackTypeOK
  /\ subject = "operations" => OperationTypeOK
  /\ subject = "pdf" => PdfTypeOK
  /\ subject = "prompts" => PromptTypeOK

(* What must happen happens: a lock that was lost is noticed, one that       *)
(* nobody needs is released, a result that is shown leaves, and the wait for *)
(* the end of an operation, for a PDF's note and for the proposal of a       *)
(* document ends.  Each part is fair as it is by itself: timers fire,        *)
(* requests are answered, the server ends what it began.                     *)
WorkspaceEnds ==
  /\ subject = "lock" /\ Fairness => LossIsNoticed /\ LockIsReleased
  /\ subject = "cards" /\ StackFairness => ResultsLeave
  /\ subject = "operations" /\ OperationFairness => EndIsTold
  /\ subject = "pdf" /\ PdfFairness => TaskEnds
  /\ subject = "prompts" /\ PromptFairness => WaitIsNoticed
=============================================================================
