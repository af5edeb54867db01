---------------------------- MODULE NotionImport ----------------------------
(***************************************************************************)
(* Writing an imported Notion export to the workspace                      *)
(* (features/notion-import/model: importRunner.ts and the part of          *)
(* useNotionImport.ts that runs, cancels, retries and ends it).  Folders   *)
(* are made one after the other, then documents and PDFs, then the         *)
(* contents with links and images, the last two with a limited number of   *)
(* requests at a time.  What is done is remembered across runs of one      *)
(* import, and what is sent again carries the key of the first time.       *)
(***************************************************************************)
EXTENDS Integers, Sequences, FiniteSets, SequencesExt

CONSTANTS
  Folders,       (* plan.folders, parents before children.                   *)
  Documents,     (* plan.documents and plan.pdfs, in order.                  *)
  Parent,        (* The folder of a folder or document, or Root.             *)
  Root,
  Contents,      (* How many batches the content of a document is saved in;  *)
                 (* 0: it is made with its content (needsContentPass fails). *)
  Links,         (* The documents a page with images links to.               *)
  Concurrency,   (* IMPORT_CONCURRENCY.                                      *)
  MaxRuns,       (* Bounds the retries.                                      *)
  MaxImportTrouble  (* Bounds the requests that fail or lose their answer.   *)

ASSUME NotionImportAssumption ==
  /\ Concurrency \in Nat \ {0}
  /\ MaxRuns \in Nat
  /\ MaxImportTrouble \in Nat

ASSUME ImportPlanAssumption ==
  /\ Folders \in Seq(ToSet(Folders)) /\ Documents \in Seq(ToSet(Documents))
  /\ \A d \in ToSet(Documents) : Contents[d] \in Nat
  /\ IsInjective(Documents)  (* The plan is made from maps by path.         *)

VARIABLES
  screen,      (* step.kind.                                                 *)
  importPhase, (* What runImport works on; "none" when it does not run.      *)
  queue,       (* Items of this phase that are not started.                  *)
  active,      (* Items whose request the run waits for.                     *)
  answer,      (* What came back for an active item.                         *)
  known,       (* state.folderIds and state.documents.                       *)
  version,     (* The version of a document in state.documents.              *)
  saved,       (* How many batches of a document are known to be saved.      *)
  contentDone, (* state.contentDone, for documents with a content pass.      *)
  failures,    (* state.failures: of making an item, of saving its content.  *)
  stopped,     (* The run met a fatal error.                                 *)
  aborted,     (* The user cancelled the run.                                *)
  givenUp,     (* The user ended the import with its failures.               *)
  finishing,   (* finish waits for the answer of complete.                   *)
  runs,        (* How many runs were started.                                *)
  importTrouble,  (* How much went wrong.                                    *)
  sent,        (* Requests on their way, also those nobody waits for.        *)
  made,        (* Server: what was made, in which folder and with which key. *)
  content,     (* Server: version and saved batches of a document.           *)
  writes,      (* Server: the write ids it has seen.                         *)
  completed    (* Server: the import is complete; session.completed.         *)

importVars == <<screen, importPhase, queue, active, answer, known, version, saved, contentDone,
                failures, stopped, aborted, givenUp, finishing, runs, importTrouble, sent,
                made, content, writes, completed>>
stateVars == <<known, version, saved, contentDone, failures>>
importServerVars == <<made, content, writes, completed>>
importScreenVars == <<screen, givenUp, finishing, runs>>

FolderSet == ToSet(Folders)
DocumentSet == ToSet(Documents)
Items == FolderSet \union DocumentSet
NeedsContentPass(d) == Contents[d] > 0

WriteAnswers == {"none", "ok", "failed", "fatal"}
Failure(i) == [item |-> i, content |-> importPhase = "content"]

ImportTypeOK ==
  /\ screen \in {"preview", "running", "review", "summary"}
  /\ importPhase \in {"none", "folders", "documents", "content"}
  /\ ToSet(queue) \subseteq Items
  /\ active \subseteq Items /\ Cardinality(active) <= Concurrency
  /\ answer \in [Items -> WriteAnswers]
  /\ known \subseteq Items
  /\ \A d \in DocumentSet : saved[d] \in 0..Contents[d] /\ version[d] \in 1..(Contents[d] + 1)
  /\ contentDone \subseteq DocumentSet
  /\ failures \subseteq [item : Items, content : BOOLEAN]
  /\ <<stopped, aborted, givenUp, finishing, completed>> \in [1..5 -> BOOLEAN]
  /\ runs \in 0..MaxRuns
  /\ importTrouble \in 0..MaxImportTrouble

ImportInit ==
  /\ screen = "preview"
  /\ importPhase = "none"
  /\ queue = <<>>
  /\ active = {}
  /\ answer = [i \in Items |-> "none"]
  /\ known = {}
  /\ version = [d \in DocumentSet |-> 1]
  /\ saved = [d \in DocumentSet |-> 0]
  /\ contentDone = {}
  /\ failures = {}
  /\ stopped = FALSE /\ aborted = FALSE
  /\ givenUp = FALSE /\ finishing = FALSE
  /\ runs = 0
  /\ importTrouble = 0
  /\ sent = {}
  /\ made = {}
  /\ content = [d \in DocumentSet |-> [version |-> 1, batches |-> 0]]
  /\ writes = {}
  /\ completed = FALSE

IsStopped == aborted \/ stopped

-----------------------------------------------------------------------------
(* The user: execute and finish of useNotionImport.                          *)

(* execute: from the preview, once the session of the import is made, or     *)
(* again from the review, also while finish waits there.                     *)
Execute ==
  /\ screen \in {"preview", "review"}
  /\ importPhase = "none"
  /\ runs < MaxRuns
  /\ ~completed
  /\ runs' = runs + 1
  /\ screen' = "running"
  /\ importPhase' = "folders"
  /\ queue' = Folders
  /\ stopped' = FALSE /\ aborted' = FALSE
  /\ UNCHANGED <<active, answer, givenUp, finishing, importTrouble, sent>>
  /\ UNCHANGED stateVars /\ UNCHANGED importServerVars

(* cancel: the requests of the run are aborted; what is on its way may still *)
(* be served.                                                                *)
CancelImport ==
  /\ screen = "running"
  /\ importPhase # "none"
  /\ ~aborted
  /\ aborted' = TRUE
  /\ answer' = [i \in Items |-> IF i \in active /\ answer[i] = "none" THEN "failed" ELSE answer[i]]
  /\ UNCHANGED <<importPhase, queue, active, stopped, importTrouble, sent>>
  /\ UNCHANGED importScreenVars /\ UNCHANGED stateVars /\ UNCHANGED importServerVars

FinishWithFailures ==
  /\ screen = "review"
  /\ ~finishing
  /\ finishing' = TRUE
  /\ givenUp' = TRUE
  /\ UNCHANGED <<screen, importPhase, queue, active, answer, stopped, aborted, runs, importTrouble, sent>>
  /\ UNCHANGED stateVars /\ UNCHANGED importServerVars

(* The answer of complete, or none; then the summary, from which there is no *)
(* way back.                                                                 *)
FinishImport ==
  /\ finishing
  /\ finishing' = FALSE
  /\ screen' = "summary"
  /\ \/ completed' = TRUE /\ UNCHANGED importTrouble
     \/ /\ ~completed
        /\ importTrouble < MaxImportTrouble /\ importTrouble' = importTrouble + 1
        /\ UNCHANGED completed
  /\ UNCHANGED <<importPhase, queue, active, answer, stopped, aborted, givenUp, runs, sent, made, content, writes>>
  /\ UNCHANGED stateVars

-----------------------------------------------------------------------------
(* runImport.                                                                *)

HasParent(i) == Parent[i] = Root \/ Parent[i] \in known

(* importKey of an item, and of a content by the version it replaces.  A     *)
(* content with images is sent without it: the service tells it by version   *)
(* and body (docs/api/consumed/document.md:57), in which the links to pages  *)
(* that were not made are missing.                                           *)
ItemKey_Run(i) == <<i, runs>>  \* Mutant: a key for each run.
ItemKey(i) == <<i>>
WriteId(d, v) == <<d, v, Links[d] \intersect known>>

MakeRequest(i) == [kind |-> "make", item |-> i, parent |-> Parent[i], key |-> ItemKey(i), base |-> 0]
SaveRequest(d, v) == [kind |-> "save", item |-> d, parent |-> Root, key |-> WriteId(d, v), base |-> v]

(* There is nothing to do for an item: made or saved before, or, in the      *)
(* content pass, not made, or made with its content.                         *)
Skips(i) ==
  IF importPhase = "content" THEN i \notin known \/ i \in contentDone \/ ~NeedsContentPass(i) ELSE i \in known

HasPlace == Cardinality(active) < IF importPhase = "folders" THEN 1 ELSE Concurrency

(* One free place of the limiter and the next item in line.  An item whose   *)
(* folder was not made fails; a run that stopped sends nothing.              *)
StartItem ==
  LET i == Head(queue) IN
  /\ importPhase # "none"
  /\ queue # <<>>
  /\ HasPlace
  /\ ~(importPhase = "folders" /\ IsStopped)
  /\ queue' = Tail(queue)
  /\ CASE Skips(i) -> UNCHANGED <<failures, active, sent>>
       [] ~Skips(i) /\ importPhase # "content" /\ ~HasParent(i) ->
         failures' = failures \union {Failure(i)} /\ UNCHANGED <<active, sent>>
       [] ~Skips(i) /\ (importPhase = "content" \/ HasParent(i)) /\ IsStopped -> UNCHANGED <<failures, active, sent>>
       [] OTHER -> /\ active' = active \union {i}
                   /\ sent' = sent \union
                        {IF importPhase = "content" THEN SaveRequest(i, version[i]) ELSE MakeRequest(i)}
                   /\ UNCHANGED failures
  /\ UNCHANGED <<importPhase, answer, known, version, saved, contentDone, stopped, aborted, importTrouble>>
  /\ UNCHANGED importScreenVars /\ UNCHANGED importServerVars

(* The action of an item succeeded.                                          *)
Leaves(i) == active' = active \ {i} /\ answer' = [answer EXCEPT ![i] = "none"]

Made(i) ==
  /\ i \in active /\ answer[i] = "ok" /\ importPhase # "content"
  /\ known' = known \union {i}
  /\ failures' = failures \ {Failure(i)}
  /\ Leaves(i)
  /\ UNCHANGED <<importPhase, queue, version, saved, contentDone, stopped, aborted, importTrouble, sent>>
  /\ UNCHANGED importScreenVars /\ UNCHANGED importServerVars

(* One batch is saved; the next is sent, unless it was the last or the run   *)
(* stopped: the StopImport thrown between the batches is caught like any     *)
(* failure of the item, and recorded unless the run was cancelled.           *)
NextVersion_Same(d) == version[d]  \* Mutant: the next batch replaces the same version.
NextVersion(d) == version[d] + 1
Remembers(d) == saved' = [saved EXCEPT ![d] = @ + 1]

BatchSaved(d) ==
  /\ d \in active /\ answer[d] = "ok" /\ importPhase = "content"
  /\ version' = [version EXCEPT ![d] = NextVersion(d)]
  /\ Remembers(d)
  /\ \/ /\ saved[d] + 1 = Contents[d]
        /\ contentDone' = contentDone \union {d}
        /\ failures' = failures \ {Failure(d)}
        /\ Leaves(d)
        /\ UNCHANGED sent
     \/ /\ saved[d] + 1 < Contents[d] /\ IsStopped
        /\ failures' = IF aborted THEN failures ELSE failures \union {Failure(d)}
        /\ Leaves(d)
        /\ UNCHANGED <<contentDone, sent>>
     \/ /\ saved[d] + 1 < Contents[d] /\ ~IsStopped
        /\ answer' = [answer EXCEPT ![d] = "none"]
        /\ sent' = sent \union {SaveRequest(d, NextVersion(d))}
        /\ UNCHANGED <<active, contentDone, failures>>
  /\ UNCHANGED <<importPhase, queue, known, stopped, aborted, importTrouble>>
  /\ UNCHANGED importScreenVars /\ UNCHANGED importServerVars

(* catch of attempt: of a cancelled run nothing is recorded, and a fatal     *)
(* error stops the others.                                                   *)
ItemFailed(i) ==
  /\ i \in active /\ answer[i] \in {"failed", "fatal"}
  /\ failures' = IF aborted THEN failures ELSE failures \union {Failure(i)}
  /\ stopped' = (stopped \/ (~aborted /\ answer[i] = "fatal"))
  /\ Leaves(i)
  /\ UNCHANGED <<importPhase, queue, known, version, saved, contentDone, aborted, importTrouble, sent>>
  /\ UNCHANGED importScreenVars /\ UNCHANGED importServerVars

(* settleAll: the phase ends when nothing of it is left; StopImport of any   *)
(* item, or a stopped loop over the folders, ends the run.                   *)
PhaseEnds == active = {} /\ (queue = <<>> \/ (importPhase = "folders" /\ IsStopped))
NextPhase ==
  /\ PhaseEnds
  /\ importPhase \in {"folders", "documents"}
  /\ ~IsStopped
  /\ importPhase' = IF importPhase = "folders" THEN "documents" ELSE "content"
  /\ queue' = Documents
  /\ UNCHANGED <<active, answer, stopped, aborted, importTrouble, sent>>
  /\ UNCHANGED importScreenVars /\ UNCHANGED stateVars /\ UNCHANGED importServerVars

(* The end of a run: a cancelled one, and one without failures, goes on to   *)
(* finish; the others are reviewed.                                          *)
EndRun ==
  /\ importPhase # "none"
  /\ PhaseEnds
  /\ importPhase = "content" \/ IsStopped
  /\ importPhase' = "none"
  /\ queue' = <<>>
  /\ IF aborted \/ failures = {}
     THEN finishing' = TRUE /\ UNCHANGED screen
     ELSE screen' = "review" /\ UNCHANGED finishing
  /\ UNCHANGED <<active, answer, stopped, aborted, givenUp, runs, importTrouble, sent>>
  /\ UNCHANGED stateVars /\ UNCHANGED importServerVars

-----------------------------------------------------------------------------
(* External: the document service.  Every write of the import carries its    *)
(* id and is refused once it is complete.                                    *)

AnsweredWrite(r, a) ==
  /\ sent' = sent \ {r}
  /\ answer' = IF r.item \in active /\ answer[r.item] = "none" /\ (r.kind = "save") = (importPhase = "content")
               THEN [answer EXCEPT ![r.item] = a] ELSE answer

(* A repeated write is answered as the first was; the others must be about   *)
(* the newest version.                                                       *)
Apply(r) ==
  CASE r.kind = "make" /\ (\E m \in made : m.key = r.key) -> UNCHANGED <<made, content, writes>>
    [] r.kind = "make" /\ ~(\E m \in made : m.key = r.key) ->
         made' = made \union {[item |-> r.item, parent |-> r.parent, key |-> r.key]} /\ UNCHANGED <<content, writes>>
    [] r.kind = "save" /\ r.key \in writes -> UNCHANGED <<made, content, writes>>
    [] OTHER -> /\ writes' = writes \union {r.key}
                /\ content' = [content EXCEPT ![r.item] = [version |-> @.version + 1, batches |-> @.batches + 1]]
                /\ UNCHANGED made

IsAccepted(r) == r.kind = "save" => (r.key \notin writes => r.base = content[r.item].version)

Outcome(r) == IF completed THEN "fatal" ELSE IF IsAccepted(r) THEN "ok" ELSE "failed"

ServeWrite(r) ==
  /\ AnsweredWrite(r, Outcome(r))
  /\ IF Outcome(r) = "ok" THEN Apply(r) ELSE UNCHANGED <<made, content, writes>>
  /\ UNCHANGED <<importPhase, queue, active, stopped, aborted, importTrouble, completed>>
  /\ UNCHANGED importScreenVars /\ UNCHANGED stateVars

(* The request is refused or lost, or its answer is, or it outlives the      *)
(* client's patience and is served later.                                    *)
TroubledWrite(r) ==
  /\ importTrouble < MaxImportTrouble /\ importTrouble' = importTrouble + 1
  /\ \/ \E a \in {"failed", "fatal"} : AnsweredWrite(r, a) /\ UNCHANGED <<made, content, writes>>
     \/ Outcome(r) = "ok" /\ AnsweredWrite(r, "failed") /\ Apply(r)
     \/ answer[r.item] = "none" /\ r.item \in active /\ answer' = [answer EXCEPT ![r.item] = "failed"]
        /\ UNCHANGED <<sent, made, content, writes>>
  /\ UNCHANGED <<importPhase, queue, active, stopped, aborted, completed>>
  /\ UNCHANGED importScreenVars /\ UNCHANGED stateVars

RunStep ==
  \/ StartItem \/ NextPhase \/ EndRun
  \/ \E i \in Items : Made(i) \/ BatchSaved(i) \/ ItemFailed(i)
ServiceStep == \E r \in sent : ServeWrite(r)

ImportNext ==
  \/ Execute \/ CancelImport \/ FinishWithFailures \/ FinishImport
  \/ RunStep \/ ServiceStep
  \/ \E r \in sent : TroubledWrite(r)

ImportSpec == ImportInit /\ [][ImportNext]_importVars

(* The code between two requests runs, and the service answers.              *)
ImportFairness == WF_importVars(RunStep) /\ WF_importVars(FinishImport) /\ WF_importVars(ServiceStep)

-----------------------------------------------------------------------------
(* The import keeps its promise to the workspace (ImportPromise): whatever   *)
(* is sent twice, late or after a lost answer, each item is made once, in    *)
(* its folder, and each batch of images is saved once.                       *)
Copies(i) == {m \in made : m.item = i}
Promise == INSTANCE ImportPromise WITH
  copies <- [i \in Items |-> Cardinality(Copies(i))],
  place <- [i \in Items |-> IF Copies(i) = {} THEN Root ELSE (CHOOSE m \in made : m.item = i).parent],
  written <- [i \in Items |-> IF i \in DocumentSet THEN content[i].batches ELSE 0],
  closed <- completed
PromiseKept == Promise!Spec

(* An import that ends without failures, and that nobody cancelled or gave   *)
(* up, made every item and saved every content: no item that was skipped,    *)
(* stopped or refused goes unreported.                                       *)
SuccessIsComplete ==
  importPhase = "none" /\ screen # "preview" /\ failures = {} /\ ~aborted /\ ~givenUp =>
    /\ \A i \in Items : Copies(i) # {}
    /\ \A d \in DocumentSet : content[d].batches = Contents[d]

(* A run ends, whatever its requests are answered: every place of the        *)
(* limiter is given back.                                                    *)
RunEnds == (importPhase # "none") ~> (importPhase = "none")
=============================================================================
