------------------------------ MODULE PdfIngest ------------------------------
(*****************************************************************************)
(* A PDF that the user confirmed is converted to a note, and the note goes   *)
(* into the wiki when the conversion has ended (usePdfWikiIngest.ts).  The   *)
(* page keeps the task in its storage, follows the note in the list of       *)
(* documents it polls, and goes on after a reload or another workspace.      *)
(*****************************************************************************)
EXTENDS Integers

CONSTANTS
  MaxAways,   (* Bounds the reloads and how often another workspace is selected.*)
  MaxTouches,  (* Bounds the changes the page makes in its own list.         *)
  MissingLimit (* MISSING_SNAPSHOTS_TO_DROP, 2 in the code.                  *)

(* The first list may have been asked for before the conversion began: one   *)
(* without the note does not do.                                             *)
ASSUME PdfIngestAssumption == MaxAways \in Nat /\ MaxTouches \in Nat /\ MissingLimit \in Nat \ {0, 1}

VARIABLES
  note,        (* External: the note the PDF is converted to.                *)
  conversion,  (* startPdfIngest: idle, sent, made (by the server), over.    *)
  here,        (* The workspace of the PDF is the selected one.              *)
  noteListed,  (* The note in the list of documents.                         *)
  fetch,       (* The request for the list, with what the server answered.   *)
  due,         (* sendGraphIngestRequests will refresh the list.             *)
  task,        (* pending, runningRef and missingSnapshotsRef for the note.  *)
  stored,      (* The task is in sessionStorage.                             *)
  ingestRequests, (* reflectDocumentToWiki: what is on its way.                 *)
  ingests,     (* History: how often the note was taken into the wiki.       *)
  pdfTold,     (* History: what the user was told.                           *)
  touched,     (* History: the page changed its list while it had the task.  *)
  left,        (* History: the page was left while a request was on its way. *)
  leaves, touches

pdfVars == <<note, conversion, here, noteListed, fetch, due, task, stored, ingestRequests, ingests, pdfTold, touched, left, leaves, touches>>
pdfHistory == <<ingests, touched, left, leaves, touches>>

NoteStates == {"absent", "converting", "converted", "failed", "ingesting", "ingested"}
NoTask == [is |-> FALSE, running |-> FALSE, missing |-> 0]
NewTask == [NoTask EXCEPT !.is = TRUE]
NoFetch == [asked |-> FALSE, read |-> FALSE, saw |-> "absent"]
FetchAsked == [NoFetch EXCEPT !.asked = TRUE]

PdfInit ==
  /\ note = "absent" /\ conversion = "idle" /\ here \in BOOLEAN
  /\ noteListed = "absent" /\ fetch = NoFetch /\ due = FALSE
  /\ task = NoTask /\ stored = FALSE
  /\ ingestRequests = [away |-> 0, accepted |-> 0, refused |-> 0]
  /\ ingests = 0 /\ pdfTold = {} /\ touched = FALSE /\ left = FALSE
  /\ leaves = 0 /\ touches = 0

-----------------------------------------------------------------------------
(* The server.                                                               *)

NoteMoves ==
  /\ \/ note = "converting" /\ note' \in {"converted", "failed"}
     \/ note = "ingesting" /\ note' \in {"ingested", "failed"}
  /\ UNCHANGED <<conversion, here, noteListed, fetch, due, task, stored, ingestRequests, pdfTold, pdfHistory>>

(* Somebody removes the note.                                                *)
NoteIsDeleted ==
  /\ note # "absent" /\ note' = "absent"
  /\ UNCHANGED <<conversion, here, noteListed, fetch, due, task, stored, ingestRequests, pdfTold, pdfHistory>>

Converts ==
  /\ conversion = "sent"
  /\ \/ conversion' = "made" /\ note' = "converting"
     \/ conversion' = "refused" /\ UNCHANGED note
  /\ UNCHANGED <<here, noteListed, fetch, due, task, stored, ingestRequests, pdfTold, pdfHistory>>

(* A note that is gone or in work is refused.                                *)
Ingests ==
  /\ ingestRequests.away > 0
  /\ IF note \in {"absent", "converting", "ingesting"}
     THEN /\ ingestRequests' = [ingestRequests EXCEPT !.away = @ - 1, !.refused = @ + 1]
          /\ UNCHANGED <<note, ingests>>
     ELSE /\ ingestRequests' = [ingestRequests EXCEPT !.away = @ - 1, !.accepted = @ + 1]
          /\ note' = "ingesting" /\ ingests' = ingests + 1
  /\ UNCHANGED <<conversion, here, noteListed, fetch, due, task, stored, pdfTold, touched, left, leaves, touches>>

ReadsList ==
  /\ fetch.asked /\ ~fetch.read
  /\ fetch' = [fetch EXCEPT !.read = TRUE, !.saw = note]
  /\ UNCHANGED <<note, conversion, here, noteListed, due, task, stored, ingestRequests, pdfTold, pdfHistory>>

-----------------------------------------------------------------------------
(* The page.                                                                 *)

Step_First(l, missing) ==  \* Mutant: the first list without the note decides.
  IF l = "absent" THEN (IF missing + 1 >= MissingLimit THEN "gone" ELSE "waiting")
  ELSE IF l \in {"converting", "ingesting"} THEN "waiting"
  ELSE IF l = "failed" THEN "failed" ELSE "ready"

(* getPdfIngestTaskStep.                                                     *)
Step(l, missing) ==
  IF l = "absent" THEN (IF missing >= MissingLimit THEN "gone" ELSE "waiting")
  ELSE IF l \in {"converting", "ingesting"} THEN "waiting"
  ELSE IF l = "failed" THEN "failed" ELSE "ready"

(* The effect that ingests whenever the list or the tasks change: t is the   *)
(* task then, l the note in the list, fresh whether the list is a new one,   *)
(* f the fetch that is open then and kept what is stored.  A task that is    *)
(* over leaves the page and the storage, and the list is fetched again.      *)
Look(t, l, fresh, f, kept) ==
  LET missing == IF l # "absent" THEN 0 ELSE t.missing + (IF fresh THEN 1 ELSE 0)
      step == Step(l, missing)
      waits == ~t.is \/ t.running \/ step = "waiting"
      sends == ~waits /\ step = "ready" /\ l # "ingested"
  IN /\ task' = IF waits THEN [t EXCEPT !.missing = IF t.is /\ ~t.running THEN missing ELSE @]
                ELSE IF sends THEN [t EXCEPT !.missing = missing, !.running = TRUE] ELSE NoTask
     /\ ingestRequests' = IF sends THEN [ingestRequests EXCEPT !.away = @ + 1] ELSE ingestRequests
     /\ pdfTold' = IF waits \/ sends THEN pdfTold ELSE pdfTold \union {IF step = "ready" THEN "requested" ELSE step}
     /\ stored' = (kept /\ (waits \/ sends))
     /\ fetch' = IF waits \/ sends THEN f ELSE FetchAsked

Confirm ==
  /\ conversion = "idle" /\ here
  /\ conversion' = "sent"
  /\ UNCHANGED <<note, here, noteListed, fetch, due, task, stored, ingestRequests, pdfTold, pdfHistory>>

(* The answer: the task belongs to the workspace the PDF is of, and is not   *)
(* kept when another one is selected by then.                                *)
ConversionAnswered ==
  /\ conversion \in {"made", "refused"}
  /\ conversion' = "over"
  /\ due' = (conversion = "made")
  /\ IF conversion = "made" /\ here THEN Look(NewTask, noteListed, FALSE, fetch, TRUE)
     ELSE UNCHANGED <<task, ingestRequests, pdfTold, stored, fetch>>
  /\ UNCHANGED <<note, here, noteListed, pdfHistory>>

(* The refresh after the requests for all confirmed documents were answered. *)
Refresh ==
  /\ due
  /\ due' = FALSE
  /\ fetch' = IF here THEN FetchAsked ELSE fetch
  /\ UNCHANGED <<note, conversion, here, noteListed, task, stored, ingestRequests, pdfTold, pdfHistory>>

Poll ==
  /\ here /\ ~fetch.asked
  /\ fetch' = FetchAsked
  /\ UNCHANGED <<note, conversion, here, noteListed, due, task, stored, ingestRequests, pdfTold, pdfHistory>>

(* The list arrives; out of sight of another workspace it is only cached.    *)
NoteListArrives ==
  /\ fetch.read
  /\ noteListed' = fetch.saw
  /\ IF here THEN Look(task, noteListed', TRUE, NoFetch, stored)
     ELSE fetch' = NoFetch /\ UNCHANGED <<task, ingestRequests, pdfTold, stored>>
  /\ UNCHANGED <<note, conversion, here, due, pdfHistory>>

(* setDocuments: an upload puts a document of its own into the list, which   *)
(* counts as a new list.                                                     *)
TouchList ==
  /\ here /\ touches < MaxTouches /\ touches' = touches + 1
  /\ touched' = (touched \/ task.is)
  /\ Look(task, noteListed, TRUE, fetch, stored)
  /\ UNCHANGED <<note, conversion, here, noteListed, due, ingests, left, leaves>>

(* The answer of reflectDocumentToWiki; of another workspace nothing is      *)
(* changed, and the task stays stored.                                       *)
IngestAnswered(how) ==
  /\ ingestRequests[how] > 0
  /\ ingestRequests' = [ingestRequests EXCEPT ![how] = @ - 1]
  /\ pdfTold' = pdfTold \union {IF how = "accepted" THEN "requested" ELSE "refused"}
  /\ IF here THEN task' = NoTask /\ stored' = FALSE /\ fetch' = FetchAsked
     ELSE UNCHANGED <<task, stored, fetch>>
  /\ UNCHANGED <<note, conversion, here, noteListed, due, pdfHistory>>

(* Another workspace is selected: its tasks take the place of this one's.    *)
LeaveWorkspace ==
  /\ here /\ leaves < MaxAways /\ leaves' = leaves + 1
  /\ here' = FALSE
  /\ task' = NoTask
  /\ left' = (left \/ task.running)
  /\ UNCHANGED <<note, conversion, noteListed, fetch, due, stored, ingestRequests, pdfTold, ingests, touched, touches>>

Restored == IF stored THEN NewTask ELSE NoTask

(* This one is selected again: the cached list is looked at, and fetched.    *)
ReturnToWorkspace ==
  /\ ~here /\ here' = TRUE
  /\ Look(Restored, noteListed, FALSE, IF fetch.asked THEN fetch ELSE FetchAsked, stored)
  /\ UNCHANGED <<note, conversion, noteListed, due, pdfHistory>>

(* A reload loses what waits for an answer; what is on its way arrives.      *)
ReloadTab ==
  /\ here /\ leaves < MaxAways /\ leaves' = leaves + 1
  /\ IF conversion = "sent" THEN note' \in {note, "converting"} ELSE UNCHANGED note
  /\ conversion' = IF conversion = "idle" THEN "idle" ELSE "over"
  /\ noteListed' = "absent" /\ fetch' = FetchAsked /\ due' = FALSE
  /\ task' = Restored
  /\ ingestRequests' = [ingestRequests EXCEPT !.accepted = 0, !.refused = 0]
  /\ left' = (left \/ ingestRequests.away > 0)
  /\ UNCHANGED <<here, stored, pdfTold, ingests, touched, touches>>

PdfNext ==
  \/ NoteMoves \/ NoteIsDeleted \/ Converts \/ Ingests \/ ReadsList
  \/ Confirm \/ ConversionAnswered \/ Refresh \/ Poll \/ NoteListArrives \/ TouchList
  \/ \E how \in {"accepted", "refused"} : IngestAnswered(how)
  \/ LeaveWorkspace \/ ReturnToWorkspace \/ ReloadTab

PdfSpec == PdfInit /\ [][PdfNext]_pdfVars

(* The server goes on and answers, and the list is polled, which it is while *)
(* the tab is seen or a conversion goes on.                                  *)
PdfFairness ==
  /\ WF_pdfVars(NoteMoves) /\ WF_pdfVars(Ingests)
  /\ WF_pdfVars(ReadsList) /\ WF_pdfVars(Poll) /\ WF_pdfVars(NoteListArrives)
  /\ \A how \in {"accepted", "refused"} : WF_pdfVars(IngestAnswered(how))

-----------------------------------------------------------------------------
PdfTypeOK ==
  /\ note \in NoteStates /\ noteListed \in NoteStates
  /\ conversion \in {"idle", "sent", "made", "refused", "over"}
  /\ fetch \in [asked : BOOLEAN, read : BOOLEAN, saw : NoteStates] /\ (fetch.read => fetch.asked)
  /\ task \in [is : BOOLEAN, running : BOOLEAN, missing : 0..MissingLimit]
  /\ ingestRequests \in [{"away", "accepted", "refused"} -> Nat]
  /\ pdfTold \subseteq {"requested", "refused", "failed", "gone"}
  /\ here => (task.is <=> stored)
  /\ ingests \in Nat /\ leaves \in 0..MaxAways /\ touches \in 0..MaxTouches

(* A task is given up because its note is gone only when it is gone: a list  *)
(* asked for before the conversion began does not do, unless the page        *)
(* changed its list itself (pdfIngestTask.ts:15).                            *)
GoneIsGone == "gone" \in pdfTold => note = "absent" \/ touched

(* A note is taken into the wiki once, whatever is reloaded after the server *)
(* has the request (usePdfWikiIngest.ts:102), unless another workspace was   *)
(* selected while it was under way.                                          *)
IngestedOnce == ingests <= 1 \/ left

(* Both: a stale list, a reload or another workspace neither drops a task    *)
(* nor does it twice.                                                        *)
IngestIsRight == GoneIsGone /\ IngestedOnce

(* A task comes to its end, and the user is told how, while the workspace    *)
(* stays selected.                                                           *)
TaskEnds == task.is ~> (~task.is /\ pdfTold # {}) \/ ~here
=============================================================================
