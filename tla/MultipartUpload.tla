-------------------------- MODULE MultipartUpload --------------------------
(***************************************************************************)
(* A file that is uploaded in parts to the object store                    *)
(* (entities/document/api/multipartUpload.ts and partUpload.ts): start,    *)
(* batches of parts that are sent together, and complete, each of them     *)
(* tried several times, or abort when one of them gives up or the caller   *)
(* cancels.  The caller may upload the file again under the same key.      *)
(***************************************************************************)
EXTENDS Integers, FiniteSets

CONSTANTS
  PartCount,     (* part_count.                                              *)
  Batch,         (* Parts that are sent together (3 in the code).            *)
  MaxPartAttempts,  (* Attempts of a part and of complete (3 in the code).   *)
  MaxPartUploads,    (* Bounds how often the caller uploads the file.            *)
  MaxUploadTrouble  (* Bounds the requests that fail, stall or lose their    *)
                    (* answer.                                               *)

ASSUME MultipartUploadAssumption ==
  /\ PartCount \in Nat \ {0}
  /\ Batch \in Nat \ {0}
  /\ MaxPartAttempts \in Nat \ {0}
  /\ MaxPartUploads \in Nat
  /\ MaxUploadTrouble \in Nat

VARIABLES
  stage,       (* Where uploadDirectMultipart stands.                        *)
  first,       (* The first part of the batch.                               *)
  part,        (* The parts: what they wait for, and the attempts left.      *)
  complete,    (* The attempts of complete that are left.                    *)
  cancelled,   (* options.signal was aborted.                                *)
  uploads,     (* How often the caller uploaded the file.                    *)
  uploadTrouble,  (* How much went wrong.                                    *)
  bucket,      (* External: the state of this upload and its stored parts.   *)
  documents    (* External: the documents, each with its key and whether all *)
               (* of its parts were stored when it was made.                 *)

uploadVars == <<stage, first, part, complete, cancelled, uploads, uploadTrouble, bucket, documents>>

PartNumbers == 1..PartCount
Unsent == [stage |-> "none", left |-> MaxPartAttempts]
InBatch(n) == n \in first..(first + Batch - 1)
(* A part of which something is on its way, or that will be sent again.      *)
IsMoving(n) == part[n].stage \in {"renewing", "sending", "stalled", "pausing"}
InTransit(n) == part[n].stage \in {"sending", "stalled"}
BatchParts == {n \in PartNumbers : InBatch(n)}

UploadTypeOK ==
  /\ stage \in {"idle", "starting", "asking", "parts", "completing", "pausing", "aborting", "done", "failed"}
  /\ first \in 1..(PartCount + Batch)
  /\ \A n \in PartNumbers :
       /\ part[n].stage \in {"none", "renewing", "sending", "stalled", "pausing", "stored", "failed"}
       /\ part[n].left \in 0..MaxPartAttempts
  /\ complete \in 0..MaxPartAttempts
  /\ cancelled \in BOOLEAN
  /\ uploads \in 0..MaxPartUploads
  /\ uploadTrouble \in 0..MaxUploadTrouble
  /\ bucket.stage \in {"none", "open", "completed", "aborted"}
  /\ bucket.parts \subseteq PartNumbers

UploadInit ==
  /\ stage = "idle"
  /\ first = 1
  /\ part = [n \in PartNumbers |-> Unsent]
  /\ complete = MaxPartAttempts
  /\ cancelled = FALSE
  /\ uploads = 0
  /\ uploadTrouble = 0
  /\ bucket = [stage |-> "none", parts |-> {}]
  /\ documents = {}

Goes(to) == stage' = to
UploadTrouble == uploadTrouble < MaxUploadTrouble /\ uploadTrouble' = uploadTrouble + 1
SetPart(n, to) == part' = [part EXCEPT ![n].stage = to]

-----------------------------------------------------------------------------

(* The caller uploads the file, for the first time or again after a failure: *)
(* under the key it gave, so that the server can tell.                       *)
StartUpload ==
  /\ stage \in {"idle", "failed"}
  /\ uploads < MaxPartUploads
  /\ Goes("starting")
  /\ uploads' = uploads + 1
  /\ first' = 1
  /\ part' = [n \in PartNumbers |-> Unsent]
  /\ complete' = MaxPartAttempts
  /\ cancelled' = FALSE
  /\ bucket' = [stage |-> "none", parts |-> {}]
  /\ UNCHANGED <<uploadTrouble, documents>>

(* The caller aborts options.signal, which aborts the controller of the parts *)
(* that are being sent (abortFromCaller): those are rejected at once.         *)
CancelParts ==
  /\ stage \notin {"idle", "done", "failed"}
  /\ ~cancelled
  /\ cancelled' = TRUE
  /\ part' = [n \in PartNumbers |->
                IF InTransit(n) THEN [part[n] EXCEPT !.stage = "failed"] ELSE part[n]]
  /\ UNCHANGED <<stage, first, complete, uploads, uploadTrouble, bucket, documents>>

(* The answer of start: with it the upload exists; throwIfCancelled.          *)
Started ==
  /\ stage = "starting"
  /\ bucket' = [bucket EXCEPT !.stage = "open"]
  /\ Goes(IF cancelled THEN "aborting" ELSE "asking")
  /\ UNCHANGED <<first, part, complete, cancelled, uploads, uploadTrouble, documents>>

(* start failed, or its answer was lost: there is no ticket to abort with.    *)
NotStarted ==
  /\ stage = "starting"
  /\ UploadTrouble
  /\ Goes("failed")
  /\ \/ UNCHANGED bucket
     \/ bucket' = [bucket EXCEPT !.stage = "open"]
  /\ UNCHANGED <<first, part, complete, cancelled, uploads, documents>>

(* The URLs of the batch: all of its parts are sent, unless the controller is *)
(* aborted, which rejects each of them before anything is sent.               *)
SendBatch ==
  /\ stage = "asking"
  /\ Goes("parts")
  /\ part' = [n \in PartNumbers |->
                IF InBatch(n) THEN [part[n] EXCEPT !.stage = IF cancelled THEN "failed" ELSE "sending"]
                ELSE part[n]]
  /\ UNCHANGED <<first, complete, cancelled, uploads, uploadTrouble, bucket, documents>>

NoUrls ==
  /\ stage = "asking"
  /\ UploadTrouble
  /\ Goes("aborting")
  /\ UNCHANGED <<first, part, complete, cancelled, uploads, bucket, documents>>

-----------------------------------------------------------------------------
(* One part.                                                                 *)

(* The failure of an attempt: the last one, or one after the abort, rejects; *)
(* otherwise the part waits and is tried again.                              *)
FailPart(n) ==
  LET left == part[n].left - 1 IN
  part' = [part EXCEPT ![n] = [left |-> left,
                               stage |-> IF left = 0 \/ cancelled THEN "failed" ELSE "pausing"]]

PartStored(n) ==
  /\ part[n].stage = "sending"
  /\ bucket' = [bucket EXCEPT !.parts = @ \union {n}]
  /\ SetPart(n, "stored")
  /\ UNCHANGED <<stage, first, complete, cancelled, uploads, uploadTrouble, documents>>

(* The store refuses the part, or it or its answer is lost.                  *)
PartRefused(n) ==
  /\ part[n].stage = "sending"
  /\ UploadTrouble
  /\ FailPart(n)
  /\ \/ UNCHANGED bucket
     \/ bucket' = [bucket EXCEPT !.parts = @ \union {n}]
  /\ UNCHANGED <<stage, first, complete, cancelled, uploads, documents>>

(* The connection swallows the part; PART_UPLOAD_IDLE_TIMEOUT_MS later it is *)
(* given up.                                                                 *)
PartStalls(n) ==
  /\ part[n].stage = "sending"
  /\ UploadTrouble
  /\ SetPart(n, "stalled")
  /\ UNCHANGED <<stage, first, complete, cancelled, uploads, bucket, documents>>

PartTimesOut_Never(n) ==  \* Mutant: nothing watches a part that stalls.
  FALSE /\ UNCHANGED uploadVars

PartTimesOut(n) ==
  /\ part[n].stage = "stalled"
  /\ FailPart(n)
  /\ UNCHANGED <<stage, first, complete, cancelled, uploads, uploadTrouble, bucket, documents>>

(* The end of the backoff: a new URL is asked for, whether or not the caller *)
(* cancelled.                                                                *)
RenewPart(n) ==
  /\ part[n].stage = "pausing"
  /\ SetPart(n, "renewing")
  /\ UNCHANGED <<stage, first, complete, cancelled, uploads, uploadTrouble, bucket, documents>>

PartRenewed(n) ==
  /\ part[n].stage = "renewing"
  /\ SetPart(n, IF cancelled THEN "failed" ELSE "sending")
  /\ UNCHANGED <<stage, first, complete, cancelled, uploads, uploadTrouble, bucket, documents>>

PartNotRenewed(n) ==
  /\ part[n].stage = "renewing"
  /\ UploadTrouble
  /\ FailPart(n)
  /\ UNCHANGED <<stage, first, complete, cancelled, uploads, bucket, documents>>

(* Promise.allSettled: only when no part moves any more is one of them that  *)
(* failed, or the caller's abort, reason to abort.                           *)
Settled_First == \/ \A n \in BatchParts : ~IsMoving(n)
                 \/ \E n \in BatchParts : part[n].stage = "failed"
Settled == \A n \in BatchParts : ~IsMoving(n)
AnyFailed == cancelled \/ \E n \in BatchParts : part[n].stage = "failed"

BatchSettled ==
  /\ stage = "parts"
  /\ Settled
  /\ IF AnyFailed
     THEN Goes("aborting") /\ UNCHANGED first
     ELSE /\ first' = first + Batch
          /\ Goes(IF first + Batch > PartCount THEN "completing" ELSE "asking")
  /\ UNCHANGED <<part, complete, cancelled, uploads, uploadTrouble, bucket, documents>>

-----------------------------------------------------------------------------
(* complete, and abort.                                                      *)

(* The Idempotency-Key of complete: one for all attempts and uploads.        *)
Key_Attempt == <<uploads, complete>>
Key == <<0, 0>>

(* External: the first complete of an upload makes a document; later ones,   *)
(* and those of another upload with the same key, answer with that document. *)
MakeDocument ==
  /\ bucket' = [bucket EXCEPT !.stage = "completed"]
  /\ documents' = IF \E d \in documents : d.key = Key THEN documents
                  ELSE documents \union {[key |-> Key, whole |-> bucket.parts = PartNumbers]}

Completed ==
  /\ stage = "completing"
  /\ MakeDocument
  /\ Goes("done")
  /\ UNCHANGED <<first, part, complete, cancelled, uploads, uploadTrouble>>

(* complete is refused, or it or its answer is lost.                         *)
NotCompleted ==
  /\ stage = "completing"
  /\ UploadTrouble
  /\ complete' = complete - 1
  /\ Goes(IF complete = 1 THEN "aborting" ELSE "pausing")
  /\ \/ MakeDocument
     \/ UNCHANGED <<bucket, documents>>
  /\ UNCHANGED <<first, part, cancelled, uploads>>

CompleteAgain ==
  /\ stage = "pausing"
  /\ Goes("completing")
  /\ UNCHANGED <<first, part, complete, cancelled, uploads, uploadTrouble, bucket, documents>>

(* abort, whose own failure changes nothing for the caller; the controller   *)
(* is aborted before.  A completed upload cannot be aborted.                 *)
Abort ==
  /\ stage = "aborting"
  /\ Goes("failed")
  /\ \/ bucket' = [bucket EXCEPT !.stage = IF @ = "open" THEN "aborted" ELSE @] /\ UNCHANGED uploadTrouble
     \/ UNCHANGED bucket /\ UploadTrouble
  /\ UNCHANGED <<first, part, complete, cancelled, uploads, documents>>

PartStep(n) ==
  \/ PartStored(n) \/ PartRefused(n) \/ PartStalls(n) \/ PartTimesOut(n)
  \/ RenewPart(n) \/ PartRenewed(n) \/ PartNotRenewed(n)

UploadNext ==
  \/ StartUpload \/ CancelParts \/ Started \/ NotStarted \/ SendBatch \/ NoUrls
  \/ \E n \in PartNumbers : PartStep(n)
  \/ BatchSettled \/ Completed \/ NotCompleted \/ CompleteAgain \/ Abort

UploadSpec == UploadInit /\ [][UploadNext]_uploadVars

UploadProceeds == Started \/ NotStarted \/ SendBatch \/ NoUrls \/ BatchSettled
PartWakes(n) == PartTimesOut(n) \/ RenewPart(n)
PartAnswered(n) == PartStored(n) \/ PartRefused(n) \/ PartRenewed(n) \/ PartNotRenewed(n)
UploadConcludes == Completed \/ NotCompleted \/ CompleteAgain \/ Abort

(* Timers fire, the code between two requests runs, and a request that is    *)
(* answered at all is answered.  A part that stalls is not: only its timer   *)
(* ends it.                                                                  *)
UploadFairness ==
  /\ WF_uploadVars(UploadProceeds) /\ WF_uploadVars(UploadConcludes)
  /\ \A n \in PartNumbers : WF_uploadVars(PartWakes(n)) /\ WF_uploadVars(PartAnswered(n))

-----------------------------------------------------------------------------
(* The file becomes one document, and a whole one: however often complete is  *)
(* sent, answered to nobody or begun anew by the caller (every attempt has   *)
(* one key), and with the parts of every batch that failed and were sent     *)
(* again.                                                                    *)
OneWholeDocument == Cardinality(documents) <= 1 /\ \A d \in documents : d.whole

(* No part is on its way when the upload is aborted, or after it ended: a    *)
(* part that is stored after the abort would stay in the store.               *)
AbortIsLast ==
  stage \in {"aborting", "done", "failed"} => \A n \in PartNumbers : ~IsMoving(n)

(* Both: what failed and was begun anew leaves neither a second document nor *)
(* a part that is still on its way.                                          *)
UploadIsWhole == OneWholeDocument /\ AbortIsLast

(* Whoever waits for the upload gets an answer, also when a connection       *)
(* swallows a part.                                                          *)
UploadEnds == (stage \notin {"idle", "done", "failed"}) ~> (stage \in {"done", "failed"})
=============================================================================
