--------------------------- MODULE MeetingCapture ---------------------------
(***************************************************************************)
(* The start and the end of a recording in the chat panel                  *)
(* (features/meeting-dictation/model/useMeetingSession.ts): a click on the *)
(* microphone asks the browser for the microphone, then the server for a   *)
(* meeting, then creates the live session of LiveSession.tla.  Each of the *)
(* two answers may come after the user stopped, started again or left the  *)
(* screen.  What the session does between its callbacks is in LiveSession. *)
(***************************************************************************)
EXTENDS Integers, FiniteSets

CONSTANTS
  MaxAttempts,         (* Bounds startAttemptRef, which start and stop count. *)
  MicrophonesInOrder   (* getUserMedia answers in the order it was asked.    *)

ASSUME MeetingCaptureAssumption ==
  /\ MaxAttempts \in Nat \ {0}
  /\ MicrophonesInOrder \in BOOLEAN

VARIABLES
  capturePhase,  (* phase; "stopped" is every phase after the recording.      *)
  onScreen,      (* isMountedRef.                                             *)
  attempt,       (* startAttemptRef.                                          *)
  starting,      (* What each attempt waits for, or "session" while its       *)
                 (* session lives.                                            *)
  captured,      (* microphoneRef: the attempt whose microphone it is, or 0.  *)
  openMics,      (* The attempts whose microphone is on, held or not.         *)
  liveAttempt    (* sessionRef: the attempt whose session it is, or 0.        *)

captureVars == <<capturePhase, onScreen, attempt, starting, captured, openMics, liveAttempt>>

Attempts == 1..MaxAttempts

CapturePhases == {"idle", "starting", "recording", "reconnecting", "finishing", "stopped"}

IsCapturingPhase(p) == p \in {"starting", "recording", "reconnecting"}

CaptureTypeOK ==
  /\ capturePhase \in CapturePhases
  /\ onScreen \in BOOLEAN
  /\ attempt \in 0..MaxAttempts
  /\ starting \in [Attempts -> {"none", "microphone", "meeting", "session"}]
  /\ captured \in openMics \union {0}
  /\ openMics \subseteq Attempts
  /\ liveAttempt \in 0..MaxAttempts

CaptureInit ==
  /\ capturePhase = "idle"
  /\ onScreen = TRUE
  /\ attempt = 0
  /\ starting = [a \in Attempts |-> "none"]
  /\ captured = 0
  /\ openMics = {}
  /\ liveAttempt = 0

IsAbandoned_Screen(a) == ~onScreen  \* Mutant: never asks whether it is the newest attempt.

IsAbandoned(a) == ~onScreen \/ a # attempt

ReleaseCapture_Forgets ==  \* Mutant: the reference is cleared, the microphone stays on.
  /\ captured' = 0
  /\ UNCHANGED openMics

(* releaseCapture: whichever microphone is held is stopped and let go.       *)
ReleaseCapture ==
  /\ openMics' = openMics \ {captured}
  /\ captured' = 0

Awaits(a, stage) == starting' = [starting EXCEPT ![a] = stage]

-----------------------------------------------------------------------------

Start ==
  /\ onScreen
  /\ capturePhase = "idle"
  /\ attempt < MaxAttempts
  /\ attempt' = attempt + 1
  /\ capturePhase' = "starting"
  /\ Awaits(attempt + 1, "microphone")
  /\ UNCHANGED <<onScreen, captured, openMics, liveAttempt>>

NextMicrophone(a) ==
  /\ starting[a] = "microphone"
  /\ MicrophonesInOrder => \A b \in Attempts : starting[b] = "microphone" => a <= b

(* The ref takes the new microphone before anybody asks whether the attempt  *)
(* was abandoned; one that was lets it go at once.                           *)
MicrophoneOpens(a) ==
  /\ NextMicrophone(a)
  /\ IF IsAbandoned(a)
     THEN /\ Awaits(a, "none")
          /\ captured' = 0
          /\ UNCHANGED openMics
     ELSE /\ Awaits(a, "meeting")
          /\ captured' = a
          /\ openMics' = openMics \union {a}
  /\ UNCHANGED <<capturePhase, onScreen, attempt, liveAttempt>>

MicrophoneIsRefused(a) ==
  /\ NextMicrophone(a)
  /\ Awaits(a, "none")
  /\ capturePhase' = IF IsAbandoned(a) THEN capturePhase ELSE "idle"
  /\ UNCHANGED <<onScreen, attempt, captured, openMics, liveAttempt>>

MeetingIsCreated(a) ==
  /\ starting[a] = "meeting"
  /\ IF IsAbandoned(a)
     THEN Awaits(a, "none") /\ ReleaseCapture /\ UNCHANGED liveAttempt
     ELSE Awaits(a, "session") /\ liveAttempt' = a /\ UNCHANGED <<captured, openMics>>
  /\ UNCHANGED <<capturePhase, onScreen, attempt>>

MeetingFails(a) ==
  /\ starting[a] = "meeting"
  /\ Awaits(a, "none")
  /\ ReleaseCapture
  /\ capturePhase' = IF IsAbandoned(a) THEN capturePhase ELSE "idle"
  /\ UNCHANGED <<onScreen, attempt, liveAttempt>>

(* onReady and onReconnecting of the session that lives.                     *)
SessionReports(a) ==
  /\ starting[a] = "session"
  /\ capturePhase' \in (IF capturePhase = "finishing" THEN {"finishing"} ELSE {"recording", "reconnecting"})
  /\ UNCHANGED <<onScreen, attempt, starting, captured, openMics, liveAttempt>>

(* handleStopped: the session ended, by itself or after finish().            *)
SessionStops(a) ==
  /\ starting[a] = "session"
  /\ Awaits(a, "none")
  /\ liveAttempt' = 0
  /\ ReleaseCapture
  /\ capturePhase' = "stopped"
  /\ UNCHANGED <<onScreen, attempt>>

(* The stop button, and the panel that is hidden while it records.           *)
StopCapture ==
  /\ onScreen
  /\ IsCapturingPhase(capturePhase)
  /\ ReleaseCapture
  /\ IF liveAttempt = 0
     THEN /\ attempt < MaxAttempts
          /\ attempt' = attempt + 1
          /\ capturePhase' = (IF capturePhase = "starting" THEN "idle" ELSE capturePhase)
     ELSE attempt' = attempt /\ capturePhase' = "finishing"
  /\ UNCHANGED <<onScreen, starting, liveAttempt>>

(* The screen is left: the session is disposed of, which calls back no more. *)
LeaveCapture ==
  /\ onScreen
  /\ onScreen' = FALSE
  /\ liveAttempt' = 0
  /\ starting' = [a \in Attempts |-> IF a = liveAttempt THEN "none" ELSE starting[a]]
  /\ ReleaseCapture
  /\ UNCHANGED <<capturePhase, attempt>>

CloseCapture ==
  /\ onScreen
  /\ capturePhase = "stopped"
  /\ capturePhase' = "idle"
  /\ UNCHANGED <<onScreen, attempt, starting, captured, openMics, liveAttempt>>

CaptureNext ==
  \/ Start \/ StopCapture \/ LeaveCapture \/ CloseCapture
  \/ \E a \in Attempts : \/ MicrophoneOpens(a) \/ MicrophoneIsRefused(a)
                         \/ MeetingIsCreated(a) \/ MeetingFails(a)
                         \/ SessionReports(a) \/ SessionStops(a)

CaptureSpec == CaptureInit /\ [][CaptureNext]_captureVars

-----------------------------------------------------------------------------

(* However starts, stops and late answers mix, one session lives at most and *)
(* it is the one the screen holds: a start that was stopped or left behind   *)
(* never records, nor does one run that the screen cannot stop (isAbandoned).*)
OneRecording == \A a \in Attempts : starting[a] = "session" => liveAttempt = a /\ onScreen

(* No microphone stays on when the screen shows no recording or is gone: the *)
(* browser's recording light would tell of a recording nobody can stop       *)
(* (releaseCapture, the cleanup of the effect and AgentPanel.tsx:209).       *)
MicrophoneIsReleased == openMics # {} => onScreen /\ IsCapturingPhase(capturePhase)

(* While the screen records, the microphone of that recording is on: nobody  *)
(* but its own end or stop turned it off.  The comment at :195 promises that *)
(* no sound is lost.                                                         *)
RecordingHears ==
  \A a \in Attempts : starting[a] = "session" /\ IsCapturingPhase(capturePhase) => a \in openMics

=============================================================================
