-------------------------- MODULE MCMeetingCapture --------------------------
(* A recording that is started, stopped and started again.                   *)
EXTENDS MeetingCapture
=============================================================================
