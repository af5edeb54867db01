------------------------- MODULE DocumentSaveBarrier -------------------------
(***************************************************************************)
(* shared/lib/documentSaveBarrier.ts: the saves of one document that are   *)
(* still running and whether the last one started succeeded. A state that  *)
(* is drained and successful is deleted from the module's map; a missing   *)
(* entry reads like Fresh. Saves are named by their sequence number.       *)
(***************************************************************************)
EXTENDS Integers, FiniteSets

Fresh == [pending |-> {}, sequence |-> 0, success |-> TRUE]

DocumentSaveState == [pending : SUBSET Nat, sequence : Nat, success : BOOLEAN]

\* trackPendingDocumentSave: the save is pending from now on ...
Track(s) == [pending |-> s.pending \cup {s.sequence + 1}, sequence |-> s.sequence + 1,
             success |-> s.success]

\* Mutant: a settled save stays pending.
Settle_NeverDrains(s, seq, saved) == [s EXCEPT !.success = saved]

(***************************************************************************)
(* ... until its promise settles. Only the save started last decides       *)
(* whether the document counts as saved.                                   *)
(***************************************************************************)
Settle(s, seq, saved) ==
  LET success == IF s.sequence = seq THEN saved ELSE s.success
      left    == s.pending \ {seq}
  IN  IF left = {} /\ success THEN Fresh ELSE [s EXCEPT !.success = success, !.pending = left]

\* A promise that is already settled when it is tracked.
TrackSettled(s, saved) == Settle(Track(s), s.sequence + 1, saved)

Drained(s) == s.pending = {}
=============================================================================
