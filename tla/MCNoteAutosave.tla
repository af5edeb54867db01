---------------------------- MODULE MCNoteAutosave ----------------------------
(* Small instances of NoteAutosave for TLC. *)
EXTENDS NoteAutosave, TLC

CONSTANTS r1, o1

NoRemote == {}
OneRemote == {r1}
EditsOf(n, remote) == 1..n \cup remote
Edits2 == 1..2
Edits3 == 1..3
Edits4 == 1..4
Edits2R == EditsOf(2, OneRemote)
Edits3R == EditsOf(3, OneRemote)
=============================================================================
