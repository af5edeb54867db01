----------------------------- MODULE MCEditLock -----------------------------
(* Small instances of EditLock for TLC. *)
EXTENDS EditLock, TLC
=============================================================================
