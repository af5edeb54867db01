--------------------------- MODULE MCAuthSession ---------------------------
(* One tab whose requests refresh the session while the user signs out.      *)
EXTENDS AuthSession
=============================================================================
