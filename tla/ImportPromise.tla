--------------------------- MODULE ImportPromise ---------------------------
(***************************************************************************)
(* What an import of a Notion export promises of the workspace              *)
(* (features/notion-import): every folder and document of the plan is made  *)
(* at most once, in the folder the plan puts it in, which exists by then;   *)
(* a document gets each of its contents once; and when the import is        *)
(* closed nothing of it is written any more.                                *)
(***************************************************************************)
EXTENDS Naturals

CONSTANTS
  Items,         (* The folders and documents of the plan.                   *)
  Parent,        (* The folder an item is in, or Root.                       *)
  Root,
  Contents       (* The contents an item is saved with after it is made.     *)

VARIABLES
  copies,        (* How many copies of an item there are.                    *)
  place,         (* The folder an item was made in.                          *)
  written,       (* How many contents of an item were saved.                 *)
  closed

promiseVars == <<copies, place, written, closed>>

Init ==
  /\ copies = [i \in Items |-> 0]
  /\ place = [i \in Items |-> Root]
  /\ written = [i \in Items |-> 0]
  /\ closed = FALSE

Make(i) ==
  /\ ~closed
  /\ copies[i] = 0
  /\ Parent[i] # Root => copies[Parent[i]] = 1
  /\ copies' = [copies EXCEPT ![i] = 1]
  /\ place' = [place EXCEPT ![i] = Parent[i]]
  /\ UNCHANGED <<written, closed>>

Write(i) ==
  /\ ~closed
  /\ copies[i] = 1
  /\ written[i] < Contents[i]
  /\ written' = [written EXCEPT ![i] = @ + 1]
  /\ UNCHANGED <<copies, place, closed>>

Close ==
  /\ ~closed
  /\ closed' = TRUE
  /\ UNCHANGED <<copies, place, written>>

Next == Close \/ \E i \in Items : Make(i) \/ Write(i)

Spec == Init /\ [][Next]_promiseVars
=============================================================================
