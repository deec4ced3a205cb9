----------------------------- MODULE FileStore -----------------------------
(***************************************************************************)
(* What the files behind the server promise: a file appears under a name   *)
(* that was free, or disappears; what it holds never changes.              *)
(***************************************************************************)
EXTENDS FiniteSets, Functions

VARIABLE store    \* the content of each file

Add ==
  /\ Cardinality(DOMAIN store' \ DOMAIN store) = 1
  /\ Restrict(store', DOMAIN store) = store

Remove ==
  /\ Cardinality(DOMAIN store \ DOMAIN store') = 1
  /\ Restrict(store, DOMAIN store') = store'

Next == Add \/ Remove

Spec == [][Next]_store
=============================================================================
