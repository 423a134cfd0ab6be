----------------------------- MODULE DatastoresMC -----------------------------
(***************************************************************************)
(* A small instance of Datastores: two writes of metrics, one of a ring,   *)
(* three points of two series, and a failure of each store.                *)
(***************************************************************************)
EXTENDS Datastores

CONSTANT n1

\* One node, of two vnodes.
OneRing == {[n \in {n1} |-> <<1, 3>>]}

=============================================================================
