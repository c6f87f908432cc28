----------------------------- MODULE MCReconcile -----------------------------
(***************************************************************************)
(* Reconcile on small instances.  Handlers are interchangeable.            *)
(***************************************************************************)
EXTENDS Reconcile

Handlers == Permutations(Proc)
=============================================================================
