------------------------------ MODULE MCWorkspace ------------------------------
(***************************************************************************)
(* Workspace with the symmetry of its handlers and of its paths.           *)
(***************************************************************************)
EXTENDS Workspace, TLC

Symmetry == Permutations(Proc) \union Permutations(Path)
=============================================================================
