---------------------------- MODULE MCWorkspace ----------------------------
(* Model checking of Workspace: the tabs are interchangeable. *)
EXTENDS Workspace

TabSymmetry == Permutations(Tab)
=============================================================================
