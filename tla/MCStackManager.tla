--------------------------- MODULE MCStackManager ---------------------------
(* Model-checking instance of StackManager.                                *)
EXTENDS StackManager, TLC

Symmetry == Permutations(Callers)
=============================================================================
