---------------------------- MODULE MCReconciler ----------------------------
(***************************************************************************)
(* Instances of Reconciler for TLC.                                        *)
(***************************************************************************)
EXTENDS Reconciler, TLC

\* Holders are interchangeable: no action orders them.
Symmetry == Permutations(Holders)
=============================================================================
