------------------------ MODULE MCRefreshAheadCache ------------------------
(***************************************************************************)
(* Instances of RefreshAheadCache for TLC.                                 *)
(***************************************************************************)
EXTENDS RefreshAheadCache, TLC

\* Keys, values and callers are interchangeable: no action orders them.
Symmetry == Permutations(Keys) \cup Permutations(Vals) \cup Permutations(Callers)
=============================================================================
