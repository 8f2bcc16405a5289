-------------------------- MODULE MCThreadExecutor --------------------------
(* TLC instance of ThreadExecutor: fewer workers than tasks.               *)
EXTENDS ThreadExecutor, TLC

Symmetry == Permutations(Workers) \cup Permutations(Tasks)
=============================================================================
