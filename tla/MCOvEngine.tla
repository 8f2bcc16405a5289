----------------------------- MODULE MCOvEngine -----------------------------
(* TLC instance of OvEngine: more callers than requests, so that callers   *)
(* sleep in get_idle_request, and a pool that grows once.                  *)
EXTENDS OvEngine, TLC

Symmetry == Permutations(Callers) \cup Permutations(Jobs)
=============================================================================
