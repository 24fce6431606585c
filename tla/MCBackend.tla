------------------------------- MODULE MCBackend -------------------------------
(***************************************************************************)
(* BackendDispatch for TLC, where runtimes are model values that are only  *)
(* compared with each other.                                               *)
(***************************************************************************)
EXTENDS BackendDispatch, TLC

Symmetry == Permutations(Runtimes)

=============================================================================
