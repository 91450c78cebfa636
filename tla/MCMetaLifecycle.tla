-------------------------- MODULE MCMetaLifecycle --------------------------
(* MetaLifecycle for TLC: processes are interchangeable.                   *)
EXTENDS MetaLifecycle, TLC

Symmetry == Permutations(Procs)
=============================================================================
