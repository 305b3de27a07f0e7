-------------------------- MODULE MCAlertLifecycle --------------------------
(* Small instances of AlertLifecycle for TLC. *)
EXTENDS AlertLifecycle, TLC

Symmetry == Permutations(Analysts)
=============================================================================
