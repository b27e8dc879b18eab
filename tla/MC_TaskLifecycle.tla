-------------------------- MODULE MC_TaskLifecycle --------------------------
(* Instances of TaskLifecycle for TLC. *)
EXTENDS TaskLifecycle, TLC

Interchangeable == Permutations(Token) \cup Permutations(Worker)

=============================================================================
