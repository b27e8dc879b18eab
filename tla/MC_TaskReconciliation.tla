----------------------- MODULE MC_TaskReconciliation -----------------------
(* Instances of TaskReconciliation for TLC. *)
EXTENDS TaskReconciliation, TLC

Interchangeable ==
    Permutations(Call) \cup Permutations(Sweep) \cup Permutations(Command)
    \cup Permutations(Evidence)

=============================================================================
