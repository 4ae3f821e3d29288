---------------------------- MODULE JobExecutorMC ----------------------------
(* Instances of JobExecutor for TLC. *)
EXTENDS JobExecutor, TLC

\* Processes, tasks and lists are interchangeable; no liveness
\* property is checked under this symmetry.
Symmetry ==
    Permutations(Procs) \cup Permutations(Tasks) \cup Permutations(Lists)

=============================================================================
