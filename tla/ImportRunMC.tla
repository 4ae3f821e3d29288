---------------------------- MODULE ImportRunMC ----------------------------
(* Instances of ImportRun for TLC.                                         *)
EXTENDS ImportRun, TLC

\* The ids are interchangeable.
Symmetry == Permutations(Ids)

=============================================================================
