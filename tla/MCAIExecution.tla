---------------------------- MODULE MCAIExecution ----------------------------
(* AIExecution on small instances; each cfg chooses the policy and faults. *)
EXTENDS AIExecution, TLC

\* The jobs are interchangeable, which is sound for the safety runs only.
JobSymmetry == Permutations(Jobs)
=============================================================================
