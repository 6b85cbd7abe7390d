--------------------------- MODULE MCBackgroundJobs ---------------------------
(* BackgroundJobs on small instances; each cfg chooses the actors and faults. *)
EXTENDS BackgroundJobs, TLC

\* The workers are interchangeable, which is sound for the safety runs only.
WorkerSymmetry == Permutations(Workers)
=============================================================================
