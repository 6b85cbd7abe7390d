--------------------------- MODULE MCReportWorkflow ---------------------------
(* ReportWorkflow on small instances; the cfg chooses the actors.          *)
EXTENDS ReportWorkflow, TLC

\* Workers and clients are interchangeable.
ActorSymmetry == Permutations(Workers) \union Permutations(Clients)
=============================================================================
