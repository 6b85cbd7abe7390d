------------------------- MODULE MCDocumentProcessing -------------------------
(* DocumentProcessing on small instances; the cfg chooses actors and faults. *)
EXTENDS DocumentProcessing, TLC

=============================================================================
