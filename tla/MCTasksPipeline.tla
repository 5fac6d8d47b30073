--------------------------- MODULE MCTasksPipeline ---------------------------
(* TasksPipeline on small instances. *)
EXTENDS TasksPipeline, TLC

Interchangeable == Permutations(Tasks) \cup Permutations(Stoppers)
=============================================================================
