---------------------------- MODULE MCTasksQueue ----------------------------
(* TasksQueue on small instances. *)
EXTENDS TasksQueueImplements, TLC

Interchangeable == Permutations(Workers)
=============================================================================
