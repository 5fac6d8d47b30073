--------------------------- MODULE MCPeriodicTask ---------------------------
(* Finite instances of PeriodicTask for TLC. The slots are alike. *)
EXTENDS PeriodicTask, TLC

Interchangeable == Permutations(Workers)
=============================================================================
