------------------------ MODULE MCMultiStepWorkflow ------------------------
(* Finite instances of MultiStepWorkflow for TLC. The slots are alike. *)
EXTENDS MultiStepWorkflow, TLC

Interchangeable == Permutations(Workers)
=============================================================================
