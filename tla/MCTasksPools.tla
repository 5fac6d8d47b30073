---------------------------- MODULE MCTasksPools ----------------------------
(* TasksPools on a small instance: a parent in one queue, its child in     *)
(* another, each queue in whichever pool it is registered in.              *)
EXTENDS TasksPools, TLC

CONSTANTS parent, child, parents, children

MCRuns    == {parent, child}
MCQueueOf == (parent :> parents) @@ (child :> children)
MCCause   == (parent :> Client) @@ (child :> parent)
=============================================================================
