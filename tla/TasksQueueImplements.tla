------------------------ MODULE TasksQueueImplements ------------------------
(***************************************************************************)
(* TasksQueue implements TaskLifecycle: the abstract status is the column  *)
(* status, the attempts a task has left are those max_attempts still       *)
(* allows, and the owner of a task is the worker whose live attempt holds  *)
(* the start time in its row.                                              *)
(***************************************************************************)
EXTENDS TasksQueue

CONSTANT NoWorker

ASSUME NoWorkerAssumption == NoWorker \notin Workers

OwnerOf(t) ==
    IF \E w \in Workers : run[w].task = t /\ IsLive(w) /\ HoldsRow(w)
      THEN CHOOSE w \in Workers : run[w].task = t /\ IsLive(w) /\ HoldsRow(w)
      ELSE NoWorker

Lifecycle == INSTANCE TaskLifecycle WITH
    Tasks     <- TaskIds,
    Owners    <- Workers,
    NoOwner   <- NoWorker,
    MaxBudget <- MaxAttempts,
    status    <- [t \in TaskIds |-> task[t].status],
    left      <- [t \in TaskIds |-> task[t].maxAttempts - task[t].attempt],
    owner     <- [t \in TaskIds |-> OwnerOf(t)]

(* Whatever workers, timeouts, maintenance and operators do in whatever    *)
(* order, a client of the queue sees the life of a task that TaskLifecycle *)
(* describes: exclusive and revocable ownership, exact attempt accounting, *)
(* no removal of a task in progress or waiting.                            *)
ImplementsLifecycle == Lifecycle!Spec
=============================================================================
