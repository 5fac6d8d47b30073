----------------------------- MODULE TasksQueue -----------------------------
(***************************************************************************)
(* The queue as its users see it: worker processes that fetch one-time     *)
(* tasks from the table, run them, spawn and await child tasks and persist *)
(* what came out, the maintenance loop of TasksAuxiliaryWorker beside      *)
(* them, and the operators who edit the table.                             *)
(*                                                                         *)
(* One action is one SQL statement or transaction together with the        *)
(* JavaScript that runs on its answer up to the next await; statements of  *)
(* different workers interleave freely, and the clock may advance between  *)
(* any two of them.  A statement that compares a time uses the time its    *)
(* caller read; that time is kept in the record of the call (field at)     *)
(* where the comparison is part of a decision made earlier, and is the     *)
(* time of the statement elsewhere.                                        *)
(***************************************************************************)
EXTENDS TaskTable

CONSTANTS
    Workers,      \* worker slots: one processNextTask each at a time
    Throttle,     \* TASK_HEARTBEAT_THROTTLE_MS
    Lag,          \* how far apart the clock reads of one ping may be (a bound)
    Pings,        \* whether the tasks' code calls context.ping()
    MaxRoots,     \* how many root tasks clients schedule (a bound)
    Retries,      \* values of max_attempts root tasks are scheduled with
    ChildRetries, \* values of max_attempts child tasks are spawned with
    AdminOps,     \* the operations of ManageTasksQueueService in use
    MaxTime,      \* the clock stops here (a bound)
    MaxCrashes,   \* how many worker processes may die (a bound)
    Faults        \* whether the database may reject statements or lose answers

ASSUME QueueAssumption ==
    /\ Throttle \in Nat \ {0} /\ Lag \in Nat /\ MaxTime \in Nat /\ MaxCrashes \in Nat
    /\ MaxRoots \in Nat /\ Pings \in BOOLEAN /\ Faults \in BOOLEAN
    /\ Retries \subseteq 1..MaxAttempts /\ ChildRetries \subseteq 1..MaxAttempts
    /\ AdminOps \subseteq {"restart", "clearFailed", "delete", "update"}

VARIABLES
    now,     \* the clock
    task,    \* the table
    run,     \* what each worker slot is doing
    crashes  \* how many worker processes died

vars == <<now, task, run, crashes>>

(* What a slot waits for: the user's code (processing), or the answer of   *)
(* one statement.  The parent is woken after a finish (completing), still  *)
(* inside the try block, or after a failure (waking), in the catch block.  *)
Phases == { "idle", "resuming", "processing", "pinging", "expired",
            "finishing", "spawning", "completing", "failing", "waking" }

(* The phases in which the attempt still means to write its own row.       *)
Live == Phases \ {"idle", "completing", "waking"}

Idle == [ pc |-> "idle", task |-> NoTask, token |-> Null, hb |-> Null,
          child |-> NoTask, at |-> Null ]

TypeOK ==
    /\ now \in 0..MaxTime
    /\ task \in [TaskIds -> Rows]
    /\ run \in [Workers -> [ pc    : Phases,
                             task  : TaskIds \cup {NoTask},
                             token : Nat \cup {Null},
                             hb    : Nat \cup {Null},
                             child : TaskIds \cup {NoTask},
                             at    : Nat \cup {Null} ]]
    /\ crashes \in 0..MaxCrashes

Init ==
    /\ now = 0
    /\ task = [t \in TaskIds |-> NoRow("unused")]
    /\ run = [w \in Workers |-> Idle]
    /\ crashes = 0

Tick ==
    /\ now < MaxTime
    /\ now' = now + 1
    /\ UNCHANGED <<task, run, crashes>>

(* The slot leaves its await and goes on to the next one. *)
Goto(w, pc) == run' = [run EXCEPT ![w].pc = pc]

(* processNextTask returned. *)
Done(w) == run' = [run EXCEPT ![w] = Idle]

Row(w)  == task[run[w].task]
Owns(w) == OwnedBy(Row(w), run[w].token)

(* The serial column hands out the ids in order. *)
IsNextId(t) ==
    /\ task[t].status = "unused"
    /\ \A s \in 1..(t - 1) : task[s].status # "unused"

-----------------------------------------------------------------------------
(* Clients *)

Schedule(t, n) ==
    /\ t <= MaxRoots
    /\ IsNextId(t)
    /\ task' = [task EXCEPT ![t] = NewRow(NoTask, n)]
    /\ UNCHANGED <<now, run, crashes>>

-----------------------------------------------------------------------------
(* A worker slot *)

(* nextPending. Any due row may be the one: the priorities are the users'  *)
(* to choose, and SKIP LOCKED passes over rows other transactions hold.    *)
(* A payload with an active child makes MultiStepTask.process look it up   *)
(* first.                                                                  *)
Fetch(w, t) ==
    /\ run[w].pc = "idle"
    /\ Due(task[t], now)
    /\ task' = [task EXCEPT ![t] = Taken(@, now)]
    /\ run' = [run EXCEPT ![w] =
         [ pc    |-> IF task[t].activeChild = NoTask THEN "processing" ELSE "resuming",
           task  |-> t, token |-> now, hb |-> Null,
           child |-> task[t].activeChild, at |-> Null ]]
    /\ UNCHANGED <<now, crashes>>

ReadChildUnchecked(w) ==
    /\ run[w].pc = "resuming"
    /\ run' = [run EXCEPT ![w].pc = "processing", ![w].child = NoTask]
    /\ UNCHANGED <<now, task, crashes>>

(* MultiStepTask.process on the answer of findTaskState: a missing child   *)
(* or one that is not terminal throws, a finished one goes on to           *)
(* processNext, and on a failed one the hook childFailed does either.      *)
ReadChild(w) ==
    /\ run[w].pc = "resuming"
    /\ \E pc \in {"processing", "failing"} :
         /\ task[run[w].child].status = "finished" => pc = "processing"
         /\ ~Terminal(task[run[w].child])          => pc = "failing"
         /\ run' = [run EXCEPT ![w].pc = pc, ![w].child = NoTask]
    /\ UNCHANGED <<now, task, crashes>>

LapsedOnTheDot(w) ==
    now - (IF run[w].hb = Null THEN run[w].token ELSE run[w].hb) >= Timeout

NeverLapsed(w) == FALSE

(* ensureNotStalled, from memory: the attempt compares its own last        *)
(* heartbeat with the clock and, when that is too old, issues              *)
(* failIfStalled instead of what it came for.                              *)
Lapsed(w) ==
    now - (IF run[w].hb = Null THEN run[w].token ELSE run[w].hb) > Timeout

Expire(w) == run' = [run EXCEPT ![w].pc = "expired", ![w].at = now]

(* The user's code calls context.ping(), which reads the clock three       *)
(* times: here for the deadline (kept in at), then for the throttle and    *)
(* the memory, then for the row (PingReads).  Within the throttle window   *)
(* nothing is sent (no step at all), later a dao.ping is.                  *)
Ping(w) ==
    /\ Pings
    /\ run[w].pc = "processing"
    /\ \/ Lapsed(w) /\ Expire(w)
       \/ /\ ~Lapsed(w)
          /\ run[w].hb = Null \/ now + Lag - run[w].hb >= Throttle
          /\ run' = [run EXCEPT ![w].pc = "pinging", ![w].at = now]
    /\ UNCHANGED <<now, task, crashes>>

(* beat and sent are the second and the third read of a ping whose first   *)
(* one is over.                                                            *)
PingReads(w, beat, sent) ==
    /\ beat <= sent /\ sent <= run[w].at + Lag
    /\ run[w].hb = Null \/ beat - run[w].hb >= Throttle

(* The table after dao.ping: the owner's heartbeat is written unless the   *)
(* row has a recent one.                                                   *)
Pinged(w, sent) ==
    IF Owns(w) /\ ~(Row(w).hb # Null /\ Row(w).hb >= sent - Throttle)
      THEN [task EXCEPT ![run[w].task].hb = sent]
      ELSE task

(* dao.ping answers false when the attempt lost the row, which ping turns  *)
(* into an Error.  On true the attempt remembers a heartbeat, written or   *)
(* not: the second read of the clock, where the row may have got the third.*)
PingAnswer(w) ==
    /\ run[w].pc = "pinging"
    /\ \E beat, sent \in run[w].at..now :
         /\ PingReads(w, beat, sent)
         /\ run' = IF Owns(w) THEN [run EXCEPT ![w].pc = "processing", ![w].hb = beat,
                                               ![w].at = Null]
                              ELSE [run EXCEPT ![w].pc = "failing"]
         /\ task' = Pinged(w, sent)
    /\ UNCHANGED <<now, crashes>>

(* The user's code returns, with or without a spawned child:               *)
(* persistSuccessfulOutcome checks the deadline and issues the statement.  *)
Return(w) ==
    /\ run[w].pc = "processing"
    /\ \/ Lapsed(w) /\ Expire(w)
       \/ ~Lapsed(w) /\ Goto(w, "finishing")
       \/ ~Lapsed(w) /\ (\E c \in TaskIds : IsNextId(c)) /\ Goto(w, "spawning")
    /\ UNCHANGED <<now, task, crashes>>

(* The user's code throws. *)
Throw(w) ==
    /\ run[w].pc = "processing"
    /\ Goto(w, "failing")
    /\ UNCHANGED <<now, task, crashes>>

(* The table after dao.failIfStalled. *)
Expired(w) ==
    IF Owns(w) /\ Stalled(Row(w), run[w].at)
      THEN TimeOut(task, {run[w].task}, run[w].at)
      ELSE task

(* dao.failIfStalled, then TaskTimedOutError: its handler neither fails    *)
(* the task nor wakes its parent.                                          *)
FailIfStalled(w) ==
    /\ run[w].pc = "expired"
    /\ task' = Expired(w)
    /\ Done(w)
    /\ UNCHANGED <<now, crashes>>

FinishSilently(w) ==
    /\ run[w].pc = "finishing"
    /\ task' = IF Owns(w) THEN [task EXCEPT ![run[w].task].status = "finished"] ELSE task
    /\ Done(w)
    /\ UNCHANGED <<now, crashes>>

FinishedUnguarded(w) ==
    [task EXCEPT ![run[w].task].status = "finished", ![run[w].task].activeChild = NoTask]

(* The table after dao.finish. *)
Finished(w) ==
    IF Owns(w) THEN [task EXCEPT ![run[w].task].status = "finished",
                                 ![run[w].task].activeChild = NoTask]
               ELSE task

(* Only a finish that happened is followed by the wake-up. *)
Finish(w) ==
    /\ run[w].pc = "finishing"
    /\ task' = Finished(w)
    /\ IF Owns(w) THEN Goto(w, "completing") ELSE Done(w)
    /\ UNCHANGED <<now, crashes>>

(* dao.blockParentAndScheduleChild, one transaction: the parent is blocked *)
(* and gets its attempt back, the child is inserted and its id is stored   *)
(* in the parent's payload.                                                *)
Spawned(w, c, n) ==
    /\ Owns(w)
    /\ IsNextId(c)
    /\ task' = [task EXCEPT ![run[w].task] = Blocked(@, c),
                            ![c] = NewRow(run[w].task, n)]

Spawn(w, c, n) ==
    /\ run[w].pc = "spawning"
    /\ Spawned(w, c, n)
    /\ Done(w)
    /\ UNCHANGED <<now, crashes>>

SpawnAny(w) == \E c \in TaskIds, n \in ChildRetries : Spawn(w, c, n)

SpawnLost(w) ==
    /\ run[w].pc = "spawning"
    /\ ~Owns(w)
    /\ Done(w)
    /\ UNCHANGED <<now, task, crashes>>

FailForgivingLoss(w) ==
    /\ run[w].pc = "failing"
    /\ task' = IF Owns(w) THEN [task EXCEPT ![run[w].task] = Failed(@, now)] ELSE task
    /\ IF Owns(w) /\ ~CanRetry(Row(w)) THEN Goto(w, "waking") ELSE Done(w)
    /\ UNCHANGED <<now, crashes>>

(* dao.fail. No row updated counts as the final status error               *)
(* (getOrElseValue), and the final status error is followed by a wake-up.  *)
Fail(w) ==
    /\ run[w].pc = "failing"
    /\ task' = IF Owns(w) THEN [task EXCEPT ![run[w].task] = Failed(@, now)] ELSE task
    /\ IF Owns(w) /\ CanRetry(Row(w)) THEN Done(w) ELSE Goto(w, "waking")
    /\ UNCHANGED <<now, crashes>>

(* dao.wakeParentOnChildTerminal for the task just completed, a statement  *)
(* of its own.                                                             *)
Wake(w) ==
    /\ run[w].pc \in {"completing", "waking"}
    /\ task' = WakeParent(task, run[w].task, now)
    /\ Done(w)
    /\ UNCHANGED <<now, crashes>>

(* A statement of the try block throws, through the user's code if that    *)
(* issued it: processNextTask goes on in its catch block with dao.fail.    *)
Throws(w) ==
    /\ Faults
    /\ run' = [run EXCEPT ![w].pc = "failing", ![w].child = NoTask, ![w].at = Null]
    /\ UNCHANGED <<now, crashes>>

RejectedHalfway(w) ==
    /\ run[w].pc = "spawning"
    /\ \E c \in TaskIds, n \in ChildRetries :
         IsNextId(c) /\ task' = [task EXCEPT ![c] = NewRow(run[w].task, n)]
    /\ Throws(w)

(* The database rejects the statement. *)
Rejected(w) ==
    /\ run[w].pc \in {"resuming", "pinging", "expired", "finishing", "spawning", "completing"}
    /\ UNCHANGED task
    /\ Throws(w)

(* The database commits the statement and its answer is lost.  A parent    *)
(* that was blocked may be handed out again before the attempt has found   *)
(* out: never in the millisecond of its own start (a bound on how fast     *)
(* that can be).                                                           *)
Unanswered(w) ==
    /\ \/ /\ run[w].pc = "pinging"
          /\ \E beat, sent \in run[w].at..now :
               PingReads(w, beat, sent) /\ task' = Pinged(w, sent)
       \/ run[w].pc = "expired" /\ task' = Expired(w)
       \/ run[w].pc = "finishing" /\ task' = Finished(w)
       \/ /\ run[w].pc = "spawning" /\ run[w].token < now
          /\ \E c \in TaskIds, n \in ChildRetries : Spawned(w, c, n)
       \/ run[w].pc = "completing" /\ task' = WakeParent(task, run[w].task, now)
    /\ Throws(w)

(* The process dies and another takes its place; or a statement of the     *)
(* catch block fails, whose exception leaves processNextTask; or, right    *)
(* after Fetch, the answer of nextPending is lost, or the pool is stopping *)
(* and drops the task it was handed.                                       *)
Crash(w) ==
    /\ run[w].pc # "idle"
    /\ crashes < MaxCrashes
    /\ crashes' = crashes + 1
    /\ Done(w)
    /\ UNCHANGED <<now, task>>

-----------------------------------------------------------------------------
(* runMaintenanceOnce: three statements issued together, in any order *)

FailStalled ==
    LET stalled == {t \in TaskIds : Stalled(task[t], now)}
    IN  /\ stalled # {}
        /\ task' = TimeOut(task, stalled, now)
        /\ UNCHANGED <<now, run, crashes>>

(* Rows in error with attempts left: Retryable is what the statement       *)
(* selects.                                                                *)
Retryable(t) == task[t].status = "error" /\ CanRetry(task[t])

ResetFailed ==
    /\ task' = [t \in TaskIds |-> IF Retryable(t) THEN [task[t] EXCEPT !.status = "pending"]
                                                  ELSE task[t]]
    /\ UNCHANGED <<now, run, crashes>>

(* Which finished rows are older than the retention is left open: S.       *)
ClearFinished(S) ==
    /\ S # {}
    /\ \A t \in S : task[t].status = "finished" /\ ~HasUnfinishedAncestor(task, t)
    /\ task' = Without(task, S)
    /\ UNCHANGED <<now, run, crashes>>

-----------------------------------------------------------------------------
(* ManageTasksQueueService *)

(* restartAllFailedInQueue on the rows of S, restartFailedTask on one.     *)
RestartFailed(S) ==
    /\ "restart" \in AdminOps
    /\ S # {} /\ \A t \in S : task[t].status = "error"
    /\ task' = [t \in TaskIds |->
         IF t \in S THEN [task[t] EXCEPT !.status = "pending", !.attempt = 0] ELSE task[t]]
    /\ UNCHANGED <<now, run, crashes>>

ClearFailed ==
    LET failed == {t \in TaskIds : task[t].status = "error"}
    IN  /\ "clearFailed" \in AdminOps
        /\ failed # {}
        /\ task' = Without(task, failed)
        /\ UNCHANGED <<now, run, crashes>>

DeleteTask(t) ==
    /\ "delete" \in AdminOps
    /\ task[t].status \in {"pending", "error", "finished"}
    /\ ~HasUnfinishedAncestor(task, t)
    /\ task' = Without(task, {t})
    /\ UNCHANGED <<now, run, crashes>>

(* The operator's payload replaces the one in the row, and with it the id  *)
(* of the active child, unless the operator copied that.                   *)
UpdatePendingTask(t, n, startAfter) ==
    /\ "update" \in AdminOps
    /\ task[t].status = "pending"
    /\ \E child \in {task[t].activeChild, NoTask} :
         task' = [task EXCEPT ![t].maxAttempts = n, ![t].startAfter = startAfter,
                              ![t].activeChild = child]
    /\ UNCHANGED <<now, run, crashes>>

-----------------------------------------------------------------------------
WorkerStep(w) ==
    \/ \E t \in TaskIds : Fetch(w, t)
    \/ ReadChild(w)
    \/ Ping(w)
    \/ PingAnswer(w)
    \/ Return(w)
    \/ Throw(w)
    \/ FailIfStalled(w)
    \/ Finish(w)
    \/ SpawnAny(w)
    \/ SpawnLost(w)
    \/ Fail(w)
    \/ Wake(w)
    \/ Rejected(w)
    \/ Unanswered(w)
    \/ Crash(w)

Next ==
    \/ Tick
    \/ \E t \in TaskIds, n \in Retries : Schedule(t, n)
    \/ \E w \in Workers : WorkerStep(w)
    \/ FailStalled
    \/ ResetFailed
    \/ \E S \in SUBSET TaskIds : ClearFinished(S)
    \/ \E S \in SUBSET TaskIds : RestartFailed(S)
    \/ ClearFailed
    \/ \E t \in TaskIds : DeleteTask(t)
    \/ \E t \in TaskIds, n \in Retries, at \in {Null, now} : UpdatePendingTask(t, n, at)

Spec == Init /\ [][Next]_vars

(***************************************************************************)
(* Fairness.  Without crashes a slot never abandons a statement: the pg    *)
(* driver answers or rejects it and the continuation runs.  A rejection or *)
(* a lost answer is a step of its own and owed to nobody.  The loop of the *)
(* pipeline polls again and again, the user's code returns or throws in    *)
(* the end, and the interval of the maintenance loop fires for ever.       *)
(* Operators, clients and heartbeats owe nothing.                          *)
(***************************************************************************)
Fairness ==
    /\ WF_vars(FailStalled)
    /\ \A w \in Workers :
         /\ WF_vars(\E t \in TaskIds : Fetch(w, t))
         /\ WF_vars(Return(w) \/ Throw(w))
         /\ WF_vars(ReadChild(w) \/ PingAnswer(w) \/ FailIfStalled(w) \/ Finish(w)
                     \/ SpawnAny(w) \/ SpawnLost(w) \/ Fail(w) \/ Wake(w))

FairSpec == Spec /\ Fairness

-----------------------------------------------------------------------------
(* Properties *)

IsLive(w) == run[w].pc \in Live

(* The attempt of w is the one its row was last handed out to. *)
HoldsRow(w) ==
    Row(w).status = "in_progress" /\ Row(w).started = run[w].token

(* The start time is the token that tells the attempts of a task apart: no *)
(* two attempts of one task that still mean to write it carry the same     *)
(* one, however often the task timed out and was handed out again          *)
(* (nextPending sets started, every write is guarded by it).               *)
OneOwner ==
    \A v, w \in Workers :
        v # w /\ IsLive(v) /\ IsLive(w) /\ run[v].task = run[w].task
            => run[v].token # run[w].token

(* An attempt never gives its row up and leaves it in progress for longer  *)
(* than the clock reads of one ping may be apart: the row is due to be     *)
(* timed out by maintenance Lag later at most.  The deadline is computed   *)
(* twice (ensureNotStalled in memory, failIfStalled in the database), and  *)
(* the two disagree when the row got a later time than the memory          *)
(* (tasks-queue.worker.ts:65 and :79): the attempt then throws             *)
(* TaskTimedOutError, with the final status error (:59), and the row is    *)
(* still in progress.  Processes that die, and tasks a stopping pool       *)
(* drops, are counted by crashes.                                          *)
AbandonedIsOverdue ==
    crashes = 0 =>
        \A t \in TaskIds : task[t].status = "in_progress" =>
            \/ \E w \in Workers : IsLive(w) /\ run[w].task = t /\ HoldsRow(w)
            \/ LastActivity(task[t]) + Timeout < now + Lag

(* Attempts are accounted for exactly, through failures, time-outs and the *)
(* attempt a parent gets back with every child: a task that waits or is    *)
(* pending can always be handed out again, nobody runs an attempt too      *)
(* many, and no task ends in error with attempts left (so the maintenance  *)
(* statement resetFailed finds nothing to requeue).                        *)
RetryBudget ==
    \A t \in TaskIds :
        LET row == task[t]
        IN  /\ row.status \in {"pending", "blocked"} => row.attempt < row.maxAttempts
            /\ row.status = "in_progress" => row.attempt \in 1..row.maxAttempts
            /\ row.status = "error" => row.attempt = row.maxAttempts

(* The attempt is about to wake the parent of its task, or will be once    *)
(* its dao.fail found no row to update.                                    *)
WillWake(w) ==
    \/ run[w].pc \in {"completing", "waking"}
    \/ run[w].pc = "failing" /\ ~Owns(w)

(* A blocked parent is never forgotten: its active child is there and      *)
(* still has to become terminal, or it is terminal and a worker is about   *)
(* to issue the wake-up (finish and fail are followed by a second          *)
(* statement, which may itself be rejected; time-outs wake in their own    *)
(* transaction).  A finish whose answer was lost is followed by a dao.fail *)
(* that updates nothing, and that by the wake-up.                          *)
BlockedParentAwaited ==
    \A p \in TaskIds : task[p].status = "blocked" =>
        LET c == task[p].activeChild
        IN  /\ Exists(task[c]) /\ task[c].parent = p
            /\ Terminal(task[c]) =>
                 \E w \in Workers : run[w].task = c /\ WillWake(w)

(* A parent never has two unfinished children, although stale attempts may *)
(* wake it while its child still runs: what saves it is that               *)
(* MultiStepTask.process refuses to go on from a child that is not         *)
(* terminal.                                                               *)
OneActiveChild ==
    \A p \in TaskIds :
        Cardinality({c \in TaskIds :
            task[c].parent = p /\ task[c].status \in {"pending", "in_progress", "blocked"}}) <= 1

(* The child a task's payload refers to is not removed under it, whatever  *)
(* clearFinished and deleteTask remove: a parent that resumes, or is       *)
(* retried after it consumed the child, finds it.                          *)
ActiveChildKept ==
    \A p \in TaskIds :
        LET c == task[p].activeChild
        IN  Exists(task[p]) /\ c # NoTask => Exists(task[c]) /\ task[c].parent = p

(* docs/heartbeat.md, "Ownership and stale attempts": an attempt that lost *)
(* its row cannot heartbeat, finish, fail or block anything; whatever it   *)
(* is doing, its statements leave the whole table as it is, but for the    *)
(* wake-up of its task's blocked parent after it finished or failed (which *)
(* can be wrong: see the findings).                                        *)
StaleAttemptIsInert ==
    [][\A w \in Workers :
         run[w].pc # "idle" /\ ~HoldsRow(w) /\ run'[w] # run[w] =>
             \A t \in TaskIds : task'[t] # task[t] =>
                 /\ ~IsLive(w)
                 /\ t = Row(w).parent /\ task[t].status = "blocked"
                 /\ task'[t].status = "pending"]_vars

(* docs/heartbeat.md:52, "late heartbeat does not rescue an already        *)
(* timed-out attempt".  (Not so: see the findings.)                        *)
LateHeartbeatRescuesNothing ==
    [][\A t \in TaskIds :
         task'[t].hb \notin {Null, task[t].hb} =>
             task'[t].hb <= LastActivity(task[t]) + Timeout]_vars

(* How far that goes: a heartbeat prolongs an attempt that is over by the  *)
(* database's own reckoning by the throttle window at most (and what the   *)
(* clock reads of the ping are apart), because memory runs ahead of the    *)
(* row when dao.ping answers true without a write.                         *)
RescueBounded ==
    [][\A t \in TaskIds :
         task'[t].hb \notin {Null, task[t].hb} =>
             task'[t].hb <= LastActivity(task[t]) + Timeout + Throttle + Lag]_vars

(* docs/multi-steps-tasks.md:214, "The parent wakes only after the child   *)
(* reaches terminal finished or terminal error".  (Not so: see the         *)
(* findings.)                                                              *)
WokenByTerminalChild ==
    [][\A p \in TaskIds :
         task[p].status = "blocked" /\ task'[p].status = "pending" =>
             Terminal(task'[task[p].activeChild])]_vars

(* A blocked parent resumes in the end, whatever becomes of its child:     *)
(* finish, failure, retries, time-out, children of its own.                *)
ParentResumes ==
    \A p \in TaskIds : task[p].status = "blocked" ~> task[p].status # "blocked"

(* Every task that is scheduled or spawned ends finished or in error.      *)
EveryTaskSettles ==
    \A t \in TaskIds : task[t].status = "pending" ~> Terminal(task[t])
=============================================================================
