# Verification of tasks_queue

TLA+ models of `tasks_queue`, a task queue for Node.js on one PostgreSQL table,
the TLC runs that check them and theorems proved with TLAPS. Paths are relative
to the repository (`src/` there is the library's code), function names are
those of the code.

1. The system
2. Modules
3. Abstractions
4. Runs
5. Fairness
6. Theorems
7. Findings
8. Only model-checked, and not modelled
9. Plan

## 1. The system

Clients insert rows into the table `tasks_queue`. Pools of worker processes poll
it, run the user's code for a row, and write the outcome back; a maintenance
loop repairs what died; operators edit the table. The processes share nothing
but the table: all coordination is in the `WHERE` clauses.

| component | state | operations | correct when |
|---|---|---|---|
| `TasksQueueDao` (`tasks-queue.dao.ts`, `migration.sql`) | the table: status, `started`, `last_heartbeat`, `attempt`, `start_after`, `parent_id`, payload | `schedule`, `nextPending`, `ping`, `finish`, `fail`, `failIfStalled`, `failStalled`, `blockParentAndScheduleChild`, `wakeParentOnChildTerminal`, `rescheduleIfPeriodic`, `resetFailed`, `clearFinished` | an attempt writes only the row it owns; attempts are counted exactly; parents and children stay consistent |
| `TasksQueueWorker`, `RuntimeTaskContext` | per attempt: the token `started`, the last heartbeat in memory, the payload, the child to spawn | `processNextTask`, `ping`, `ensureNotStalled`, `persistSuccessfulOutcome`, `wakeBlockedParent` | every attempt ends with one outcome, at the right row; every terminal child wakes its parent |
| `MultiStepTask`, `SequentialTask`, `ManagedWorkflowTask` | the payload envelope: step or run count, active child | `process`, `handleResolvedChild`, `processNext`, `runStep`, `continueToNextStep`, hooks | steps run in order, one child at a time, progress is kept |
| `TasksPipeline` | `tasksInProcess`, the timer, `loopRunning`, `stopRequested`, `tasksCountListener` | `start`, `stop`, `triggerLoop`, `loop`, `processTaskInLoop` | never more tasks than slots, always somebody to poll, `stop()` waits for what runs |
| periodic schedules (`schedulePeriodic`, `PeriodicScheduleUtils`) | `repeat_type`, `repeat_interval`, `missed_runs_strategy`, `initial_start` | provisioning, the next start, replacing, editing | cadence and delay as documented, whatever fails in between |
| `TasksAuxiliaryWorker` | none | `runMaintenanceOnce` | dead attempts come back; retention removes nothing that is needed |
| `ManageTasksQueueService` | none | `restartFailedTask`, `clearFailed`, `deleteTask`, `updatePendingTask`, `updatePendingPeriodicSchedule` | no edit disturbs a running attempt or a workflow under way |
| `TasksPoolsService` and the registrars | the pool of every queue; per pool a pipeline | `registerWorker`, `start`, `stop` with a timeout, `notifyQueue` | no queue is in two pools; a resolved `stop()` leaves everything quiet; every due run of a registered queue is fetched |

What is hard here:

- *Late attempts.* The user's code cannot be interrupted. An attempt that timed
  out goes on while its successor runs, and issues its statements later. The
  start time in the row is the only thing that tells the two apart.
- *Two clocks of liveness.* The deadline is computed in memory and in SQL, with
  a heartbeat that is throttled in memory and again in SQL.
- *Two statements.* `finish` and the wake-up of the parent are separate.
- *Statements that fail.* The database may reject a statement, or commit it and lose the
  answer; the attempt cannot tell the two apart and goes on in its `catch` block.
- *Repairs that race what they repair.* `failStalled`, `failIfStalled`, `fail`,
  retention and operators meet on the same rows.
- *Callbacks.* The polling loop is called by a timer, by triggers and by the end
  of tasks, while `stop()` may come between any two of them.
- *Two pools, one service.* A task of one pool spawns a child or wakes a parent in a
  queue of the other. Queues are registered while the application boots and later,
  with tasks of theirs waiting; `stop()` of the service races the pools against a timer.

## 2. Modules

| module | models |
|---|---|
| `TaskTable` | `migration.sql` and the statements of `TasksQueueDao` as operators on a table: `Due`, `Stalled`, `Taken`, `Failed`, `Woken`, `TimeOut`, `Blocked`, `Without`, ... |
| `TasksQueue` | worker slots, maintenance and operators that issue these statements: the core |
| `TaskLifecycle` | abstract specification: what a client may rely on, without table, clock and statements |
| `TasksQueueImplements` | the refinement mapping from `TasksQueue` to `TaskLifecycle` |
| `TasksPipeline` | the polling loop of a pool with its callbacks |
| `PeriodicTask` | one periodic row, its instances, operators and attempts; uses `TaskTable` |
| `MultiStepWorkflow` | one workflow parent with its payload, steps and children; uses `TaskTable` |
| `TasksPools` | the service: two instances of `TasksPipeline`, the registration of queues, the routing of notifications, boot, `start` and `stop`, the interval of the auxiliary worker |
| `MC*` | instances for TLC, with the symmetry of the slots |
| `TaskTableProofs`, `TasksQueueProofs`, `LifecycleProofs`, `ParentChildProofs` | theorems on the queue: types, ownership, heartbeats and the budget; the refinement; parents and children |
| `TasksPipelineProofs`, `TasksPoolsProofs`, `PeriodicTaskProofs`, `MultiStepWorkflowProofs` | theorems on the module of that name |

    TaskTable <- TasksQueue <- TasksQueueImplements -> TaskLifecycle
              <- PeriodicTask, MultiStepWorkflow
    TasksPipeline <- TasksPools (twice)

**`TasksQueue`.** `task` is the table. `run[w]` is a slot: `pc` says what it waits
for, `token` is `startedAt`, `hb` is `lastHeartbeat` in memory, `child` the active
child of the payload, `at` the time it read before its statement was issued (of a ping, the
first of its three reads; `PingReads` says what the other two may be). An
action is one SQL statement or transaction, together with the JavaScript that
runs on its answer up to the next `await`. `processNextTask` is

    Fetch -> (ReadChild ->) [Ping -> PingAnswer]* -> Return -> Finish -> Wake
                                                           -> Spawn | SpawnLost
                                                  -> Throw -> Fail (-> Wake)
                            a deadline that lapsed -> FailIfStalled

with `Crash` possible at any point. `Wake` after a finish (`pc = "completing"`) is still inside the
`try` block, after a failure (`pc = "waking"`) in the `catch` block. Where `Faults` holds, a
statement of the `try` block may throw: `Rejected` leaves the table as it was, `Unanswered` is the statement
itself (`Pinged`, `Expired`, `Finished`, `Spawned`, `WakeParent` are the tables after each)
with its answer lost; both go on to `Fail`. `FailStalled`, `ResetFailed` and
`ClearFinished` are the maintenance loop, `RestartFailed`, `ClearFailed`,
`DeleteTask` and `UpdatePendingTask` the operators; `AdminOps` says which of the
latter are in use.

**`TasksPipeline`.** An action is one callback. `fetcher` is the variable
`periodicTaskFetcher` (a cleared timer keeps its handle, which is why there are
three values), `loop` is the one running `loop()` and who called it, `kicks` the
queued calls, `where[t]` the place of a task between the queue, `setImmediate`
and its end. A failed query is `QueryFails` where the application handles the rejection and
`ProcessDies` where it does not (constant `Rejections`). The arrival of a task is one of `Notified` (a notification reaches
the pool), `BecomesDue` (nobody tells), `GivenUp` and `QueueRegistered`, which
`TasksPools` calls separately.

**`TasksPools`.** A *run* is one stay of a task in the queue: a parent that is blocked
and woken again is two runs. `Cause` says what makes a run due: a client, or
the run before it, which spawns or wakes it and tells the service
(`HandsOver`), whose `notifyQueue` tells the pool that owns the queue. `unseen`
are runs that are due in a queue no pool has; `queuesPool` is the map of that name.
`answer[c]` is what the promise of a `stop()` came to, `revoked` the calls a
later `start()` overtook. `aux.lost` counts the intervals whose handle a second
`start()` overwrote.

**`PeriodicTask`.** `series` is the row. Two ghosts: `lastDone`, the last
completion under the present schedule, and `slot`, the time the next run is for.
`NextStart` is `calculateNextStartAfter` with all its cases.

**`MultiStepWorkflow`.** `kind` chooses the class of the worker. `run[w].payload`
is the payload the attempt carries in memory, `parent.payload` what the row holds:
the difference between the two is what a lost attempt loses. `ran` and `settled`
are ghosts.

In `TaskTable` the recursive query `ancestors` of `clearFinished` and `deleteTask` is the least
set of ancestors (`Ancestors`), not a recursive operator, so that it can be proved about.

Operators named after a slip (`OwnedByStatus`, `TakenKeepingStart`, ...) stand
before the definition they vary. No action uses them; they document which slip
each property catches, as listed under `mutants` in `PROJECT.json`.

## 3. Abstractions

- One clock for all processes and the database. The code sends the caller's
  `now` with its statements; `at` keeps that time where it was read before an
  earlier decision (the deadline check, a heartbeat); elsewhere it is the time of the
  statement. Clock skew between hosts is not modelled.
- `ping` reads the clock for the deadline, for the throttle and its memory, and for the row. The
  three reads are apart by `Lag` at most, a constant: with `Lag = 0` they are one. The other
  statements that follow a read of the clock take that read, or (`PeriodicTask!Return`) stand for two
  reads a millisecond apart.
- Any due row may be fetched: priorities are the users' and `SKIP LOCKED` skips.
- User code returns, spawns, throws or pings, nondeterministically. It throws
  plain errors and lets a `TaskTimedOutError` of `ping` through, and whatever else a statement of
  `ping` or of the look-up of a child throws.
- All tasks share `Timeout`, `Backoff` and `BackoffType`. `TaskTable` keeps of the
  payload only the active child; `updatePendingTask`, which replaces the whole payload, keeps or drops it.
- Retention: which finished rows are old enough is left open.
- The death of a process is `Crash` of each of its slots. `Crash` also stands for a
  statement of the `catch` block that fails (its exception leaves `processNextTask`), and
  right after `Fetch` for a lost answer of `nextPending`.
- An attempt whose spawn was committed finds out about the lost answer after the millisecond of its
  own start (the guard `token < now` of `Unanswered`); else its parent, blocked, woken and handed out again
  within that one millisecond, could carry the same start time twice.
- Statements fail in `TasksQueue` and `TasksPipeline` only. `PeriodicTask` and `MultiStepWorkflow` have crashes and
  late attempts, but no statements that fail (section 8 says why none are needed).
- `TasksPipeline` has no clock: an armed timer may fire. A query may fail at any
  time. Every caller of `loop()` and `loopTimer()` drops their promise (`tasks-pipeline.ts:93`, `:110`,
  `:154`, `:210`, `:274`), so such a failure is an unhandled rejection. Node 15 and later ends the process
  then, unless the application has a handler of unhandled rejections; the library neither installs nor
  documents one. `Rejections` says which of the two may happen: both in the runs of
  `TasksPipeline`, while `TasksPools` *assumes a handler*. A process that ends leaves its tasks in progress; the next
  `start()` is that of the process that replaces it.
  Rescheduling the timer to an earlier time happens only after
  `peekNextStartAfter`, with or without an earlier date found (`short`).
- `TasksPools`: two pools stand for any number, as no code treats a third in another way.
  `mapPromise` of the library *scats* stops the pools together or one after the
  other; the code here does not tell which, so `Stop` and `StopOther` allow both. A
  run may also become due with nobody to tell (`DueUnannounced`: scheduled for
  later, or by another process).
- `PeriodicTask`: periods are positive, cron is a tick every *n* units, no
  heartbeats, and no `updatePendingTask`, with which an operator may move `start_after` of a pending row off
  its schedule. Slots ahead of the clock are not counted on (a bound). JavaScript's
  epoch is 0 and the system starts later, at `Origin`.
- `MultiStepWorkflow`: no clock, so an attempt may time out at any time and a backoff
  end at any time. A blocked parent may be woken at any time, since stale
  attempts of a child and restarted children do wake it early (see 7): more
  behaviours than the code has, which is sound for its safety properties. Tokens are
  numbers of hand-outs. The user's part of the payload is left out. Only `SequentialTask` and
  `ManagedWorkflowTask` write the envelope: a step that throws `TaskFailed` has its payload written in place
  of the envelope (`tasks-queue.worker.ts:340`), and so has an operator who calls `updatePendingTask`
  (`manage-tasks-queue.service.ts:263`). Neither is modelled, as the row may then hold anything.

## 4. Runs

All properties are commented where they are defined. Deadlock checking is off:
the clock, the ids and the callers are bounded, and a system with nothing left
to do is at rest.

| run | question | properties |
|---|---|---|
| `attempts` | one task, two slots: do the attempts of a task ever mix? | `TypeOK`, `OneOwner`, `AbandonedIsOverdue`, `StaleAttemptIsInert`, `RescueBounded` |
| `workflow` | a chain of three tasks under time-outs, retention, deletion, rejected statements and lost answers: is a parent forgotten, a child lost or spawned twice, an attempt miscounted, and is the life of a task what clients expect? | `BlockedParentAwaited`, `OneActiveChild`, `ActiveChildKept`, `RetryBudget`, `ImplementsLifecycle` |
| `progress` | does everything end? | `ParentResumes`, `EveryTaskSettles` |
| `pool` | the callbacks of the polling loop against `start`, `stop` and failing queries | `TypeOK`, `SlotsRespected`, `StopMeansQuiet`, `PollerAlive`, `DueTaskFetched` |
| `pools` | two pools, registration, notifications across pools, boot, `stop()` against its timeout | `TypeOK`, `OnePoolPerRun`, `StoppedServiceIsQuiet`, `ServedIsMaintained`, `StopAnswered`, `WaitingRunFetched` |
| `periodic` | schedules under failures, backoffs, late attempts, replacement and edits | `TypeOK`, `SkipMissedOnCadence`, `DelayRespected`, `StaleAttemptKeepsTimer`, `RunningAttemptUndisturbed` |
| `steps` | does a workflow lose, repeat or skip a step? | `TypeOK`, `OneChildPerStep`, `StepsInOrder`, `FinishedIsComplete`, `ProgressKept` |
| `stale_wake`, `lost_wake`, `late_heartbeat`, `stop_hangs`, `catch_up` | the findings of section 7 | one property each, violated |

**Bounds.**

- `attempts`: `Timeout = 3`, `Throttle = 2`, `Lag = 1`, `MaxTime = 7`. Two attempts with
  a time-out, an exponential backoff and heartbeats in between fit; the timeout
  is above the throttle, so that a heartbeat can be swallowed and another one
  follows before the deadline. Two slots are enough for a late attempt and its
  successor. `Lag` is the least with which the reads of a ping differ, and the only run that
  has it above 0 is this one, whose properties depend on it. One process may die, statements may fail, and operators restart, edit
  and clear the task.
- `workflow`: three ids give a grandchild, or a parent with two children one
  after the other, the first of which may be removed by retention. Each task
  has two attempts (a child may have one), so that a parent and a child can be
  retried after a failed statement and spawn again; any number of statements
  fail. The clock reaches 2 with `Timeout = 1`, so that an attempt can time out
  beside its failed statement. No process dies and `clearFailed` is
  not used: both break `BlockedParentAwaited` or `ActiveChildKept` (see 7); nor
  is a pending task edited, which breaks `RetryBudget` (`attempts` has the edit).
- `progress`: as many ids, children with two attempts, any number of failed statements; the clock reaches 2 with `Timeout = 1`, so every attempt that starts
  at 0 can time out; one that starts later is ended by its own code.
- `pool`: two slots, three tasks, so that one task waits for a slot; two callers of
  `stop`, one restart (after a stop, or in place of a process that died), one queued trigger (calls
  queued at the end of a task are not bounded).
- `pools`: a parent and its child in two queues, each of which may be registered in either
  pool at any time or never; two slots in one pool and one in the other, one caller of `stop`, two
  starts, one queued trigger per pool. With one slot a parent and a child in one pool
  wait for each other's slot, with two a pool that `stop` cost a slot serves on; a second start is
  enough for a late `stop` to meet a new life of the pools. A second caller of `stop` multiplies the states
  by more than twenty, which the liveness properties do not bear; the safety properties, the ones overlapping calls could break,
  are proved for any number of callers.
- `periodic`: periods 1 and 2, `Timeout = 1`, five units of time after the first
  instance starts: a run can time out, be retried with a backoff, and complete
  after missing two slots.
- `steps`: three steps, four children (one more than there are steps, so that a
  second child for a step is possible), six hand-outs of the parent, two attempts.

## 5. Fairness

`TasksQueue!FairSpec`: the maintenance loop fires for ever (`setInterval`); a slot
polls as long as there is something due (that is what `TasksPipeline` shows with
`DueTaskFetched`); the user's code returns or throws in the end; every
statement that was issued is answered. Nothing bounds how often a statement is rejected or not
answered; as that sends the attempt to `Fail`, which costs it one, it cannot go on for ever. All weak: each of these stays enabled until
it happens. Nothing is assumed of the clock, clients, operators and heartbeats, nor
which due task is fetched. `progress` has no crashes, as a crash loses wake-ups
(finding `lost_wake`).

`TasksPipeline!FairSpec`: Node runs queued callbacks and timers, queries are
answered, rejected, or end the process, and tasks end (weak). `PollSome` is strongly fair: a query that could
hand out a task is not rejected for ever. The database may fail arbitrarily
often in between, in a process that handles the rejections; one that does not ends at the first, and
`DueTaskFetched` promises nothing until it is started again. `Start`, `Stop` and the arrival of tasks are not fair.

`TasksPools!FairSpec`: each pool is as fair as above; a run spawns or wakes what it is meant
to (`HandsOver`); the promises of `stop` are followed up (`StopOther`, `Resolve`) and
its timer fires (`Timeout`). All weak. Nobody has to register, schedule, start or stop.

`PeriodicTask` and `MultiStepWorkflow` have safety properties only.

## 6. Theorems

TLAPS proves what follows for any numbers of ids, slots, workers, steps and queues and
any timeout, backoff, throttle and period that satisfy the named assumptions
(`TableAssumption`, `QueueAssumption`, `NoWorkerAssumption`, `PipelineAssumption`, `NobodyAssumption`,
`PoolsAssumption`, `PeriodicAssumption`, `WorkflowAssumption`, and `PowersAssumption`, that powers of two are natural numbers, which the prover does
not know). Every module has its type invariant proved (`TypeCorrect`).

**The queue** (`TasksQueueProofs`). All of it holds with and without `Faults`.

- `TypeCorrect`. The inductive form `TypeInv` adds what types do not say and the
  statements rely on: a row in progress was counted at least once (its backoff is
  defined), a busy slot has a task, and a call that compares times has read one.
- `OneOwnerCorrect`, from `OwnerInv`. `OneOwner` alone is not inductive: nothing in
  it says why the start time that `nextPending` writes next differs from the tokens
  of late attempts. `OwnerInv` adds that an attempt that may yet write holds its row, or has
  a token in the past, or its row is finished or deleted (`LostLongAgo`). That holds because a row is taken
  from a *live* attempt only by a time-out, a time-out asks that the clock moved beyond
  the last activity, and the last activity is not before the start (`TimesInv`); or by a
  statement of its own whose answer was lost. The attempts that count (`Engaged`) include one that has
  finished and is about to wake: if the wake-up throws, it goes on to `fail`.
- `RescueBoundedCorrect` and `AbandonedIsOverdueCorrect`, from `HeartbeatInv`: the
  heartbeat in memory is behind that in the row by `Lag` at most (what the reads of a ping are apart), and ahead by
  the throttle at most; and calls decided on the deadline were decided rightly by the memory. So what an attempt
  gives up is given up by the statement it then issues, or overdue `Lag` later.
- `StaleAttemptIsInertCorrect`: the action property, from `TypeInv`. It speaks of whatever an attempt does; the
  wake-up of its task's blocked parent is left out of it, which is right after its own finish or failure
  and wrong in finding `stale_wake`.
- `RetryBudgetCorrect`, from `BudgetInv`: *under the assumption that
  `updatePendingTask` is not used*, which may set `max_attempts` below the
  attempts already spent.

`TasksQueueProofs` first summarises what the twenty-odd actions can do to rows in
progress in two lemmas, `LocalStepEffect` and `OutsideStepEffect`; the
invariants above and the refinement are proved from these.

**The refinement** (`LifecycleProofs`). `ImplementsLifecycleCorrect`: initial states map to initial
states, and every step maps to a step of `TaskLifecycle` or a stutter. The owner of a task is
*chosen* among the workers whose live attempt holds its row; `OneOwner` makes the
choice the only one (`OwnerIsHolder`), and `OwnerInv` that whoever fetches becomes it; `CompletedInv`, that the row of a finish stays out of
reach, that no attempt becomes an owner again when its wake-up throws.
No assumption on operators, crashes or failing statements is needed: a process that dies is an owner that
vanishes, a time-out revokes, and a statement whose answer is lost is the step it is.

**Parents and children** (`ParentChildProofs`). All three *assume that `clearFailed` is not used*
(the first remark of section 7 is what happens otherwise).

- `ActiveChildKeptCorrect`, from `KinInv`: a row that is finished has no active child,
  because `finish` takes it out of the payload; so the parent of an active child is
  unfinished, and the search for unfinished ancestors finds it.
- `BlockedParentAwaitedCorrect` *assumes that no process dies* (finding `lost_wake`). Over
  `KinInv` it is inductive: a child that becomes terminal does so by a
  statement of a worker that goes on to wake, or by a time-out that wakes in
  its own transaction. A worker goes on to wake also when the statement, or the wake-up,
  throws: `dao.fail` then finds no row to update (`WillWake`).
- `OneActiveChildCorrect` *assumes that operators at most delete tasks*: a restarted child
  beside a younger one is a second unfinished one, and an edit that drops the child from the payload of a parent
  woken too early lets it spawn another. `LastChildInv` says that an
  unsettled child is the active child of its parent, and that what is in error has
  no attempts left, so that `resetFailed` brings no child back; `LookedInv` that the active child of
  an attempt past `MultiStepTask.process` which still owns its row is terminal or
  gone from the payload; `OwnerInv` that it is the only such attempt.

**The polling loop** (`TasksPipelineProofs`), whatever `Rejections` says. `PollerAliveCorrect`, `StopMeansQuietCorrect`,
`SlotsRespectedCorrect`, from `CallsInv` (who will call the loop next; what stop left
behind) and `SlotsInv` (`tasksInProcess` is at least the number of tasks
that take a slot, equal to it before the first stop, and below the maximum
while a poll is under way, although it is read before the `await` and raised
after it: only one loop runs at a time). `TypeCorrect` needs `SlotsInv`: that the count
does not go below zero is no local fact.

**The service** (`TasksPoolsProofs`). `PoolsArePipelines`: each pool of the composition behaves as
`TasksPipeline` allows, whatever the service and the other pool do; so the theorems above
hold of every pool and are used here rather than proved again.
`OnePoolPerRunCorrect` (`OwnershipInv`: runs leave "later" in the pool of their
queue, and a queue never changes its pool), `StoppedServiceIsQuietCorrect`
(`ServiceInv`: the calls no start overtook are asked for in both pools and resolved
only by them, and the interval is cleared), `ServedIsMaintainedCorrect` (over `ServiceInv`: a call that
has been made and not answered by the second pool is neither revoked nor forgotten), `TypeCorrect` (`AuxInv`: every
interval, lost or not, was set by a start of its own).

**Periodic tasks** (`PeriodicTaskProofs`). `StaleAttemptKeepsTimerCorrect` and
`RunningAttemptUndisturbedCorrect` rest on the same argument about tokens as `OwnerInv`;
`DelayRespectedCorrect` on `DelayInv` (until the delay after the last completion is over the row
is pending and not due: nothing fails, times out or is restarted before);
`SkipMissedOnCadence` is inductive as it stands, given that a step defines the schedule anew,
completes a run or keeps the schedule (`ScheduleChanges`) and that the next slot lies on the grid of the
one before.

**Workflows** (`MultiStepWorkflowProofs`). `OneChildPerStepCorrect`, `StepsInOrderCorrect`,
`FinishedIsCompleteCorrect` and `ProgressKeptCorrect`, from `WorkflowInv`, the conjunction of
`ChildInv` (one child per step, the row stands at the step of its last child, those before are
settled), `RanInv` (the steps up to the persisted one ran) and `AttemptInv` (so did those behind the
payload an attempt carries, and an attempt that owns the row goes on only when every child is
settled, at a step no child was spawned for). All of them hold under the assumption of section 3 that only the two
classes write the envelope; for `ProgressKeptCorrect` it is the whole assumption: the module has no statement
that could write another payload.

## 7. Findings

Each is a run that TLC ends with a counterexample, and an entry under `findings` in
`PROJECT.json` with the line and the text it contradicts.

- `stale_wake` (worker, `processNextTask`): a late throw of an attempt that lost
  its row updates nothing, which counts as the final status `error`: the
  parent is woken while its child is pending. `OneActiveChild` still holds, as
  `MultiStepTask` throws in the parent; that throw costs the parent an attempt. The path cannot simply go: the
  same answer, no row updated, is what a `fail` gets after a `finish` that was committed and not
  answered, and then the wake-up it leads to is the only one. Without it (`FailForgivingLoss`)
  `workflow` finds a parent that is forgotten.
- `lost_wake`: a process that dies between `finish` and the wake-up leaves the parent
  blocked; nothing looks for such parents.
- `late_heartbeat`: `dao.ping` answers true without a write when the heartbeat in the row is exactly a throttle window
  old, and the attempt remembers the time it did not write. A later ping is in time by that memory and
  past the timeout by the row: its heartbeat rescues an attempt that is over, which `docs/heartbeat.md:52` and
  `README.md:544` exclude. `RescueBounded` says how far that goes.
- `stop_hangs`: `stop()` between the count of a task and its `setImmediate` never
  resolves, and after a restart the slot is lost.
- `catch_up`: after a terminal failure and a restart, `catch_up` counts from 1970.

Remarks on what else the models show:

- `clearFailed` removes every row in error without a look at its ancestors, also a failed child its parent has not
  looked at yet; the wake-up then finds no `parent_id` and the parent stays blocked. `README.md:597` says that "child
  tasks with unfinished ancestors are protected". `ActiveChildKept` and `BlockedParentAwaited` fail at once in
  `workflow` when `AdminOps` has "clearFailed"; they are checked and proved without it.
- `ping` remembers one read of the clock and writes a later one (`tasks-queue.worker.ts:65`, `:79`). When the two differ by
  a millisecond, an attempt may find its deadline passed a millisecond before the row is stalled: `failIfStalled`
  changes nothing, the attempt throws `TaskTimedOutError` with the final status `error` (`:59`), and the row stays in progress
  until maintenance finds it (`AbandonedIsOverdue`), where `docs/heartbeat.md:53` says "the timeout
  transition is applied immediately".
- One failed poll ends the process, with all the tasks it runs, unless the application handles unhandled rejections
  (section 3): `loop()` and `loopTimer()` have a `finally` and no `catch`. Where they are handled, the `finally` is enough for the pool to
  poll again (`PollerAlive`).
- If `mapPromise` is sequential, a `stop()` that hangs on the first pool (`stop_hangs`) has ended maintenance and leaves
  the second pool serving: the exception in `ServedIsMaintained`. What that pool then loses to a time-out
  does not come back before the next `start()`, except through another process.
- A notification that arrives while the loop asks for the next start is not acted upon: the
  task waits for the timer that loop arms. `DueTaskFetched` and `WaitingRunFetched` hold all
  the same.
- `stop()` while the loop of a timer waits for its query: the loop arms a timer in the
  stopped pool, which fires once without effect.
- A second caller of `stop()` of a pipeline replaces the listener of the first, whose promise never
  resolves; at the service the timer answers it (`StopAnswered`).
- `start()` of the service twice leaves an interval of the auxiliary worker nobody can clear:
  `StoppedServiceIsQuiet` speaks of the last one only.
- `updatePendingTask` may replace the payload of a parent and with it the reference to its
  child; and it may set `max_attempts` to the attempts already spent, which leaves the
  row pending for ever.

## 8. Only model-checked, and not modelled

Only model-checked: liveness (`ParentResumes`, `EveryTaskSettles`, `DueTaskFetched`,
`StopAnswered`, `WaitingRunFetched`), which the prover does not do
under fairness, and the findings. Every safety property of a passing run has a theorem;
those of section 6 that name an assumption on operators or crashes hold under it only,
in the runs too. That a task a stopping pool dropped comes back is not stated as a property: it needs maintenance,
of which `ServedIsMaintained` is the part that this code decides.

Not modelled:

- parsing of cron expressions (a library; a cron schedule is a tick every *n* units),
- the discovery of decorated methods and dependency injection (what the hooks do to the
  service at boot is in `TasksPools`),
- `runOnce` of `TasksQueueService`, meant for tests: one attempt of `TasksQueue` outside the loop,
- metrics, listings, trees and percentiles, which change nothing.

A period of 0 and skewed clocks are excluded by the abstractions of section 3.

Failing statements are steps of their own in `TasksQueue` and `TasksPipeline` only. In `PeriodicTask` and
`MultiStepWorkflow` they would add no value of the row. A statement that is rejected leaves the row as it
was, and the `fail` that follows is the one after a `Throw` at that place (`PeriodicTask`), or the time-out
after a `Crash`, which writes the same row where there is no clock (`MultiStepWorkflow`). A
statement that is committed and not answered is the statement itself; the `fail` that follows finds a row
the attempt no longer owns, unless the task was handed out again in the same instant, which the bound
`token < now` of `Unanswered` excludes in `TasksQueue` too.

## 9. Plan

The modules were written, and their theorems proved, in this order:

1. `TaskTable`, `TasksQueue`, their type invariant and ownership.
2. `TaskLifecycle` and the refinement, liveness.
3. `TasksPipeline`, `PeriodicTask`, `MultiStepWorkflow`.
4. Proofs of ownership, heartbeats, budget and the polling loop.
5. `TasksPools`, the composition of two pipelines, and its proofs.
6. Proofs for periodic tasks and workflows.
7. Proofs of the invariants of parents and children, and of the refinement.
8. Failing statements in `TasksQueue`, and the proofs of 4 and 7 over them.

Left for whoever goes on: clocks that differ between hosts, which `OwnerInv` shows to matter, since tokens
are start times of the caller; and an abstract specification of a workflow that `MultiStepWorkflow` and a
parent of `TasksQueue` both implement.
