---------------------------- MODULE TasksPipeline ----------------------------
(***************************************************************************)
(* The polling loop of one pool: TasksPipeline and the start, stop and     *)
(* tasksScheduled of the TasksQueueWorker that owns it.                    *)
(*                                                                         *)
(* JavaScript runs one callback at a time up to its next await, so an      *)
(* action is one callback, or one answer of the database and what runs on  *)
(* it.  Callbacks that wait their turn are part of the state: the timer    *)
(* behind periodicTaskFetcher, calls of loop() queued by setTimeout and    *)
(* setImmediate, tasks handed to setImmediate.  There is no clock: a timer *)
(* that is armed may fire.                                                 *)
(***************************************************************************)
EXTENDS Integers, FiniteSets

CONSTANTS
    MaxConcurrentTasks, \* maxConcurrentTasks of the pool
    Tasks,              \* the tasks of its queues
    Stoppers,           \* the callers of stop(), each calls once (a bound)
    Rejections,         \* what becomes of a rejection nobody awaits
    MaxStarts,          \* how often start() is called (a bound)
    MaxKicks            \* triggerLoop queues no more calls of loop() (a bound)

(* Every caller of loop() and loopTimer() drops their promise, so that a   *)
(* poll that fails is an unhandled rejection: "fatal" to the process, the  *)
(* default of Node 15 and later, or "handled" where the application has    *)
(* installed a handler of such rejections (the library installs none).     *)
ASSUME PipelineAssumption ==
    /\ MaxConcurrentTasks \in Nat \ {0} /\ MaxStarts \in Nat /\ MaxKicks \in Nat
    /\ IsFiniteSet(Tasks)
    /\ Rejections \subseteq {"handled", "fatal"}

Nobody == "nobody"

ASSUME NobodyAssumption == Nobody \notin Stoppers

VARIABLES
    tasksInProcess,
    fetcher,        \* periodicTaskFetcher: null, an armed timer or a cleared one
    stopRequested,
    listener,       \* whose promise tasksCountListener resolves
    loop,           \* where the one running loop() waits, and who called it
    kicks,          \* calls of loop() that are queued
    where,          \* of every task
    started,        \* TasksQueueWorker.started
    starts,         \* how often start() was called
    stopCall        \* what became of every call of stop()

vars == <<tasksInProcess, fetcher, stopRequested, listener, loop, kicks, where,
          started, starts, stopCall>>

(* A task is "later" before it is due, "spawned" between setImmediate and  *)
(* processTaskInLoop, and "dropped" when the pipeline took it from the     *)
(* queue and then did not run it, or the process died with it: its row     *)
(* stays in progress.                                                      *)
Places == {"later", "due", "spawned", "running", "done", "dropped"}

At(place) == {t \in Tasks : where[t] = place}

Resting == [pc |-> "resting", by |-> "kick"]
loopRunning == loop.pc # "resting"

TypeOK ==
    /\ tasksInProcess \in 0..MaxConcurrentTasks
    /\ fetcher \in {"null", "armed", "cleared"}
    /\ stopRequested \in BOOLEAN
    /\ listener \in Stoppers \cup {Nobody}
    /\ loop \in [pc : {"resting", "polling", "peeking"}, by : {"timer", "kick"}]
    /\ kicks \in Nat
    /\ where \in [Tasks -> Places]
    /\ started \in BOOLEAN
    /\ starts \in 0..MaxStarts
    /\ stopCall \in [Stoppers -> {"none", "waiting", "resolved", "over"}]

Init ==
    /\ tasksInProcess = 0
    /\ fetcher = "null"
    /\ stopRequested = FALSE
    /\ listener = Nobody
    /\ loop = Resting
    /\ kicks = 0
    /\ where = [t \in Tasks |-> "later"]
    /\ started = FALSE
    /\ starts = 0
    /\ stopCall = [s \in Stoppers |-> "none"]

-----------------------------------------------------------------------------
(* Callers *)

(* A stop() that resolved is over when the pool is started again. *)
Start ==
    /\ starts < MaxStarts
    /\ starts' = starts + 1
    /\ started' = TRUE
    /\ stopRequested' = FALSE
    /\ fetcher' = "armed"
    /\ stopCall' = [s \in Stoppers |-> IF stopCall[s] = "resolved" THEN "over" ELSE stopCall[s]]
    /\ UNCHANGED <<tasksInProcess, listener, loop, kicks, where>>

(* clearTimeout leaves the handle where it is. A caller that has to wait   *)
(* replaces the listener of the one before.                                *)
Stop(s) ==
    /\ stopCall[s] = "none"
    /\ started' = FALSE
    /\ stopRequested' = TRUE
    /\ fetcher' = IF fetcher = "armed" THEN "cleared" ELSE fetcher
    /\ IF tasksInProcess > 0
         THEN /\ listener' = s
              /\ stopCall' = [stopCall EXCEPT ![s] = "waiting"]
         ELSE /\ stopCall' = [stopCall EXCEPT ![s] = "resolved"]
              /\ UNCHANGED listener
    /\ UNCHANGED <<tasksInProcess, loop, kicks, where, starts>>

TriggerLoop ==
    IF ~loopRunning /\ ~stopRequested /\ kicks < MaxKicks
      THEN kicks' = kicks + 1
      ELSE UNCHANGED kicks

(* tasksScheduled of the worker *)
TasksScheduled == IF started THEN TriggerLoop ELSE UNCHANGED kicks

(* A task of the pool's queues is scheduled, spawned or woken, and the     *)
(* worker is told.                                                         *)
Notified(t) ==
    /\ where[t] = "later"
    /\ where' = [where EXCEPT ![t] = "due"]
    /\ TasksScheduled
    /\ UNCHANGED <<tasksInProcess, fetcher, stopRequested, listener, loop, started, starts, stopCall>>

(* Nobody is told when start_after passes, when another process schedules  *)
(* the task, and when the row of a dropped task times out.                 *)
BecomesDue(t) ==
    /\ where[t] \in {"later", "dropped"}
    /\ where' = [where EXCEPT ![t] = "due"]
    /\ UNCHANGED <<tasksInProcess, fetcher, stopRequested, listener, loop, kicks,
                   started, starts, stopCall>>

(* The row of a dropped task times out and has no attempts left. *)
GivenUp(t) ==
    /\ where[t] = "dropped"
    /\ where' = [where EXCEPT ![t] = "done"]
    /\ UNCHANGED <<tasksInProcess, fetcher, stopRequested, listener, loop, kicks,
                   started, starts, stopCall>>

(* registerWorker: the next poll asks for the queue as well, so that those *)
(* of its tasks that are due can be found; nothing makes the pool poll.    *)
QueueRegistered(S) ==
    /\ S \subseteq At("later")
    /\ where' = [t \in Tasks |-> IF t \in S THEN "due" ELSE where[t]]
    /\ UNCHANGED <<tasksInProcess, fetcher, stopRequested, listener, loop, kicks,
                   started, starts, stopCall>>

-----------------------------------------------------------------------------
(* loop *)

(* Mutated forms: each is what a plausible slip would make of the          *)
(* definition after it; no action uses them.                               *)
MayPollOneMore(n) == n <= MaxConcurrentTasks /\ ~stopRequested

(* How a loop() goes on at the head of its while: another poll while a     *)
(* slot is free, else it returns. n is tasksInProcess by then.             *)
MayPoll(n) == n < MaxConcurrentTasks /\ ~stopRequested

RearmUnlessThrown(by, short, thrown) ==
    IF fetcher = "null" THEN (IF by = "timer" /\ ~thrown THEN "armed" ELSE "null")
    ELSE IF short THEN "armed" ELSE fetcher

(* What the end of a loop() makes of the timer. A loop that found a task   *)
(* due before the timer would fire arms it anew (short); loopTimer arms it *)
(* in its finally, thrown or not, unless somebody did meanwhile.           *)
Rearm(by, short, thrown) ==
    IF fetcher = "null" THEN (IF by = "timer" THEN "armed" ELSE "null")
    ELSE IF short THEN "armed" ELSE fetcher

LoopEnds(short, thrown) ==
    /\ loop' = Resting
    /\ fetcher' = Rearm(loop.by, short, thrown)

(* A call of loop(): nothing while another one runs or after stop. *)
LoopCalled(by) ==
    IF loopRunning \/ ~MayPoll(tasksInProcess)
      THEN UNCHANGED loop
      ELSE loop' = [pc |-> "polling", by |-> by]

(* loopTimer: the handle is null while its loop() runs, and the timer is   *)
(* armed again at once when that returns at once.                          *)
TimerFires ==
    /\ fetcher = "armed"
    /\ LoopCalled("timer")
    /\ fetcher' = IF loopRunning \/ ~MayPoll(tasksInProcess) THEN "armed" ELSE "null"
    /\ UNCHANGED <<tasksInProcess, stopRequested, listener, kicks, where, started, starts, stopCall>>

Kick ==
    /\ kicks > 0
    /\ kicks' = kicks - 1
    /\ LoopCalled("kick")
    /\ UNCHANGED <<tasksInProcess, fetcher, stopRequested, listener, where, started, starts, stopCall>>

PollSomeAfterStop(t) ==
    /\ loop.pc = "polling"
    /\ where[t] = "due"
    /\ where' = [where EXCEPT ![t] = "spawned"]
    /\ tasksInProcess' = tasksInProcess + 1
    /\ IF MayPoll(tasksInProcess + 1)
         THEN UNCHANGED <<loop, fetcher>>
         ELSE LoopEnds(FALSE, FALSE)
    /\ UNCHANGED <<stopRequested, listener, kicks, started, starts, stopCall>>

(* nextPending hands out a task. The row is in progress now, whether stop  *)
(* was requested meanwhile or not.                                         *)
PollSome(t) ==
    /\ loop.pc = "polling"
    /\ where[t] = "due"
    /\ IF stopRequested
         THEN /\ where' = [where EXCEPT ![t] = "dropped"]
              /\ LoopEnds(FALSE, FALSE)
              /\ UNCHANGED tasksInProcess
         ELSE /\ where' = [where EXCEPT ![t] = "spawned"]
              /\ tasksInProcess' = tasksInProcess + 1
              /\ IF MayPoll(tasksInProcess + 1)
                   THEN UNCHANGED <<loop, fetcher>>
                   ELSE LoopEnds(FALSE, FALSE)
    /\ UNCHANGED <<stopRequested, listener, kicks, started, starts, stopCall>>

PollNone ==
    /\ loop.pc = "polling"
    /\ At("due") = {}
    /\ IF stopRequested
         THEN LoopEnds(FALSE, FALSE)
         ELSE loop' = [loop EXCEPT !.pc = "peeking"] /\ UNCHANGED fetcher
    /\ UNCHANGED <<tasksInProcess, stopRequested, listener, kicks, where, started, starts, stopCall>>

(* peekNextStartAfter: the next start_after is near, or it is not. *)
Peeked(short) ==
    /\ loop.pc = "peeking"
    /\ LoopEnds(short, FALSE)
    /\ UNCHANGED <<tasksInProcess, stopRequested, listener, kicks, where, started, starts, stopCall>>

(* Either query fails: the rejection leaves loop() through its finally,    *)
(* and loopTimer through its own, and ends up in the application's handler. *)
QueryFails ==
    /\ "handled" \in Rejections
    /\ loopRunning
    /\ LoopEnds(FALSE, TRUE)
    /\ UNCHANGED <<tasksInProcess, stopRequested, listener, kicks, where, started, starts, stopCall>>

Abandoned == [t \in Tasks |-> IF where[t] \in {"spawned", "running"} THEN "dropped" ELSE where[t]]

(* Either query fails and nobody handles the rejection: Node ends the      *)
(* process. Its tasks stay in progress; the next start() is that of the    *)
(* process that replaces it.                                               *)
ProcessDies ==
    /\ "fatal" \in Rejections
    /\ loopRunning
    /\ tasksInProcess' = 0
    /\ fetcher' = "null"
    /\ stopRequested' = FALSE
    /\ listener' = Nobody
    /\ loop' = Resting
    /\ kicks' = 0
    /\ where' = Abandoned
    /\ started' = FALSE
    /\ stopCall' = [s \in Stoppers |-> IF stopCall[s] = "none" THEN "none" ELSE "over"]
    /\ UNCHANGED starts

-----------------------------------------------------------------------------
(* processTaskInLoop *)

(* Once stop is requested, a task that was counted is not run, and not     *)
(* counted down.                                                           *)
TaskStarts(t) ==
    /\ where[t] = "spawned"
    /\ where' = [where EXCEPT ![t] = IF stopRequested THEN "dropped" ELSE "running"]
    /\ UNCHANGED <<tasksInProcess, fetcher, stopRequested, listener, loop, kicks,
                   started, starts, stopCall>>

TaskEndsUncounted(t) ==
    /\ where[t] = "running"
    /\ where' = [where EXCEPT ![t] = "done"]
    /\ kicks' = kicks + 1
    /\ UNCHANGED <<tasksInProcess, fetcher, stopRequested, listener, loop, started, starts, stopCall>>

(* taskIsDone, and the loop is called again. *)
TaskEnds(t) ==
    /\ where[t] = "running"
    /\ where' = [where EXCEPT ![t] = "done"]
    /\ tasksInProcess' = tasksInProcess - 1
    /\ IF listener # Nobody /\ tasksInProcess' <= 0
         THEN /\ stopCall' = [stopCall EXCEPT ![listener] =
                                IF stopRequested THEN "resolved" ELSE "over"]
              /\ listener' = Nobody
         ELSE UNCHANGED <<stopCall, listener>>
    /\ kicks' = kicks + 1
    /\ UNCHANGED <<fetcher, stopRequested, loop, started, starts>>

-----------------------------------------------------------------------------
Next ==
    \/ Start
    \/ \E s \in Stoppers : Stop(s)
    \/ \E t \in Tasks : Notified(t)
    \/ \E t \in Tasks : BecomesDue(t)
    \/ \E t \in Tasks : GivenUp(t)
    \/ \E S \in SUBSET Tasks : QueueRegistered(S)
    \/ TimerFires
    \/ Kick
    \/ \E t \in Tasks : PollSome(t)
    \/ PollNone
    \/ \E short \in BOOLEAN : Peeked(short)
    \/ QueryFails
    \/ ProcessDies
    \/ \E t \in Tasks : TaskStarts(t)
    \/ \E t \in Tasks : TaskEnds(t)

Spec == Init /\ [][Next]_vars

(***************************************************************************)
(* Fairness.  Node runs every callback that waits, every query is answered *)
(* and every task ends.  The database may fail, but not for ever when      *)
(* there is a task to hand out.                                            *)
(***************************************************************************)
Fairness ==
    /\ WF_vars(TimerFires)
    /\ WF_vars(Kick)
    /\ WF_vars((\E t \in Tasks : PollSome(t)) \/ PollNone \/ (\E short \in BOOLEAN : Peeked(short))
                \/ QueryFails \/ ProcessDies)
    /\ SF_vars(\E t \in Tasks : PollSome(t))
    /\ \A t \in Tasks : WF_vars(TaskStarts(t)) /\ WF_vars(TaskEnds(t))

FairSpec == Spec /\ Fairness

-----------------------------------------------------------------------------
(* Properties *)

(* The tasks that take a slot. *)
Active   == At("spawned") \cup At("running")
Occupied == Cardinality(Active)

(* Slots counted by tasksInProcess that no task occupies. *)
Leaked == tasksInProcess - Occupied

(* No interleaving of the timer, the queued calls, the answers of the      *)
(* database and stop and start runs more tasks than the pool has slots, or *)
(* counts a slot free that is taken; and only stop can cost the pool slots *)
(* (see StopResolves).                                                     *)
SlotsRespected ==
    /\ Leaked >= 0 /\ tasksInProcess <= MaxConcurrentTasks
    /\ (\A s \in Stoppers : stopCall[s] = "none") => Leaked = 0

(* When a stop() has resolved, and until the pool is started again, no     *)
(* task runs or is about to, whatever the answer to a poll in flight is.   *)
StopMeansQuiet ==
    \A s \in Stoppers : stopCall[s] = "resolved" => Occupied = 0

(* While the pool is started something will poll: the timer is armed, or   *)
(* the loop it called is running and arms it again, thrown or not. A poll  *)
(* that fails either ends the process, and then the pool is not started,   *)
(* or leaves the poller alive: never a process that serves no more.        *)
PollerAlive ==
    started => fetcher = "armed" \/ (loopRunning /\ loop.by = "timer")

(* A due task is taken from the queue, whatever triggers were ignored      *)
(* because a loop was running and whatever failed polls the process        *)
(* survived, while the pool is started and has not lost all its slots.     *)
DueTaskFetched ==
    \A t \in Tasks :
        (where[t] = "due" /\ started /\ Leaked < MaxConcurrentTasks)
            ~> (where[t] # "due" \/ ~started)

(* tasks-pipeline.ts:132, stop "waits for all running tasks to complete":  *)
(* it resolves once they did. (Not so: see the findings.)                  *)
StopResolves ==
    \A s \in Stoppers : stopCall[s] = "waiting" ~> stopCall[s] # "waiting"
=============================================================================
