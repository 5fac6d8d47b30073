----------------------------- MODULE TasksPools -----------------------------
(***************************************************************************)
(* TasksPoolsService: one process with two pools, "default" and "other",   *)
(* each with a TasksPipeline of its own, and the auxiliary worker beside   *)
(* them. The service knows which pool owns which queue, tells that pool    *)
(* when one of its tasks is due, and starts and stops everything together. *)
(*                                                                         *)
(* A run is one stay of a task in the queue: a parent that is blocked and  *)
(* woken again is two runs. Cause says what makes a run due: Client, who   *)
(* schedules it (a one-time or a periodic task, the notification is the    *)
(* same), or the run before it, which spawns this one as its child or,     *)
(* being a child, wakes it as its parent.                                  *)
(*                                                                         *)
(* The process handles the rejections of failed polls and so survives them *)
(* (see TasksPipeline for one that does not).                              *)
(***************************************************************************)
EXTENDS Integers, FiniteSets

CONSTANTS
    DefaultSlots, OtherSlots, \* concurrency of the two pools
    Queues,                   \* the queues of the tasks
    Runs, QueueOf, Cause,     \* the runs, the queue and the cause of each
    Client,                   \* the cause of the runs clients schedule
    Callers,                  \* the callers of stop(), each calls once (a bound)
    MaxStarts,                \* how often start() is called (a bound)
    MaxKicks                  \* see TasksPipeline (a bound)

NoPool == "no pool"
Pools  == {"default", "other"}

ASSUME PoolsAssumption ==
    /\ DefaultSlots \in Nat \ {0} /\ OtherSlots \in Nat \ {0}
    /\ MaxStarts \in Nat /\ MaxKicks \in Nat
    /\ IsFiniteSet(Runs) /\ Client \notin Runs /\ "nobody" \notin Callers
    /\ QueueOf \in [Runs -> Queues] /\ Cause \in [Runs -> Runs \cup {Client}]

VARIABLES
    app,        \* "booting", "up", or "failed" to boot
    queuesPool, \* the pool of every queue
    unseen,     \* runs that are due and whose queue has no worker yet
    aux,        \* the interval of the auxiliary worker
    answer,     \* what the promise of every stop() came to
    revoked     \* the calls of stop() after which start() was called

service == <<app, queuesPool, unseen, aux, answer, revoked>>

VARIABLES inProcess_d, fetcher_d, stopRequested_d, listener_d, loop_d, kicks_d,
          where_d, started_d, starts_d, stopCall_d

Default == INSTANCE TasksPipeline WITH
    MaxConcurrentTasks <- DefaultSlots, Tasks <- Runs, Stoppers <- Callers,
    Rejections <- {"handled"},
    tasksInProcess <- inProcess_d, fetcher <- fetcher_d,
    stopRequested <- stopRequested_d, listener <- listener_d, loop <- loop_d,
    kicks <- kicks_d, where <- where_d, started <- started_d,
    starts <- starts_d, stopCall <- stopCall_d

VARIABLES inProcess_o, fetcher_o, stopRequested_o, listener_o, loop_o, kicks_o,
          where_o, started_o, starts_o, stopCall_o

Other == INSTANCE TasksPipeline WITH
    MaxConcurrentTasks <- OtherSlots, Tasks <- Runs, Stoppers <- Callers,
    Rejections <- {"handled"},
    tasksInProcess <- inProcess_o, fetcher <- fetcher_o,
    stopRequested <- stopRequested_o, listener <- listener_o, loop <- loop_o,
    kicks <- kicks_o, where <- where_o, started <- started_o,
    starts <- starts_o, stopCall <- stopCall_o

defaultPool ==
    <<inProcess_d, fetcher_d, stopRequested_d, listener_d, loop_d, kicks_d,
      where_d, started_d, starts_d, stopCall_d>>
otherPool ==
    <<inProcess_o, fetcher_o, stopRequested_o, listener_o, loop_o, kicks_o,
      where_o, started_o, starts_o, stopCall_o>>

vars == <<service, defaultPool, otherPool>>

TypeOK ==
    /\ app \in {"booting", "up", "failed"}
    /\ queuesPool \in [Queues -> Pools \cup {NoPool}]
    /\ unseen \subseteq Runs
    /\ aux \in [ticking : BOOLEAN, lost : 0..MaxStarts]
    /\ answer \in [Callers -> {"none", "waiting", "resolved", "rejected"}]
    /\ revoked \subseteq Callers
    /\ Default!TypeOK /\ Other!TypeOK

(* The constructor: every pool gets a TasksQueueService, none starts. *)
Init ==
    /\ app = "booting"
    /\ queuesPool = [q \in Queues |-> NoPool]
    /\ unseen = {}
    /\ aux = [ticking |-> FALSE, lost |-> 0]
    /\ answer = [c \in Callers |-> "none"]
    /\ revoked = {}
    /\ Default!Init /\ Other!Init

PoolOf(r) == queuesPool[QueueOf[r]]

-----------------------------------------------------------------------------
(* Registration *)

(* The queue's tasks become visible to the worker of the pool. *)
QueueJoins(q, p) ==
    LET waiting == {r \in unseen : QueueOf[r] = q}
    IN  /\ queuesPool' = [queuesPool EXCEPT ![q] = p]
        /\ unseen' = unseen \ waiting
        /\ \/ p = "default" /\ Default!QueueRegistered(waiting) /\ UNCHANGED otherPool
           \/ p = "other" /\ Other!QueueRegistered(waiting) /\ UNCHANGED defaultPool

(* Mutated forms: each is what a plausible slip would make of the          *)
(* definition after it; no action uses them.                               *)
JoinsTwice(q, p) ==
    /\ app # "failed"
    /\ QueueJoins(q, p)
    /\ UNCHANGED <<app, aux, answer, revoked>>

JoinsUnheard(q, p) ==
    /\ app # "failed"
    /\ queuesPool[q] = NoPool
    /\ queuesPool' = [queuesPool EXCEPT ![q] = p]
    /\ UNCHANGED <<app, unseen, aux, answer, revoked, defaultPool, otherPool>>

JoinsAnyPool(q, p) ==
    /\ app # "failed"
    /\ queuesPool[q] = NoPool
    /\ \/ QueueJoins(q, p)
       \/ p \notin Pools /\ queuesPool' = [queuesPool EXCEPT ![q] = p]
          /\ UNCHANGED <<unseen, defaultPool, otherPool>>
    /\ UNCHANGED <<app, aux, answer, revoked>>

(* registerWorker, by the registrars that discover decorated methods while *)
(* the application boots or by anybody at any time.                        *)
RegisterWorker(q, p) ==
    /\ app # "failed"
    /\ queuesPool[q] = NoPool
    /\ p \in Pools
    /\ QueueJoins(q, p)
    /\ UNCHANGED <<app, aux, answer, revoked>>

(* registerWorker throws for a queue that has a pool and for a pool nobody *)
(* configured (no step: nothing changes). When a registrar calls it, or    *)
(* provisions a decorated task and is refused, the application does not    *)
(* start at all.                                                           *)
BootFails ==
    /\ app = "booting"
    /\ app' = "failed"
    /\ UNCHANGED <<queuesPool, unseen, aux, answer, revoked, defaultPool, otherPool>>

-----------------------------------------------------------------------------
(* Tasks become due *)

Future(r) == r \notin unseen /\ where_d[r] = "later" /\ where_o[r] = "later"

(* notifyQueue on a row just written: the pool that owns the queue is told; *)
(* without a worker for the queue the run stays pending.                   *)
NotifyQueue(r) ==
    \/ /\ PoolOf(r) = NoPool
       /\ unseen' = unseen \cup {r}
       /\ UNCHANGED <<defaultPool, otherPool>>
    \/ PoolOf(r) = "default" /\ Default!Notified(r) /\ UNCHANGED <<unseen, otherPool>>
    \/ PoolOf(r) = "other" /\ Other!Notified(r) /\ UNCHANGED <<unseen, defaultPool>>

Schedule(r) ==
    /\ app = "up"
    /\ Cause[r] = Client
    /\ Future(r)
    /\ NotifyQueue(r)
    /\ UNCHANGED <<app, queuesPool, aux, answer, revoked>>

(* The registrar of decorated periodic tasks, and hooks of the application *)
(* itself, schedule while no pool is started yet.                          *)
Provision(r) ==
    /\ app = "booting"
    /\ Cause[r] = Client
    /\ Future(r)
    /\ NotifyQueue(r)
    /\ UNCHANGED <<app, queuesPool, aux, answer, revoked>>

(* The run was scheduled for later or by another process. *)
DueUnannounced(r) ==
    /\ Cause[r] = Client
    /\ Future(r)
    /\ \/ PoolOf(r) = "default" /\ Default!BecomesDue(r) /\ UNCHANGED <<unseen, otherPool>>
       \/ PoolOf(r) = "other" /\ Other!BecomesDue(r) /\ UNCHANGED <<unseen, defaultPool>>
       \/ PoolOf(r) = NoPool /\ unseen' = unseen \cup {r} /\ UNCHANGED <<defaultPool, otherPool>>
    /\ UNCHANGED <<app, queuesPool, aux, answer, revoked>>

Running(r) == where_d[r] = "running" \/ where_o[r] = "running"

(* Within processNextTask a run spawns its child or wakes its parent, whose *)
(* queue may belong to the other pool: the queueNotifier of the worker is  *)
(* the service's notifyQueue.                                              *)
HandsOver(r) ==
    /\ Cause[r] # Client
    /\ Running(Cause[r])
    /\ Future(r)
    /\ NotifyQueue(r)
    /\ UNCHANGED <<app, queuesPool, aux, answer, revoked>>

HandedOver(r) == \A s \in Runs : Cause[s] = r => ~Future(s)

Maintaining == aux.ticking \/ aux.lost > 0

(* A row in progress that no attempt runs times out: maintenance makes it  *)
(* pending again or, without attempts left, an error.                      *)
DroppedTimesOut(r) ==
    /\ Maintaining
    /\ \/ (Default!BecomesDue(r) \/ Default!GivenUp(r)) /\ where_d[r] = "dropped"
          /\ UNCHANGED otherPool
       \/ (Other!BecomesDue(r) \/ Other!GivenUp(r)) /\ where_o[r] = "dropped"
          /\ UNCHANGED defaultPool
    /\ UNCHANGED service

-----------------------------------------------------------------------------
(* start and stop *)

(* start of the auxiliary worker: the handle of an interval that ticks is  *)
(* overwritten, and nobody can clear that one any more.                    *)
AuxStarted == [ticking |-> TRUE, lost |-> IF aux.ticking THEN aux.lost + 1 ELSE aux.lost]
AuxStopped == [aux EXCEPT !.ticking = FALSE]

StartPoolsOnly ==
    /\ revoked' = {c \in Callers : answer[c] # "none"}
    /\ Default!Start /\ Other!Start
    /\ UNCHANGED <<queuesPool, unseen, aux, answer>>

(* start of the service: the auxiliary worker and every pool. *)
StartService ==
    /\ aux' = AuxStarted
    /\ revoked' = {c \in Callers : answer[c] # "none"}
    /\ Default!Start /\ Other!Start
    /\ UNCHANGED <<queuesPool, unseen, answer>>

(* The module's hook, after those of the registrars. *)
Bootstrap == app = "booting" /\ app' = "up" /\ StartService

(* Somebody calls start again, after a stop or without one. *)
StartAgain == app = "up" /\ UNCHANGED app /\ StartService

(* stop. mapPromise of the library scats calls stop on every pool at once, *)
(* or on the next one when the promise of the one before has resolved: the *)
(* code here does not tell which.                                          *)
Stop(c) ==
    /\ app # "failed"
    /\ answer[c] = "none"
    /\ answer' = [answer EXCEPT ![c] = "waiting"]
    /\ aux' = AuxStopped
    /\ Default!Stop(c)
    /\ Other!Stop(c) \/ UNCHANGED otherPool
    /\ UNCHANGED <<app, queuesPool, unseen, revoked>>

PoolStopped(call) == call \in {"resolved", "over"}

(* mapPromise goes on, also when stop has timed out meanwhile. *)
StopOther(c) ==
    /\ answer[c] # "none"
    /\ PoolStopped(stopCall_d[c])
    /\ Other!Stop(c)
    /\ UNCHANGED <<service, defaultPool>>

AnyStopped(c) == PoolStopped(stopCall_d[c]) \/ PoolStopped(stopCall_o[c])

(* The promise of mapPromise: every pool has stopped. *)
AllStopped(c) == PoolStopped(stopCall_d[c]) /\ PoolStopped(stopCall_o[c])

Answer(c, a) ==
    /\ answer[c] = "waiting"
    /\ answer' = [answer EXCEPT ![c] = a]
    /\ UNCHANGED <<app, queuesPool, unseen, aux, revoked, defaultPool, otherPool>>

(* Promise.race: the pools come first, or the timer does. *)
Resolve(c) == AllStopped(c) /\ Answer(c, "resolved")

TimeoutOfTheLast(c) == stopCall_o[c] = "waiting" /\ Answer(c, "rejected")

Timeout(c) == ~AllStopped(c) /\ Answer(c, "rejected")

-----------------------------------------------------------------------------
(* The pools at work. A run ends when it has handed over. *)

DefaultWorks ==
    /\ \/ Default!TimerFires \/ Default!Kick \/ Default!PollNone \/ Default!QueryFails
       \/ \E r \in Runs : Default!PollSome(r) \/ Default!TaskStarts(r)
       \/ \E short \in BOOLEAN : Default!Peeked(short)
       \/ \E r \in Runs : HandedOver(r) /\ Default!TaskEnds(r)
    /\ UNCHANGED <<service, otherPool>>

OtherWorks ==
    /\ \/ Other!TimerFires \/ Other!Kick \/ Other!PollNone \/ Other!QueryFails
       \/ \E r \in Runs : Other!PollSome(r) \/ Other!TaskStarts(r)
       \/ \E short \in BOOLEAN : Other!Peeked(short)
       \/ \E r \in Runs : HandedOver(r) /\ Other!TaskEnds(r)
    /\ UNCHANGED <<service, defaultPool>>

Next ==
    \/ \E q \in Queues, p \in Pools \cup {"unknown"} : RegisterWorker(q, p)
    \/ BootFails
    \/ \E r \in Runs : Schedule(r) \/ Provision(r) \/ DueUnannounced(r) \/ HandsOver(r)
                      \/ DroppedTimesOut(r)
    \/ Bootstrap
    \/ StartAgain
    \/ \E c \in Callers : Stop(c) \/ StopOther(c) \/ Resolve(c) \/ Timeout(c)
    \/ DefaultWorks
    \/ OtherWorks

Spec == Init /\ [][Next]_vars

(***************************************************************************)
(* Fairness. Each pool is as fair as TasksPipeline says; the code of a run *)
(* spawns or wakes what it is meant to; the promises of stop are followed  *)
(* up and its timer fires. Nobody has to register, schedule, start or      *)
(* stop.                                                                   *)
(***************************************************************************)
FairSpec ==
    /\ Spec
    /\ Default!Fairness /\ Other!Fairness
    /\ \A r \in Runs : WF_vars(HandsOver(r))
    /\ \A c \in Callers : WF_vars(StopOther(c)) /\ WF_vars(Resolve(c) \/ Timeout(c))

-----------------------------------------------------------------------------
(* Properties *)

(* README.md:87, "Each queue is registered in exactly one pool": no run is *)
(* ever in the hands of a pool other than the one its queue is registered  *)
(* in, so that no two pools poll for the same row.                         *)
OnePoolPerRun ==
    \A r \in Runs :
        /\ where_d[r] # "later" => PoolOf(r) = "default"
        /\ where_o[r] # "later" => PoolOf(r) = "other"
        /\ r \in unseen => PoolOf(r) = NoPool

(* When stop() of the service has resolved and start() was not called      *)
(* since, no task runs or is about to in any pool and the interval the     *)
(* last start() set is gone, whether the pools were stopped together or    *)
(* one after the other and whatever timed out before.                      *)
StoppedServiceIsQuiet ==
    \A c \in Callers \ revoked :
        answer[c] = "resolved" =>
            Default!Occupied = 0 /\ Other!Occupied = 0 /\ ~aux.ticking

(* tasks-pools.service.ts:100: stop() races the pools against a timeout    *)
(* "to avoid hanging forever". Every call is answered, also when a pool    *)
(* dropped a task and never resolves.                                      *)
StopAnswered ==
    \A c \in Callers : answer[c] = "waiting" ~> answer[c] \in {"resolved", "rejected"}

Serves(r) ==
    \/ PoolOf(r) = "default" /\ started_d /\ Default!Leaked < DefaultSlots
    \/ PoolOf(r) = "other" /\ started_o /\ Other!Leaked < OtherSlots

Waiting(r) == r \in unseen \/ where_d[r] = "due" \/ where_o[r] = "due"

(* README.md:630, unregistered queues "accumulate pending tasks": they are *)
(* picked up once the queue is registered, though nobody makes the pool    *)
(* poll then; and so is a child or a parent in a queue of the other pool.  *)
WaitingRunFetched ==
    \A r \in Runs : Waiting(r) /\ PoolOf(r) # NoPool /\ Serves(r) ~> ~Waiting(r) \/ ~Serves(r)

(* A stop() that has not reached the second pool, and will not while the   *)
(* first one hangs: mapPromise in its sequential branch.                   *)
HalfStopped == \E c \in Callers \ revoked : answer[c] # "none" /\ stopCall_o[c] = "none"

(* A pool never serves without maintenance, in whatever order start() and  *)
(* several calls of stop() overlap: with the interval of the auxiliary     *)
(* worker gone, nothing would bring back the tasks that time out. A stop() *)
(* clears the interval before the pools have stopped, so the second pool   *)
(* is left out while it is half done.                                      *)
ServedIsMaintained ==
    /\ started_d => aux.ticking
    /\ started_o => aux.ticking \/ HalfStopped
=============================================================================
