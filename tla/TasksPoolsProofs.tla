-------------------------- MODULE TasksPoolsProofs --------------------------
(***************************************************************************)
(* Theorems about TasksPools, for every set of queues, runs and callers    *)
(* and any number of slots. What is proved of a pipeline holds of each of  *)
(* the two pools, as every step of the service is a step of the pipeline   *)
(* of a pool or leaves it alone.                                           *)
(***************************************************************************)
EXTENDS TasksPools, FiniteSetTheorems, TLAPS

DefaultProofs == INSTANCE TasksPipelineProofs WITH
    MaxConcurrentTasks <- DefaultSlots, Tasks <- Runs, Stoppers <- Callers,
    Rejections <- {"handled"},
    tasksInProcess <- inProcess_d, fetcher <- fetcher_d,
    stopRequested <- stopRequested_d, listener <- listener_d, loop <- loop_d,
    kicks <- kicks_d, where <- where_d, started <- started_d,
    starts <- starts_d, stopCall <- stopCall_d

OtherProofs == INSTANCE TasksPipelineProofs WITH
    MaxConcurrentTasks <- OtherSlots, Tasks <- Runs, Stoppers <- Callers,
    Rejections <- {"handled"},
    tasksInProcess <- inProcess_o, fetcher <- fetcher_o,
    stopRequested <- stopRequested_o, listener <- listener_o, loop <- loop_o,
    kicks <- kicks_o, where <- where_o, started <- started_o,
    starts <- starts_o, stopCall <- stopCall_o

-----------------------------------------------------------------------------
(* Both instances of a pipeline are the same specification.                *)

LEMMA SameDefault == Default!Spec <=> DefaultProofs!Spec
<1>1. Default!Init <=> DefaultProofs!Init
  BY DEF Default!Init, DefaultProofs!Init, Default!Nobody, DefaultProofs!Nobody,
         Default!Resting, DefaultProofs!Resting
<1>2. [Default!Next]_(Default!vars) <=> [DefaultProofs!Next]_(DefaultProofs!vars)
  BY DEF Default!Next, DefaultProofs!Next, Default!vars, DefaultProofs!vars,
         Default!Start, DefaultProofs!Start, Default!Stop, DefaultProofs!Stop,
         Default!Notified, DefaultProofs!Notified, Default!BecomesDue, DefaultProofs!BecomesDue,
         Default!GivenUp, DefaultProofs!GivenUp,
         Default!QueueRegistered, DefaultProofs!QueueRegistered, Default!At, DefaultProofs!At,
         Default!TasksScheduled, DefaultProofs!TasksScheduled,
         Default!TriggerLoop, DefaultProofs!TriggerLoop,
         Default!TimerFires, DefaultProofs!TimerFires,
         Default!LoopCalled, DefaultProofs!LoopCalled, Default!MayPoll, DefaultProofs!MayPoll,
         Default!loopRunning, DefaultProofs!loopRunning, Default!Kick, DefaultProofs!Kick,
         Default!PollSome, DefaultProofs!PollSome, Default!PollNone, DefaultProofs!PollNone,
         Default!LoopEnds, DefaultProofs!LoopEnds, Default!Rearm, DefaultProofs!Rearm,
         Default!Resting, DefaultProofs!Resting, Default!Peeked, DefaultProofs!Peeked,
         Default!QueryFails, DefaultProofs!QueryFails,
         Default!ProcessDies, DefaultProofs!ProcessDies,
         Default!TaskStarts, DefaultProofs!TaskStarts, Default!TaskEnds, DefaultProofs!TaskEnds,
         Default!Nobody, DefaultProofs!Nobody
<1> QED
  BY <1>1, <1>2, PTL DEF Default!Spec, DefaultProofs!Spec

LEMMA DefaultStep == [Next]_vars => [Default!Next]_(Default!vars)
<1> SUFFICES ASSUME [Next]_vars
             PROVE  [Default!Next]_(Default!vars)
  OBVIOUS
<1> USE DEF vars, service, defaultPool, otherPool, Default!vars
<1>1. CASE UNCHANGED vars
  BY <1>1
<1>2. ASSUME NEW q \in Queues, NEW p \in Pools \cup {"unknown"}, RegisterWorker(q, p)
      PROVE  [Default!Next]_(Default!vars)
  <2> DEFINE W == {r \in unseen : QueueOf[r] = q}
  <2>1. Default!QueueRegistered(W) \/ UNCHANGED defaultPool
    BY <1>2 DEF RegisterWorker, QueueJoins
  <2>2. Default!QueueRegistered(W) => W \in SUBSET Runs
    BY DEF Default!QueueRegistered, Default!At
  <2> QED
    BY <2>1, <2>2 DEF Default!Next
<1>3. CASE BootFails
  BY <1>3 DEF BootFails
<1>4. ASSUME NEW r \in Runs, Schedule(r) \/ Provision(r) \/ DueUnannounced(r) \/ HandsOver(r)
      PROVE  [Default!Next]_(Default!vars)
  <2>1. Default!Notified(r) \/ Default!BecomesDue(r) \/ UNCHANGED defaultPool
    BY <1>4 DEF Schedule, Provision, DueUnannounced, HandsOver, NotifyQueue
  <2> QED
    BY <2>1 DEF Default!Next
<1>5. ASSUME NEW r \in Runs, DroppedTimesOut(r)
      PROVE  [Default!Next]_(Default!vars)
  BY <1>5 DEF DroppedTimesOut, Default!Next
<1>6. CASE Bootstrap \/ StartAgain
  BY <1>6 DEF Bootstrap, StartAgain, StartService, Default!Next
<1>7. ASSUME NEW c \in Callers, Stop(c) \/ StopOther(c) \/ Resolve(c) \/ Timeout(c)
      PROVE  [Default!Next]_(Default!vars)
  BY <1>7 DEF Stop, StopOther, Resolve, Timeout, Answer, Default!Next
<1>8. CASE DefaultWorks
  BY <1>8 DEF DefaultWorks, Default!Next
<1>9. CASE OtherWorks
  BY <1>9 DEF OtherWorks
<1> QED
  BY <1>1, <1>2, <1>3, <1>4, <1>5, <1>6, <1>7, <1>8, <1>9 DEF Next

LEMMA SameOther == Other!Spec <=> OtherProofs!Spec
<1>1. Other!Init <=> OtherProofs!Init
  BY DEF Other!Init, OtherProofs!Init, Other!Nobody, OtherProofs!Nobody,
         Other!Resting, OtherProofs!Resting
<1>2. [Other!Next]_(Other!vars) <=> [OtherProofs!Next]_(OtherProofs!vars)
  BY DEF Other!Next, OtherProofs!Next, Other!vars, OtherProofs!vars,
         Other!Start, OtherProofs!Start, Other!Stop, OtherProofs!Stop,
         Other!Notified, OtherProofs!Notified, Other!BecomesDue, OtherProofs!BecomesDue,
         Other!GivenUp, OtherProofs!GivenUp,
         Other!QueueRegistered, OtherProofs!QueueRegistered, Other!At, OtherProofs!At,
         Other!TasksScheduled, OtherProofs!TasksScheduled,
         Other!TriggerLoop, OtherProofs!TriggerLoop,
         Other!TimerFires, OtherProofs!TimerFires,
         Other!LoopCalled, OtherProofs!LoopCalled, Other!MayPoll, OtherProofs!MayPoll,
         Other!loopRunning, OtherProofs!loopRunning, Other!Kick, OtherProofs!Kick,
         Other!PollSome, OtherProofs!PollSome, Other!PollNone, OtherProofs!PollNone,
         Other!LoopEnds, OtherProofs!LoopEnds, Other!Rearm, OtherProofs!Rearm,
         Other!Resting, OtherProofs!Resting, Other!Peeked, OtherProofs!Peeked,
         Other!QueryFails, OtherProofs!QueryFails,
         Other!ProcessDies, OtherProofs!ProcessDies,
         Other!TaskStarts, OtherProofs!TaskStarts, Other!TaskEnds, OtherProofs!TaskEnds,
         Other!Nobody, OtherProofs!Nobody
<1> QED
  BY <1>1, <1>2, PTL DEF Other!Spec, OtherProofs!Spec

LEMMA OtherStep == [Next]_vars => [Other!Next]_(Other!vars)
<1> SUFFICES ASSUME [Next]_vars
             PROVE  [Other!Next]_(Other!vars)
  OBVIOUS
<1> USE DEF vars, service, otherPool, defaultPool, Other!vars
<1>1. CASE UNCHANGED vars
  BY <1>1
<1>2. ASSUME NEW q \in Queues, NEW p \in Pools \cup {"unknown"}, RegisterWorker(q, p)
      PROVE  [Other!Next]_(Other!vars)
  <2> DEFINE W == {r \in unseen : QueueOf[r] = q}
  <2>1. Other!QueueRegistered(W) \/ UNCHANGED otherPool
    BY <1>2 DEF RegisterWorker, QueueJoins
  <2>2. Other!QueueRegistered(W) => W \in SUBSET Runs
    BY DEF Other!QueueRegistered, Other!At
  <2> QED
    BY <2>1, <2>2 DEF Other!Next
<1>3. CASE BootFails
  BY <1>3 DEF BootFails
<1>4. ASSUME NEW r \in Runs, Schedule(r) \/ Provision(r) \/ DueUnannounced(r) \/ HandsOver(r)
      PROVE  [Other!Next]_(Other!vars)
  <2>1. Other!Notified(r) \/ Other!BecomesDue(r) \/ UNCHANGED otherPool
    BY <1>4 DEF Schedule, Provision, DueUnannounced, HandsOver, NotifyQueue
  <2> QED
    BY <2>1 DEF Other!Next
<1>5. ASSUME NEW r \in Runs, DroppedTimesOut(r)
      PROVE  [Other!Next]_(Other!vars)
  BY <1>5 DEF DroppedTimesOut, Other!Next
<1>6. CASE Bootstrap \/ StartAgain
  BY <1>6 DEF Bootstrap, StartAgain, StartService, Other!Next
<1>7. ASSUME NEW c \in Callers, Stop(c) \/ StopOther(c) \/ Resolve(c) \/ Timeout(c)
      PROVE  [Other!Next]_(Other!vars)
  BY <1>7 DEF Stop, StopOther, Resolve, Timeout, Answer, Other!Next
<1>8. CASE OtherWorks
  BY <1>8 DEF OtherWorks, Other!Next
<1>9. CASE DefaultWorks
  BY <1>9 DEF DefaultWorks
<1> QED
  BY <1>1, <1>2, <1>3, <1>4, <1>5, <1>6, <1>7, <1>8, <1>9 DEF Next

(* A composition of pipelines: each pool behaves as TasksPipeline allows,  *)
(* whatever the service, the registrars and the other pool do to it.       *)
THEOREM PoolsArePipelines == Spec => Default!Spec /\ Other!Spec
<1>1. Init => Default!Init /\ Other!Init
  BY DEF Init
<1> QED
  BY <1>1, DefaultStep, OtherStep, PTL DEF Spec, Default!Spec, Other!Spec

(* What TasksPipelineProofs knows of each pool. *)
LEMMA PipelineInvariants ==
    Spec => /\ []DefaultProofs!CallsInv /\ []DefaultProofs!SlotsInv
            /\ []OtherProofs!CallsInv /\ []OtherProofs!SlotsInv
<1>1. /\ IsFiniteSet(Runs) <=> DefaultProofs!IsFiniteSet(Runs)
      /\ IsFiniteSet(Runs) <=> OtherProofs!IsFiniteSet(Runs)
  BY DEF DefaultProofs!IsFiniteSet, OtherProofs!IsFiniteSet, IsFiniteSet
<1>6. {"handled"} \subseteq {"handled", "fatal"}
  OBVIOUS
<1>2. DefaultProofs!Spec => []DefaultProofs!CallsInv
  BY <1>1, <1>6, DefaultProofs!CallsInvariance, PoolsAssumption, PTL DEF DefaultProofs!Nobody
<1>3. DefaultProofs!Spec => []DefaultProofs!SlotsInv
  BY <1>1, <1>6, DefaultProofs!SlotsInvariance, PoolsAssumption, PTL DEF DefaultProofs!Nobody
<1>4. OtherProofs!Spec => []OtherProofs!CallsInv
  BY <1>1, <1>6, OtherProofs!CallsInvariance, PoolsAssumption, PTL DEF OtherProofs!Nobody
<1>5. OtherProofs!Spec => []OtherProofs!SlotsInv
  BY <1>1, <1>6, OtherProofs!SlotsInvariance, PoolsAssumption, PTL DEF OtherProofs!Nobody
<1> QED
  BY <1>2, <1>3, <1>4, <1>5, SameDefault, SameOther, PoolsArePipelines, PTL

-----------------------------------------------------------------------------
(* One pool per run *)

(* OnePoolPerRun with what it takes to say it. A run that leaves "later"   *)
(* does so in the pool of its queue, and no queue changes its pool.        *)
OwnershipInv ==
    /\ queuesPool \in [Queues -> Pools \cup {NoPool}]
    /\ unseen \subseteq Runs
    /\ where_d \in [Runs -> Default!Places] /\ where_o \in [Runs -> Other!Places]
    /\ OnePoolPerRun

(* A pipeline at work never touches a run that is not in its hands yet.    *)
LEMMA WorkKeepsLater ==
    /\ DefaultWorks /\ where_d \in [Runs -> Default!Places] =>
           /\ where_d' \in [Runs -> Default!Places]
           /\ \A r \in Runs : where_d[r] = "later" => where_d'[r] = "later"
    /\ OtherWorks /\ where_o \in [Runs -> Other!Places] =>
           /\ where_o' \in [Runs -> Other!Places]
           /\ \A r \in Runs : where_o[r] = "later" => where_o'[r] = "later"
<1>1. ASSUME DefaultWorks, where_d \in [Runs -> Default!Places]
      PROVE  /\ where_d' \in [Runs -> Default!Places]
             /\ \A r \in Runs : where_d[r] = "later" => where_d'[r] = "later"
  <2>1. CASE UNCHANGED where_d
    BY <1>1, <2>1
  <2>2. ASSUME NEW r \in Runs, Default!PollSome(r)
        PROVE  where_d[r] = "due" /\ \E p \in {"dropped", "spawned"} : where_d' = [where_d EXCEPT ![r] = p]
    BY <2>2 DEF Default!PollSome
  <2>3. ASSUME NEW r \in Runs, Default!TaskStarts(r)
        PROVE  where_d[r] = "spawned" /\ \E p \in {"dropped", "running"} : where_d' = [where_d EXCEPT ![r] = p]
    BY <2>3 DEF Default!TaskStarts
  <2>4. ASSUME NEW r \in Runs, Default!TaskEnds(r)
        PROVE  where_d[r] = "running" /\ where_d' = [where_d EXCEPT ![r] = "done"]
    BY <2>4 DEF Default!TaskEnds
  <2>5. Default!TimerFires \/ Default!Kick \/ Default!PollNone \/ Default!QueryFails
          \/ (\E short \in BOOLEAN : Default!Peeked(short)) => UNCHANGED where_d
    BY DEF Default!TimerFires, Default!Kick, Default!PollNone, Default!QueryFails, Default!Peeked
  <2>6. UNCHANGED where_d \/ \E r \in Runs, p \in {"dropped", "spawned", "running", "done"} :
            where_d[r] # "later" /\ where_d' = [where_d EXCEPT ![r] = p]
    BY <1>1, <2>2, <2>3, <2>4, <2>5 DEF DefaultWorks
  <2> QED
    BY <1>1, <2>1, <2>6 DEF Default!Places
<1>2. ASSUME OtherWorks, where_o \in [Runs -> Other!Places]
      PROVE  /\ where_o' \in [Runs -> Other!Places]
             /\ \A r \in Runs : where_o[r] = "later" => where_o'[r] = "later"
  <2>1. CASE UNCHANGED where_o
    BY <1>2, <2>1
  <2>2. ASSUME NEW r \in Runs, Other!PollSome(r)
        PROVE  where_o[r] = "due" /\ \E p \in {"dropped", "spawned"} : where_o' = [where_o EXCEPT ![r] = p]
    BY <2>2 DEF Other!PollSome
  <2>3. ASSUME NEW r \in Runs, Other!TaskStarts(r)
        PROVE  where_o[r] = "spawned" /\ \E p \in {"dropped", "running"} : where_o' = [where_o EXCEPT ![r] = p]
    BY <2>3 DEF Other!TaskStarts
  <2>4. ASSUME NEW r \in Runs, Other!TaskEnds(r)
        PROVE  where_o[r] = "running" /\ where_o' = [where_o EXCEPT ![r] = "done"]
    BY <2>4 DEF Other!TaskEnds
  <2>5. Other!TimerFires \/ Other!Kick \/ Other!PollNone \/ Other!QueryFails
          \/ (\E short \in BOOLEAN : Other!Peeked(short)) => UNCHANGED where_o
    BY DEF Other!TimerFires, Other!Kick, Other!PollNone, Other!QueryFails, Other!Peeked
  <2>6. UNCHANGED where_o \/ \E r \in Runs, p \in {"dropped", "spawned", "running", "done"} :
            where_o[r] # "later" /\ where_o' = [where_o EXCEPT ![r] = p]
    BY <1>2, <2>2, <2>3, <2>4, <2>5 DEF OtherWorks
  <2> QED
    BY <1>2, <2>1, <2>6 DEF Other!Places
<1> QED
  BY <1>1, <1>2

LEMMA OwnershipInvNext == OwnershipInv /\ [Next]_vars => OwnershipInv'
<1> SUFFICES ASSUME OwnershipInv, [Next]_vars
             PROVE  OwnershipInv'
  OBVIOUS
<1> USE PoolsAssumption DEF OwnershipInv, OnePoolPerRun, PoolOf, Pools, NoPool
<1>1. CASE UNCHANGED vars
  BY <1>1 DEF vars, service, defaultPool, otherPool
<1>2. ASSUME NEW q \in Queues, NEW p \in Pools \cup {"unknown"}, RegisterWorker(q, p)
      PROVE  OwnershipInv'
  <2> DEFINE W == {r \in unseen : QueueOf[r] = q}
  <2>1. /\ queuesPool[q] = NoPool /\ p \in Pools
        /\ queuesPool' = [queuesPool EXCEPT ![q] = p] /\ unseen' = unseen \ W
    BY <1>2 DEF RegisterWorker, QueueJoins
  <2>2. \A r \in Runs : QueueOf[r] = q => where_d[r] = "later" /\ where_o[r] = "later"
    BY <2>1
  <2>3. CASE p = "default"
    <3>1. /\ where_d' = [r \in Runs |-> IF r \in W THEN "due" ELSE where_d[r]]
          /\ where_o' = where_o
      BY <1>2, <2>3 DEF RegisterWorker, QueueJoins, Default!QueueRegistered, otherPool
    <3> QED
      BY <2>1, <2>2, <2>3, <3>1 DEF Default!Places
  <2>4. CASE p = "other"
    <3>1. /\ where_o' = [r \in Runs |-> IF r \in W THEN "due" ELSE where_o[r]]
          /\ where_d' = where_d
      BY <1>2, <2>4 DEF RegisterWorker, QueueJoins, Other!QueueRegistered, defaultPool
    <3> QED
      BY <2>1, <2>2, <2>4, <3>1 DEF Other!Places
  <2> QED
    BY <2>1, <2>3, <2>4
<1>3. CASE BootFails
  BY <1>3 DEF BootFails, defaultPool, otherPool
<1>4. ASSUME NEW r \in Runs, Schedule(r) \/ Provision(r) \/ DueUnannounced(r) \/ HandsOver(r)
      PROVE  OwnershipInv'
  <2>1. queuesPool' = queuesPool
    BY <1>4 DEF Schedule, Provision, DueUnannounced, HandsOver
  <2>2. \/ PoolOf(r) = NoPool /\ unseen' = unseen \cup {r} /\ UNCHANGED <<where_d, where_o>>
        \/ PoolOf(r) = "default" /\ where_d' = [where_d EXCEPT ![r] = "due"] /\ UNCHANGED <<unseen, where_o>>
        \/ PoolOf(r) = "other" /\ where_o' = [where_o EXCEPT ![r] = "due"] /\ UNCHANGED <<unseen, where_d>>
    BY <1>4 DEF Schedule, Provision, DueUnannounced, HandsOver, NotifyQueue, defaultPool, otherPool,
                Default!Notified, Default!BecomesDue, Other!Notified, Other!BecomesDue
  <2>3. QueueOf[r] \in Queues /\ "due" \in Default!Places /\ "due" \in Other!Places
    BY DEF Default!Places, Other!Places
  <2>4. CASE PoolOf(r) = NoPool /\ unseen' = unseen \cup {r} /\ UNCHANGED <<where_d, where_o>>
    BY <2>1, <2>4
  <2>5. CASE PoolOf(r) = "default" /\ where_d' = [where_d EXCEPT ![r] = "due"] /\ UNCHANGED <<unseen, where_o>>
    BY <2>1, <2>3, <2>5
  <2>6. CASE PoolOf(r) = "other" /\ where_o' = [where_o EXCEPT ![r] = "due"] /\ UNCHANGED <<unseen, where_d>>
    BY <2>1, <2>3, <2>6
  <2> QED
    BY <2>2, <2>4, <2>5, <2>6
<1>5. ASSUME NEW r \in Runs, DroppedTimesOut(r)
      PROVE  OwnershipInv'
  <2>1. \/ /\ where_d[r] = "dropped" /\ where_o' = where_o
           /\ \E p \in {"due", "done"} : where_d' = [where_d EXCEPT ![r] = p]
        \/ /\ where_o[r] = "dropped" /\ where_d' = where_d
           /\ \E p \in {"due", "done"} : where_o' = [where_o EXCEPT ![r] = p]
    BY <1>5 DEF DroppedTimesOut, defaultPool, otherPool, Default!BecomesDue, Default!GivenUp,
                Other!BecomesDue, Other!GivenUp
  <2>2. queuesPool' = queuesPool /\ unseen' = unseen
    BY <1>5 DEF DroppedTimesOut, service
  <2>3. {"due", "done"} \subseteq Default!Places /\ {"due", "done"} \subseteq Other!Places
    BY DEF Default!Places, Other!Places
  <2>4. ASSUME where_d[r] = "dropped", where_o' = where_o,
               NEW p \in {"due", "done"}, where_d' = [where_d EXCEPT ![r] = p]
        PROVE  OwnershipInv'
    <3>1. \A s \in Runs : where_d'[s] # "later" => where_d[s] # "later"
      BY <2>4
    <3>2. where_d' \in [Runs -> Default!Places]
      BY <2>3, <2>4
    <3> QED
      BY <2>2, <2>4, <3>1, <3>2
  <2>5. ASSUME where_o[r] = "dropped", where_d' = where_d,
               NEW p \in {"due", "done"}, where_o' = [where_o EXCEPT ![r] = p]
        PROVE  OwnershipInv'
    <3>1. \A s \in Runs : where_o'[s] # "later" => where_o[s] # "later"
      BY <2>5
    <3>2. where_o' \in [Runs -> Other!Places]
      BY <2>3, <2>5
    <3> QED
      BY <2>2, <2>5, <3>1, <3>2
  <2> QED
    BY <2>1, <2>4, <2>5
<1>6. CASE Bootstrap \/ StartAgain
  BY <1>6 DEF Bootstrap, StartAgain, StartService, Default!Start, Other!Start
<1>7. ASSUME NEW c \in Callers, Stop(c) \/ StopOther(c) \/ Resolve(c) \/ Timeout(c)
      PROVE  OwnershipInv'
  BY <1>7 DEF Stop, StopOther, Resolve, Timeout, Answer, Default!Stop, Other!Stop,
              service, defaultPool, otherPool
<1>8. CASE DefaultWorks
  BY <1>8, WorkKeepsLater DEF DefaultWorks, service, otherPool
<1>9. CASE OtherWorks
  BY <1>9, WorkKeepsLater DEF OtherWorks, service, defaultPool
<1> QED
  BY <1>1, <1>2, <1>3, <1>4, <1>5, <1>6, <1>7, <1>8, <1>9 DEF Next

LEMMA OwnershipInvariance == Spec => []OwnershipInv
<1>1. Init => OwnershipInv
  BY DEF Init, OwnershipInv, OnePoolPerRun, Default!Init, Other!Init, Default!Places, Other!Places
<1> QED
  BY <1>1, OwnershipInvNext, PTL DEF Spec

(* Whatever is registered when, and by whoever makes a run due, no two     *)
(* pools ever hold the same run, nor one that is not its queue's.          *)
THEOREM OnePoolPerRunCorrect == Spec => []OnePoolPerRun
<1>1. OwnershipInv => OnePoolPerRun
  BY DEF OwnershipInv
<1> QED
  BY <1>1, OwnershipInvariance, PTL

-----------------------------------------------------------------------------
(* A service that was stopped *)

(* What the service and a pool know of the calls of stop. A call nobody    *)
(* revoked by start() is not over in any pool, keeps the pools it reached  *)
(* stopped and the interval cleared.                                       *)
CallsTracked(call, requested, waiter) ==
    /\ call \in [Callers -> {"none", "waiting", "resolved", "over"}]
    /\ waiter \in Callers => call[waiter] # "none"
    /\ \A c \in Callers : answer[c] = "none" => call[c] = "none"
    /\ \A c \in Callers \ revoked :
           /\ call[c] # "none" => requested
           /\ call[c] # "over"
           /\ answer[c] = "resolved" => PoolStopped(call[c])

ServiceInv ==
    /\ aux \in [ticking : BOOLEAN, lost : Nat]
    /\ answer \in [Callers -> {"none", "waiting", "resolved", "rejected"}]
    /\ revoked \subseteq Callers /\ \A c \in revoked : answer[c] # "none"
    /\ \A c \in Callers \ revoked : answer[c] # "none" => ~aux.ticking
    /\ CallsTracked(stopCall_d, stopRequested_d, listener_d)
    /\ CallsTracked(stopCall_o, stopRequested_o, listener_o)

(* The end of a task may resolve a call; no other step of a pool that      *)
(* works touches the calls.                                                *)
LEMMA WorkKeepsTrack ==
    /\ CallsTracked(stopCall_d, stopRequested_d, listener_d) /\ DefaultWorks =>
           CallsTracked(stopCall_d, stopRequested_d, listener_d)'
    /\ CallsTracked(stopCall_o, stopRequested_o, listener_o) /\ OtherWorks =>
           CallsTracked(stopCall_o, stopRequested_o, listener_o)'
<1> USE PoolsAssumption DEF CallsTracked, PoolStopped, service
<1>1. ASSUME CallsTracked(stopCall_d, stopRequested_d, listener_d), DefaultWorks
      PROVE  CallsTracked(stopCall_d, stopRequested_d, listener_d)'
  <2>1. UNCHANGED <<answer, revoked>>
    BY <1>1 DEF DefaultWorks
  <2>2. CASE UNCHANGED <<stopCall_d, stopRequested_d, listener_d>>
    BY <1>1, <2>1, <2>2
  <2>3. ASSUME NEW r \in Runs, Default!TaskEnds(r)
        PROVE  CallsTracked(stopCall_d, stopRequested_d, listener_d)'
    <3>1. CASE UNCHANGED <<stopCall_d, listener_d>>
      BY <1>1, <2>1, <2>3, <3>1 DEF Default!TaskEnds
    <3>2. CASE /\ stopCall_d' = [stopCall_d EXCEPT ![listener_d] =
                                    IF stopRequested_d THEN "resolved" ELSE "over"]
               /\ listener_d' = "nobody"
      <4>1. stopRequested_d' = stopRequested_d
        BY <2>3 DEF Default!TaskEnds
      <4>2. \A c \in Callers : c # listener_d => stopCall_d'[c] = stopCall_d[c]
        BY <1>1, <3>2
      <4>3. listener_d \in Callers \ revoked => stopRequested_d /\ stopCall_d'[listener_d] = "resolved"
        BY <1>1, <3>2
      <4>4. listener_d \in Callers => answer[listener_d] # "none"
        BY <1>1
      <4>5. stopCall_d' \in [Callers -> {"none", "waiting", "resolved", "over"}]
        BY <1>1, <3>2
      <4> QED
        BY <1>1, <2>1, <3>2, <4>1, <4>2, <4>3, <4>4, <4>5
    <3> QED
      BY <2>3, <3>1, <3>2 DEF Default!TaskEnds, Default!Nobody
  <2>4. \/ UNCHANGED <<stopCall_d, stopRequested_d, listener_d>>
        \/ \E r \in Runs : Default!TaskEnds(r)
    BY <1>1 DEF DefaultWorks, Default!TimerFires, Default!Kick, Default!PollNone,
                Default!QueryFails, Default!PollSome, Default!TaskStarts, Default!Peeked
  <2> QED
    BY <2>2, <2>3, <2>4
<1>2. ASSUME CallsTracked(stopCall_o, stopRequested_o, listener_o), OtherWorks
      PROVE  CallsTracked(stopCall_o, stopRequested_o, listener_o)'
  <2>1. UNCHANGED <<answer, revoked>>
    BY <1>2 DEF OtherWorks
  <2>2. CASE UNCHANGED <<stopCall_o, stopRequested_o, listener_o>>
    BY <1>2, <2>1, <2>2
  <2>3. ASSUME NEW r \in Runs, Other!TaskEnds(r)
        PROVE  CallsTracked(stopCall_o, stopRequested_o, listener_o)'
    <3>1. CASE UNCHANGED <<stopCall_o, listener_o>>
      BY <1>2, <2>1, <2>3, <3>1 DEF Other!TaskEnds
    <3>2. CASE /\ stopCall_o' = [stopCall_o EXCEPT ![listener_o] =
                                    IF stopRequested_o THEN "resolved" ELSE "over"]
               /\ listener_o' = "nobody"
      <4>1. stopRequested_o' = stopRequested_o
        BY <2>3 DEF Other!TaskEnds
      <4>2. \A c \in Callers : c # listener_o => stopCall_o'[c] = stopCall_o[c]
        BY <1>2, <3>2
      <4>3. listener_o \in Callers \ revoked => stopRequested_o /\ stopCall_o'[listener_o] = "resolved"
        BY <1>2, <3>2
      <4>4. listener_o \in Callers => answer[listener_o] # "none"
        BY <1>2
      <4>5. stopCall_o' \in [Callers -> {"none", "waiting", "resolved", "over"}]
        BY <1>2, <3>2
      <4> QED
        BY <1>2, <2>1, <3>2, <4>1, <4>2, <4>3, <4>4, <4>5
    <3> QED
      BY <2>3, <3>1, <3>2 DEF Other!TaskEnds, Other!Nobody
  <2>4. \/ UNCHANGED <<stopCall_o, stopRequested_o, listener_o>>
        \/ \E r \in Runs : Other!TaskEnds(r)
    BY <1>2 DEF OtherWorks, Other!TimerFires, Other!Kick, Other!PollNone,
                Other!QueryFails, Other!PollSome, Other!TaskStarts, Other!Peeked
  <2> QED
    BY <2>2, <2>3, <2>4
<1> QED
  BY <1>1, <1>2

LEMMA ServiceInvNext == ServiceInv /\ [Next]_vars => ServiceInv'
<1> SUFFICES ASSUME ServiceInv, [Next]_vars
             PROVE  ServiceInv'
  OBVIOUS
<1> USE PoolsAssumption DEF ServiceInv
<1> DEFINE Untouched == UNCHANGED <<answer, revoked, aux, stopCall_d, stopRequested_d, listener_d,
                                    stopCall_o, stopRequested_o, listener_o>>
<1>0. CASE Untouched
  BY <1>0 DEF CallsTracked
<1>1. CASE UNCHANGED vars
  BY <1>0, <1>1 DEF vars, service, defaultPool, otherPool
<1>2. ASSUME NEW q \in Queues, NEW p \in Pools \cup {"unknown"}, RegisterWorker(q, p)
      PROVE  ServiceInv'
  BY <1>0, <1>2 DEF RegisterWorker, QueueJoins, Default!QueueRegistered, Other!QueueRegistered,
                    defaultPool, otherPool
<1>3. CASE BootFails
  BY <1>0, <1>3 DEF BootFails, defaultPool, otherPool
<1>4. ASSUME NEW r \in Runs, Schedule(r) \/ Provision(r) \/ DueUnannounced(r) \/ HandsOver(r)
      PROVE  ServiceInv'
  BY <1>0, <1>4 DEF Schedule, Provision, DueUnannounced, HandsOver, NotifyQueue,
                    Default!Notified, Default!BecomesDue, Other!Notified, Other!BecomesDue,
                    defaultPool, otherPool
<1>5. ASSUME NEW r \in Runs, DroppedTimesOut(r)
      PROVE  ServiceInv'
  BY <1>0, <1>5 DEF DroppedTimesOut, service, defaultPool, otherPool, Default!BecomesDue,
                    Default!GivenUp, Other!BecomesDue, Other!GivenUp
<1>6. CASE Bootstrap \/ StartAgain
  <2>1. /\ revoked' = {c \in Callers : answer[c] # "none"} /\ answer' = answer
        /\ listener_d' = listener_d /\ listener_o' = listener_o
        /\ stopCall_d' = [c \in Callers |-> IF stopCall_d[c] = "resolved" THEN "over" ELSE stopCall_d[c]]
        /\ stopCall_o' = [c \in Callers |-> IF stopCall_o[c] = "resolved" THEN "over" ELSE stopCall_o[c]]
    BY <1>6 DEF Bootstrap, StartAgain, StartService, Default!Start, Other!Start
  <2>2. aux' = AuxStarted
    BY <1>6 DEF Bootstrap, StartAgain, StartService
  <2>3. aux.ticking \in BOOLEAN /\ aux.lost \in Nat
    OBVIOUS
  <2>4. AuxStarted \in [ticking : BOOLEAN, lost : Nat]
    BY <2>3 DEF AuxStarted
  <2> QED
    BY <2>1, <2>2, <2>4 DEF CallsTracked
<1>7. ASSUME NEW c \in Callers, Stop(c) \/ StopOther(c)
      PROVE  ServiceInv'
  <2>1. /\ \A b \in Callers : b # c => answer'[b] = answer[b]
        /\ answer'[c] \in {"waiting", answer[c]} /\ answer'[c] # "none"
        /\ revoked' = revoked
        /\ answer' \in [Callers -> {"none", "waiting", "resolved", "rejected"}]
    BY <1>7 DEF Stop, StopOther, service
  <2>2. answer[c] = "none" => aux' = [aux EXCEPT !.ticking = FALSE]
    BY <1>7 DEF Stop, StopOther, AuxStopped
  <2>3. aux' = aux \/ aux' = [aux EXCEPT !.ticking = FALSE]
    BY <1>7 DEF Stop, StopOther, AuxStopped, service
  <2>4. Default!Stop(c) \/ UNCHANGED <<stopCall_d, stopRequested_d, listener_d>>
    BY <1>7 DEF Stop, StopOther, defaultPool
  <2>5. Other!Stop(c) \/ UNCHANGED <<stopCall_o, stopRequested_o, listener_o>>
    BY <1>7 DEF Stop, StopOther, otherPool
  <2>6. CallsTracked(stopCall_d, stopRequested_d, listener_d)'
    BY <2>1, <2>4 DEF Default!Stop, CallsTracked, PoolStopped
  <2>7. CallsTracked(stopCall_o, stopRequested_o, listener_o)'
    BY <2>1, <2>5 DEF Other!Stop, CallsTracked, PoolStopped
  <2>8. aux' \in [ticking : BOOLEAN, lost : Nat] /\ (aux.ticking = FALSE => aux'.ticking = FALSE)
    BY <2>3
  <2>9. answer[c] = "none" => aux'.ticking = FALSE
    BY <2>2
  <2>10. \A b \in revoked' : answer'[b] # "none"
    BY <2>1
  <2>11. \A b \in Callers \ revoked' : answer'[b] # "none" => ~aux'.ticking
    BY <2>1, <2>8, <2>9
  <2> QED
    BY <2>1, <2>6, <2>7, <2>8, <2>10, <2>11
<1>8. ASSUME NEW c \in Callers, Resolve(c) \/ Timeout(c)
      PROVE  ServiceInv'
  <2>1. /\ answer[c] = "waiting"
        /\ \/ answer' = [answer EXCEPT ![c] = "resolved"] /\ AllStopped(c)
           \/ answer' = [answer EXCEPT ![c] = "rejected"]
        /\ UNCHANGED <<revoked, aux, stopCall_d, stopRequested_d, listener_d,
                       stopCall_o, stopRequested_o, listener_o>>
    BY <1>8 DEF Resolve, Timeout, Answer, defaultPool, otherPool
  <2>2. /\ answer' \in [Callers -> {"none", "waiting", "resolved", "rejected"}]
        /\ \A b \in Callers : (answer'[b] = "none") <=> (answer[b] = "none")
        /\ \A b \in Callers : answer'[b] = "resolved" => answer[b] = "resolved" \/ AllStopped(b)
    BY <2>1
  <2>3. CallsTracked(stopCall_d, stopRequested_d, listener_d)'
    BY <2>1, <2>2 DEF CallsTracked, AllStopped, PoolStopped
  <2>4. CallsTracked(stopCall_o, stopRequested_o, listener_o)'
    BY <2>1, <2>2 DEF CallsTracked, AllStopped, PoolStopped
  <2> QED
    BY <2>1, <2>2, <2>3, <2>4
<1>9. CASE DefaultWorks
  <2>1. UNCHANGED <<answer, revoked, aux, stopCall_o, stopRequested_o, listener_o>>
    BY <1>9 DEF DefaultWorks, service, otherPool
  <2>2. CallsTracked(stopCall_o, stopRequested_o, listener_o)'
    BY <2>1 DEF CallsTracked
  <2> QED
    BY <1>9, <2>1, <2>2, WorkKeepsTrack
<1>10. CASE OtherWorks
  <2>1. UNCHANGED <<answer, revoked, aux, stopCall_d, stopRequested_d, listener_d>>
    BY <1>10 DEF OtherWorks, service, defaultPool
  <2>2. CallsTracked(stopCall_d, stopRequested_d, listener_d)'
    BY <2>1 DEF CallsTracked
  <2> QED
    BY <1>10, <2>1, <2>2, WorkKeepsTrack
<1> QED
  BY <1>1, <1>2, <1>3, <1>4, <1>5, <1>6, <1>7, <1>8, <1>9, <1>10 DEF Next

LEMMA ServiceInvariance == Spec => []ServiceInv
<1>1. Init => ServiceInv
  <2> SUFFICES ASSUME Init
               PROVE  ServiceInv
    OBVIOUS
  <2>1. /\ stopCall_d = [c \in Callers |-> "none"] /\ listener_d = "nobody"
        /\ stopCall_o = [c \in Callers |-> "none"] /\ listener_o = "nobody"
    BY DEF Init, Default!Init, Other!Init, Default!Nobody, Other!Nobody
  <2> QED
    BY <2>1, PoolsAssumption DEF Init, ServiceInv, CallsTracked
<1> QED
  BY <1>1, ServiceInvNext, PTL DEF Spec

(* Only start() sets started, and sets the interval with it; only the      *)
(* first half of a stop() clears the interval.                             *)
LEMMA MaintainedNext ==
    ServiceInv /\ ServedIsMaintained /\ [Next]_vars => ServedIsMaintained'
<1> SUFFICES ASSUME ServiceInv, ServedIsMaintained, [Next]_vars
             PROVE  ServedIsMaintained'
  OBVIOUS
<1> USE DEF ServedIsMaintained, HalfStopped
<1>0. CASE UNCHANGED <<answer, revoked, aux, started_d, started_o, stopCall_o>>
  BY <1>0
<1>1. CASE UNCHANGED vars
  BY <1>0, <1>1 DEF vars, service, defaultPool, otherPool
<1>2. ASSUME NEW q \in Queues, NEW p \in Pools \cup {"unknown"}, RegisterWorker(q, p)
      PROVE  ServedIsMaintained'
  BY <1>0, <1>2 DEF RegisterWorker, QueueJoins, Default!QueueRegistered, Other!QueueRegistered,
                    defaultPool, otherPool
<1>3. CASE BootFails
  BY <1>0, <1>3 DEF BootFails, defaultPool, otherPool
<1>4. ASSUME NEW r \in Runs, Schedule(r) \/ Provision(r) \/ DueUnannounced(r) \/ HandsOver(r)
      PROVE  ServedIsMaintained'
  BY <1>0, <1>4 DEF Schedule, Provision, DueUnannounced, HandsOver, NotifyQueue,
                    Default!Notified, Default!BecomesDue, Other!Notified, Other!BecomesDue,
                    defaultPool, otherPool
<1>5. ASSUME NEW r \in Runs, DroppedTimesOut(r)
      PROVE  ServedIsMaintained'
  BY <1>0, <1>5 DEF DroppedTimesOut, service, defaultPool, otherPool, Default!BecomesDue,
                    Default!GivenUp, Other!BecomesDue, Other!GivenUp
<1>6. CASE Bootstrap \/ StartAgain
  <2>1. aux'.ticking
    BY <1>6 DEF Bootstrap, StartAgain, StartService, AuxStarted
  <2> QED
    BY <2>1
<1>7. ASSUME NEW c \in Callers, Stop(c)
      PROVE  ServedIsMaintained'
  <2>1. ~started_d'
    BY <1>7 DEF Stop, Default!Stop
  <2>2. CASE Other!Stop(c)
    BY <2>1, <2>2 DEF Other!Stop
  <2>3. CASE UNCHANGED otherPool
    <3>1. answer[c] = "none" /\ answer'[c] = "waiting" /\ revoked' = revoked
      BY <1>7 DEF Stop, ServiceInv
    <3>2. c \in Callers \ revoked' /\ stopCall_o'[c] = "none"
      BY <2>3, <3>1 DEF ServiceInv, CallsTracked, otherPool
    <3> QED
      BY <2>1, <3>1, <3>2
  <2> QED
    BY <1>7, <2>2, <2>3 DEF Stop
<1>8. ASSUME NEW c \in Callers, StopOther(c)
      PROVE  ServedIsMaintained'
  BY <1>8 DEF StopOther, Other!Stop, service, defaultPool
<1>9. ASSUME NEW c \in Callers, Resolve(c) \/ Timeout(c)
      PROVE  ServedIsMaintained'
  <2>1. /\ UNCHANGED <<revoked, aux, started_d, started_o, stopCall_o>>
        /\ \A b \in Callers : answer[b] # "none" => answer'[b] # "none"
    BY <1>9 DEF Resolve, Timeout, Answer, ServiceInv, defaultPool, otherPool
  <2> QED
    BY <2>1
<1>10. CASE DefaultWorks
  <2>1. UNCHANGED <<answer, revoked, aux, started_o, stopCall_o>>
    BY <1>10 DEF DefaultWorks, service, otherPool
  <2>2. started_d' = started_d
    BY <1>10 DEF DefaultWorks, Default!TimerFires, Default!Kick, Default!PollNone,
                 Default!QueryFails, Default!PollSome, Default!TaskStarts, Default!Peeked,
                 Default!TaskEnds
  <2> QED
    BY <1>0, <2>1, <2>2
<1>11. CASE OtherWorks
  <2>1. UNCHANGED <<answer, revoked, aux, started_d>>
    BY <1>11 DEF OtherWorks, service, defaultPool
  <2>2. started_o' = started_o
    BY <1>11 DEF OtherWorks, Other!TimerFires, Other!Kick, Other!PollNone,
                 Other!QueryFails, Other!PollSome, Other!TaskStarts, Other!Peeked,
                 Other!TaskEnds
  <2>3. UNCHANGED stopCall_o \/ \E r \in Runs : Other!TaskEnds(r)
    BY <1>11 DEF OtherWorks, Other!TimerFires, Other!Kick, Other!PollNone,
                 Other!QueryFails, Other!PollSome, Other!TaskStarts, Other!Peeked
  <2>4. ASSUME NEW c \in Callers, stopCall_o[c] = "none"
        PROVE  stopCall_o'[c] = "none"
    <3>1. stopCall_o \in [Callers -> {"none", "waiting", "resolved", "over"}] /\ c # listener_o
      BY <2>4 DEF ServiceInv, CallsTracked
    <3> QED
      BY <2>3, <2>4, <3>1 DEF Other!TaskEnds
  <2> QED
    BY <2>1, <2>2, <2>4
<1> QED
  BY <1>1, <1>2, <1>3, <1>4, <1>5, <1>6, <1>7, <1>8, <1>9, <1>10, <1>11 DEF Next

(* A pool serves only while maintenance runs, whatever calls of stop() and *)
(* start() overlap: only a stop() that has not reached the second pool yet *)
(* leaves that one without.                                                *)
THEOREM ServedIsMaintainedCorrect == Spec => []ServedIsMaintained
<1>1. Init => ServedIsMaintained
  BY DEF Init, Default!Init, Other!Init, ServedIsMaintained
<1> QED
  BY <1>1, MaintainedNext, ServiceInvariance, PTL DEF Spec

(* Whether the pools were stopped together or one after the other,         *)
(* whatever timed out and however late the polls under way were answered:  *)
(* a stop() that resolved, and was not followed by a start(), leaves       *)
(* nothing running anywhere.                                               *)
THEOREM StoppedServiceIsQuietCorrect == Spec => []StoppedServiceIsQuiet
<1>1. ServiceInv /\ DefaultProofs!SlotsInv /\ OtherProofs!SlotsInv => StoppedServiceIsQuiet
  <2> SUFFICES ASSUME ServiceInv, DefaultProofs!SlotsInv, OtherProofs!SlotsInv,
                      NEW c \in Callers \ revoked, answer[c] = "resolved"
               PROVE  Default!Occupied = 0 /\ Other!Occupied = 0 /\ ~aux.ticking
    BY DEF StoppedServiceIsQuiet
  <2>1. stopCall_d[c] = "resolved" /\ stopCall_o[c] = "resolved" /\ ~aux.ticking
    BY DEF ServiceInv, CallsTracked, PoolStopped
  <2>2. DefaultProofs!Active = {} /\ OtherProofs!Active = {}
    BY <2>1 DEF DefaultProofs!SlotsInv, OtherProofs!SlotsInv
  <2>3. Default!Active = {} /\ Other!Active = {}
    BY <2>2 DEF Default!Active, DefaultProofs!Active, Default!At, DefaultProofs!At,
                Other!Active, OtherProofs!Active, Other!At, OtherProofs!At
  <2>4. Default!Cardinality({}) = Cardinality({}) /\ Other!Cardinality({}) = Cardinality({})
    BY DEF Default!Cardinality, Other!Cardinality, Cardinality
  <2> QED
    BY <2>1, <2>3, <2>4, FS_EmptySet DEF Default!Occupied, Other!Occupied
<1> QED
  BY <1>1, ServiceInvariance, PipelineInvariants, PTL

-----------------------------------------------------------------------------
(* Type correctness *)

(* Every interval that ticks, or that nobody can clear any more, was set   *)
(* by a call of start() of its own.                                        *)
AuxInv ==
    /\ app \in {"booting", "up", "failed"}
    /\ aux \in [ticking : BOOLEAN, lost : Nat] /\ starts_d \in Nat
    /\ IF aux.ticking THEN aux.lost < starts_d ELSE aux.lost <= starts_d

LEMMA AuxInvNext == AuxInv /\ [Next]_vars => AuxInv'
<1> SUFFICES ASSUME AuxInv, [Next]_vars
             PROVE  AuxInv'
  OBVIOUS
<1> USE DEF AuxInv, vars, service, defaultPool, otherPool
<1>1. CASE UNCHANGED vars
  BY <1>1
<1>2. ASSUME NEW q \in Queues, NEW p \in Pools \cup {"unknown"}, RegisterWorker(q, p)
      PROVE  AuxInv'
  BY <1>2 DEF RegisterWorker, QueueJoins, Default!QueueRegistered
<1>3. CASE BootFails
  BY <1>3 DEF BootFails
<1>4. ASSUME NEW r \in Runs, Schedule(r) \/ Provision(r) \/ DueUnannounced(r) \/ HandsOver(r)
      PROVE  AuxInv'
  BY <1>4 DEF Schedule, Provision, DueUnannounced, HandsOver, NotifyQueue,
              Default!Notified, Default!BecomesDue
<1>5. ASSUME NEW r \in Runs, DroppedTimesOut(r)
      PROVE  AuxInv'
  BY <1>5 DEF DroppedTimesOut, Default!BecomesDue, Default!GivenUp
<1>6. CASE Bootstrap \/ StartAgain
  <2>1. /\ app' \in {"booting", "up", "failed"} /\ starts_d' = starts_d + 1
        /\ aux' = [ticking |-> TRUE, lost |-> IF aux.ticking THEN aux.lost + 1 ELSE aux.lost]
    BY <1>6 DEF Bootstrap, StartAgain, StartService, AuxStarted, Default!Start
  <2>2. aux.ticking \in BOOLEAN /\ aux.lost \in Nat
    OBVIOUS
  <2> QED
    BY <2>1, <2>2
<1>7. ASSUME NEW c \in Callers, Stop(c)
      PROVE  AuxInv'
  <2>1. app' = app /\ starts_d' = starts_d /\ aux' = [aux EXCEPT !.ticking = FALSE]
    BY <1>7 DEF Stop, AuxStopped, Default!Stop
  <2>2. aux' \in [ticking : BOOLEAN, lost : Nat]
    BY <2>1
  <2>3. aux'.lost = aux.lost /\ aux.lost \in Nat /\ aux.lost <= starts_d
    BY <2>1
  <2>4. ~aux'.ticking
    BY <2>1
  <2> QED
    BY <2>1, <2>2, <2>3, <2>4
<1>8. ASSUME NEW c \in Callers, StopOther(c) \/ Resolve(c) \/ Timeout(c)
      PROVE  AuxInv'
  BY <1>8 DEF StopOther, Resolve, Timeout, Answer
<1>9. CASE DefaultWorks
  BY <1>9 DEF DefaultWorks, Default!TimerFires, Default!Kick, Default!PollNone,
              Default!QueryFails, Default!PollSome, Default!TaskStarts, Default!Peeked,
              Default!TaskEnds
<1>10. CASE OtherWorks
  BY <1>10 DEF OtherWorks
<1> QED
  BY <1>1, <1>2, <1>3, <1>4, <1>5, <1>6, <1>7, <1>8, <1>9, <1>10 DEF Next

(* The service and both pools stay in their domains: no slot is counted    *)
(* twice, no queue has two pools, and no more intervals tick than start()  *)
(* was called.                                                             *)
THEOREM TypeCorrect == Spec => []TypeOK
<1>1. Spec => []AuxInv
  <2>1. Init => AuxInv
    BY DEF Init, AuxInv, Default!Init
  <2> QED
    BY <2>1, AuxInvNext, PTL DEF Spec
<1>2. Spec => []DefaultProofs!TypeOK /\ []OtherProofs!TypeOK
  <2>1. /\ IsFiniteSet(Runs) <=> DefaultProofs!IsFiniteSet(Runs)
        /\ IsFiniteSet(Runs) <=> OtherProofs!IsFiniteSet(Runs)
    BY DEF DefaultProofs!IsFiniteSet, OtherProofs!IsFiniteSet, IsFiniteSet
  <2>4. {"handled"} \subseteq {"handled", "fatal"}
    OBVIOUS
  <2>2. DefaultProofs!Spec => []DefaultProofs!TypeOK
    BY <2>1, <2>4, DefaultProofs!TypeCorrect, PoolsAssumption, PTL DEF DefaultProofs!Nobody
  <2>3. OtherProofs!Spec => []OtherProofs!TypeOK
    BY <2>1, <2>4, OtherProofs!TypeCorrect, PoolsAssumption, PTL DEF OtherProofs!Nobody
  <2> QED
    BY <2>2, <2>3, SameDefault, SameOther, PoolsArePipelines, PTL
<1>3. OwnershipInv /\ ServiceInv /\ AuxInv /\ DefaultProofs!TypeOK /\ OtherProofs!TypeOK => TypeOK
  <2> SUFFICES ASSUME OwnershipInv, ServiceInv, AuxInv, DefaultProofs!TypeOK, OtherProofs!TypeOK
               PROVE  TypeOK
    OBVIOUS
  <2>1. Default!TypeOK /\ Other!TypeOK
    BY DEF Default!TypeOK, DefaultProofs!TypeOK, Other!TypeOK, OtherProofs!TypeOK,
           Default!Places, DefaultProofs!Places, Other!Places, OtherProofs!Places,
           Default!Nobody, DefaultProofs!Nobody, Other!Nobody, OtherProofs!Nobody
  <2>2. aux \in [ticking : BOOLEAN, lost : 0..MaxStarts]
    <3>1. aux.lost \in Nat /\ aux.lost <= starts_d /\ starts_d \in 0..MaxStarts
      BY DEF AuxInv, DefaultProofs!TypeOK
    <3> QED
      BY <3>1, PoolsAssumption DEF AuxInv
  <2> QED
    BY <2>1, <2>2 DEF TypeOK, OwnershipInv, ServiceInv, AuxInv
<1>4. Spec => []OwnershipInv /\ []ServiceInv
  BY OwnershipInvariance, ServiceInvariance, PTL
<1> QED
  BY <1>1, <1>2, <1>3, <1>4, PTL
=============================================================================
