------------------------- MODULE TasksPipelineProofs -------------------------
(***************************************************************************)
(* Theorems about TasksPipeline, for every number of slots, tasks and      *)
(* callers of start and stop.                                              *)
(***************************************************************************)
EXTENDS TasksPipeline, FiniteSetTheorems, TLAPS

(* Where the timer, the loop and the calls of stop stand to each other:    *)
(* a started pool has a timer or a loop that will arm one, and a resolved  *)
(* stop is one that nobody revoked.                                        *)
NoStopYet == \A s \in Stoppers : stopCall[s] = "none"

CallsInv ==
    /\ where \in [Tasks -> Places] /\ stopRequested \in BOOLEAN
    /\ loop \in [pc : {"resting", "polling", "peeking"}, by : {"timer", "kick"}]
    /\ fetcher \in {"null", "armed", "cleared"}
    /\ started => fetcher # "cleared"
    /\ PollerAlive
    /\ stopCall \in [Stoppers -> {"none", "waiting", "resolved", "over"}]
    /\ listener \in Stoppers \cup {Nobody}
    /\ \A s \in Stoppers : stopCall[s] = "resolved" => stopRequested
    /\ NoStopYet => ~stopRequested /\ listener = Nobody

LEMMA CallsInvNext == CallsInv /\ [Next]_vars => CallsInv'
<1> SUFFICES ASSUME CallsInv, [Next]_vars
             PROVE  CallsInv'
  OBVIOUS
<1> USE DEF CallsInv, PollerAlive, loopRunning, Places, NoStopYet
<1>1. CASE UNCHANGED vars
  BY <1>1 DEF vars
<1>2. CASE Start
  BY <1>2 DEF Start
<1>3. ASSUME NEW s \in Stoppers, Stop(s)
      PROVE  CallsInv'
  BY <1>3 DEF Stop
<1>4. ASSUME NEW t \in Tasks, Notified(t) \/ BecomesDue(t) \/ GivenUp(t)
      PROVE  CallsInv'
  BY <1>4 DEF Notified, BecomesDue, GivenUp
<1>13. ASSUME NEW S \in SUBSET Tasks, QueueRegistered(S)
       PROVE  CallsInv'
  BY <1>13 DEF QueueRegistered
<1>5. CASE TimerFires
  BY <1>5 DEF TimerFires, LoopCalled
<1>6. CASE Kick
  BY <1>6 DEF Kick, LoopCalled
<1>7. ASSUME NEW t \in Tasks, PollSome(t)
      PROVE  CallsInv'
  BY <1>7 DEF PollSome, LoopEnds, Rearm, Resting
<1>8. CASE PollNone
  BY <1>8 DEF PollNone, LoopEnds, Rearm, Resting
<1>9. ASSUME NEW short \in BOOLEAN, Peeked(short)
      PROVE  CallsInv'
  BY <1>9 DEF Peeked, LoopEnds, Rearm, Resting
<1>10. CASE QueryFails
  BY <1>10 DEF QueryFails, LoopEnds, Rearm, Resting
<1>14. CASE ProcessDies
  <2>1. where' \in [Tasks -> Places]
    BY <1>14 DEF ProcessDies, Abandoned
  <2>2. /\ stopCall' \in [Stoppers -> {"none", "waiting", "resolved", "over"}]
        /\ \A s \in Stoppers : stopCall'[s] # "resolved"
    BY <1>14 DEF ProcessDies
  <2> QED
    BY <1>14, <2>1, <2>2 DEF ProcessDies, Resting
<1>11. ASSUME NEW t \in Tasks, TaskStarts(t)
       PROVE  CallsInv'
  BY <1>11 DEF TaskStarts
<1>12. ASSUME NEW t \in Tasks, TaskEnds(t)
       PROVE  CallsInv'
  BY <1>12 DEF TaskEnds
<1> QED
  BY <1>1, <1>2, <1>3, <1>4, <1>5, <1>6, <1>7, <1>8, <1>9, <1>10, <1>11, <1>12, <1>13,
     <1>14 DEF Next

THEOREM CallsInvariance == Spec => []CallsInv
<1>1. Init => CallsInv
  <2> SUFFICES ASSUME Init
               PROVE  CallsInv
    OBVIOUS
  <2>1. where \in [Tasks -> Places] /\ \A s \in Stoppers : stopCall[s] = "none"
    BY DEF Init, Places
  <2>2. stopCall \in [Stoppers -> {"none", "waiting", "resolved", "over"}]
    BY DEF Init
  <2>3. loop \in [pc : {"resting", "polling", "peeking"}, by : {"timer", "kick"}]
    BY DEF Init, Resting
  <2>4. ~started /\ stopRequested \in BOOLEAN /\ fetcher = "null" /\ listener = Nobody
    BY DEF Init
  <2> QED
    BY <2>1, <2>2, <2>3, <2>4 DEF CallsInv, PollerAlive, Init
<1> QED
  BY <1>1, CallsInvNext, PTL DEF Spec

(* A started pool always polls again: no ignored call of loop, no race of  *)
(* stop and start and no failed poll that the process survives leaves it   *)
(* without a timer. (A failed poll whose rejection nobody handles ends the *)
(* process instead: ProcessDies.)                                          *)
THEOREM PollerAliveCorrect == Spec => []PollerAlive
<1>1. CallsInv => PollerAlive
  BY DEF CallsInv
<1> QED
  BY <1>1, CallsInvariance, PTL

-----------------------------------------------------------------------------
(* tasksInProcess counts every task that takes a slot, and never passes    *)
(* maxConcurrentTasks although it is read before the await and raised      *)
(* after it: only one loop runs at a time, and nobody else raises it.      *)
SlotsInv ==
    /\ IsFiniteSet(Active)
    /\ tasksInProcess \in 0..MaxConcurrentTasks
    /\ Occupied <= tasksInProcess
    /\ loop.pc = "polling" => tasksInProcess < MaxConcurrentTasks
    /\ \A s \in Stoppers : stopCall[s] = "resolved" => Active = {}
    /\ NoStopYet => Occupied = tasksInProcess

(* A step that keeps the tasks that take a slot and their count. *)
LEMMA SlotsKept ==
    ASSUME CallsInv, SlotsInv, tasksInProcess' = tasksInProcess, where' = where,
           loop'.pc = "polling" => loop.pc = "polling" \/ MayPoll(tasksInProcess),
           \A s \in Stoppers : stopCall'[s] = "resolved" =>
               stopCall[s] = "resolved" \/ tasksInProcess = 0,
           NoStopYet' => NoStopYet
    PROVE  SlotsInv'
<1>1. Active' = Active /\ Occupied' = Occupied
  BY DEF Active, Occupied, At
<1>2. tasksInProcess = 0 => Active = {}
  BY FS_CardinalityType, FS_EmptySet DEF SlotsInv, Occupied
<1> QED
  BY <1>1, <1>2 DEF SlotsInv, MayPoll

LEMMA SlotsInvNext == CallsInv /\ SlotsInv /\ [Next]_vars => SlotsInv'
<1> SUFFICES ASSUME CallsInv, SlotsInv, [Next]_vars
             PROVE  SlotsInv'
  OBVIOUS
<1> USE PipelineAssumption
<1>0. Occupied \in Nat /\ tasksInProcess \in Nat /\ IsFiniteSet(Active)
  BY FS_CardinalityType DEF SlotsInv, Occupied
<1>1. CASE UNCHANGED vars
  BY <1>1, SlotsKept DEF NoStopYet, vars
<1>2. CASE Start
  BY <1>2, SlotsKept DEF NoStopYet, Start, CallsInv
<1>3. ASSUME NEW s \in Stoppers, Stop(s)
      PROVE  SlotsInv'
  BY <1>0, <1>3, SlotsKept DEF NoStopYet, Stop, CallsInv
<1>4. ASSUME NEW t \in Tasks, Notified(t) \/ BecomesDue(t) \/ GivenUp(t)
      PROVE  SlotsInv'
  <2>1. Active' = Active
    BY <1>4 DEF Notified, BecomesDue, GivenUp, Active, At, CallsInv
  <2> QED
    BY <1>4, <2>1 DEF Notified, BecomesDue, GivenUp, SlotsInv, Occupied, NoStopYet
<1>13. ASSUME NEW S \in SUBSET Tasks, QueueRegistered(S)
       PROVE  SlotsInv'
  <2>1. Active' = Active
    BY <1>13 DEF QueueRegistered, Active, At, CallsInv
  <2> QED
    BY <1>13, <2>1 DEF QueueRegistered, SlotsInv, Occupied, NoStopYet
<1>5. CASE TimerFires
  BY <1>5, SlotsKept DEF NoStopYet, TimerFires, LoopCalled
<1>6. CASE Kick
  BY <1>6, SlotsKept DEF NoStopYet, Kick, LoopCalled
<1>7. ASSUME NEW t \in Tasks, PollSome(t)
      PROVE  SlotsInv'
  <2>1. CASE stopRequested
    <3>1. Active' = Active
      BY <1>7, <2>1 DEF PollSome, Active, At, CallsInv
    <3> QED
      BY <1>7, <2>1, <3>1 DEF PollSome, SlotsInv, CallsInv, NoStopYet, Occupied, LoopEnds, Resting
  <2>2. CASE ~stopRequested
    <3>1. t \notin Active /\ Active' = Active \cup {t}
      BY <1>7, <2>2 DEF PollSome, Active, At, CallsInv
    <3>2. IsFiniteSet(Active') /\ Occupied' = Occupied + 1
      BY <1>0, <3>1, FS_AddElement DEF Occupied
    <3>3. tasksInProcess' = tasksInProcess + 1 /\ tasksInProcess < MaxConcurrentTasks
      BY <1>7, <2>2 DEF PollSome, SlotsInv
    <3>4. loop'.pc = "polling" => MayPoll(tasksInProcess + 1)
      <4>1. CASE ~MayPoll(tasksInProcess + 1)
        BY <1>7, <2>2, <4>1 DEF PollSome, LoopEnds, Resting
      <4> QED
        BY <4>1
    <3>5. \A s \in Stoppers : stopCall'[s] # "resolved"
      BY <1>7, <2>2 DEF PollSome, CallsInv
    <3>6. stopCall' = stopCall
      BY <1>7 DEF PollSome
    <3> QED
      BY <1>0, <3>2, <3>3, <3>4, <3>5, <3>6 DEF SlotsInv, MayPoll, NoStopYet
  <2> QED
    BY <2>1, <2>2
<1>8. CASE PollNone
  BY <1>8, SlotsKept DEF NoStopYet, PollNone, LoopEnds, Resting, CallsInv
<1>9. ASSUME NEW short \in BOOLEAN, Peeked(short)
      PROVE  SlotsInv'
  BY <1>9, SlotsKept DEF NoStopYet, Peeked, LoopEnds, Resting
<1>10. CASE QueryFails
  BY <1>10, SlotsKept DEF NoStopYet, QueryFails, LoopEnds, Resting
<1>14. CASE ProcessDies
  <2>1. tasksInProcess' = 0 /\ loop'.pc = "resting"
    BY <1>14 DEF ProcessDies, Resting
  <2>2. Active' = {}
    BY <1>14 DEF ProcessDies, Abandoned, Active, At, CallsInv
  <2>3. IsFiniteSet(Active') /\ Occupied' = 0
    BY <2>2, FS_EmptySet DEF Occupied
  <2> QED
    BY <2>1, <2>2, <2>3 DEF SlotsInv
<1>11. ASSUME NEW t \in Tasks, TaskStarts(t)
       PROVE  SlotsInv'
  <2>1. Active' = Active \/ Active' = Active \ {t}
    BY <1>11 DEF TaskStarts, Active, At, CallsInv
  <2>2. IsFiniteSet(Active') /\ Occupied' <= Occupied /\ Occupied' \in Nat
    <3>1. CASE Active' = Active
      BY <1>0, <3>1 DEF Occupied
    <3>2. CASE Active' = Active \ {t}
      <4>1. /\ IsFiniteSet(Active \ {t})
            /\ Cardinality(Active \ {t}) \in {Occupied, Occupied - 1}
        BY <1>0, FS_RemoveElement DEF Occupied
      <4>2. Cardinality(Active \ {t}) \in Nat
        BY <4>1, FS_CardinalityType
      <4> QED
        BY <1>0, <3>2, <4>1, <4>2 DEF Occupied
    <3> QED
      BY <2>1, <3>1, <3>2
  <2> QED
    <3>1. NoStopYet => Active' = Active
      BY <1>11 DEF TaskStarts, Active, At, CallsInv
    <3> QED
      BY <1>0, <1>11, <2>1, <2>2, <3>1 DEF TaskStarts, SlotsInv, Occupied, NoStopYet
<1>12. ASSUME NEW t \in Tasks, TaskEnds(t)
       PROVE  SlotsInv'
  <2>1. t \in Active /\ Active' = Active \ {t}
    BY <1>12 DEF TaskEnds, Active, At, CallsInv
  <2>2. IsFiniteSet(Active') /\ Occupied' = Occupied - 1 /\ Occupied' \in Nat
    BY <1>0, <2>1, FS_RemoveElement, FS_CardinalityType DEF Occupied
  <2>3. tasksInProcess' = tasksInProcess - 1 /\ tasksInProcess' \in 0..MaxConcurrentTasks
        /\ Occupied' <= tasksInProcess'
    BY <1>0, <1>12, <2>2 DEF TaskEnds, SlotsInv
  <2>4. tasksInProcess' <= 0 => Active' = {}
    BY <2>2, <2>3, FS_EmptySet DEF Occupied
  <2>5. loop'.pc = "polling" => tasksInProcess' < MaxConcurrentTasks
    BY <1>0, <1>12, <2>3 DEF TaskEnds, SlotsInv
  <2>6. \A s \in Stoppers : stopCall'[s] = "resolved" => stopCall[s] = "resolved" \/ tasksInProcess' <= 0
    BY <1>12 DEF TaskEnds, CallsInv
  <2>7. \A s \in Stoppers : stopCall[s] # "resolved"
    BY <2>1 DEF SlotsInv
  <2>8. NoStopYet' => NoStopYet
    BY <1>12 DEF TaskEnds, CallsInv, NoStopYet
  <2> QED
    BY <1>0, <2>2, <2>3, <2>4, <2>5, <2>6, <2>7, <2>8 DEF SlotsInv
<1> QED
  BY <1>1, <1>2, <1>3, <1>4, <1>5, <1>6, <1>7, <1>8, <1>9, <1>10, <1>11, <1>12, <1>13,
     <1>14 DEF Next

THEOREM SlotsInvariance == Spec => []SlotsInv
<1>1. Init => SlotsInv
  <2>1. Init => Active = {} /\ tasksInProcess = 0 /\ loop.pc = "resting"
    BY DEF Init, Active, At, Resting
  <2>2. IsFiniteSet({}) /\ Cardinality({}) = 0
    BY FS_EmptySet
  <2> QED
    BY <2>1, <2>2, PipelineAssumption DEF SlotsInv, Occupied
<1>2. CallsInv /\ SlotsInv /\ [Next]_vars => SlotsInv'
  BY SlotsInvNext
<1> QED
  BY <1>1, <1>2, CallsInvariance, PTL DEF Spec

(* A stop() that resolved leaves no task running or about to run, however  *)
(* late the answer of the poll it interrupted comes.                       *)
THEOREM StopMeansQuietCorrect == Spec => []StopMeansQuiet
<1>1. SlotsInv => StopMeansQuiet
  BY FS_EmptySet DEF SlotsInv, StopMeansQuiet, Occupied
<1> QED
  BY <1>1, SlotsInvariance, PTL

(* The pool never runs more tasks than it has slots, and counts every slot *)
(* exactly until stop is called.                                           *)
THEOREM SlotsRespectedCorrect == Spec => []SlotsRespected
<1>1. SlotsInv => SlotsRespected
  BY FS_CardinalityType, PipelineAssumption
     DEF SlotsInv, SlotsRespected, Leaked, NoStopYet, Occupied
<1> QED
  BY <1>1, SlotsInvariance, PTL

-----------------------------------------------------------------------------
CountersInv == kicks \in Nat /\ started \in BOOLEAN /\ starts \in 0..MaxStarts

LEMMA CountersInvNext == CountersInv /\ [Next]_vars => CountersInv'
<1> SUFFICES ASSUME CountersInv, [Next]_vars
             PROVE  CountersInv'
  OBVIOUS
<1> USE DEF CountersInv
<1>1. CASE UNCHANGED vars
  BY <1>1 DEF vars
<1>2. CASE Start
  BY <1>2, PipelineAssumption DEF Start
<1>3. ASSUME NEW s \in Stoppers, Stop(s)
      PROVE  CountersInv'
  BY <1>3 DEF Stop
<1>4. ASSUME NEW t \in Tasks, Notified(t)
      PROVE  CountersInv'
  BY <1>4 DEF Notified, TasksScheduled, TriggerLoop
<1>5. ASSUME NEW t \in Tasks, BecomesDue(t) \/ GivenUp(t) \/ PollSome(t) \/ TaskStarts(t)
      PROVE  CountersInv'
  BY <1>5 DEF BecomesDue, GivenUp, PollSome, TaskStarts
<1>6. ASSUME NEW S \in SUBSET Tasks, QueueRegistered(S)
      PROVE  CountersInv'
  BY <1>6 DEF QueueRegistered
<1>7. CASE Kick
  BY <1>7 DEF Kick
<1>8. ASSUME NEW t \in Tasks, TaskEnds(t)
      PROVE  CountersInv'
  BY <1>8 DEF TaskEnds
<1>9. ASSUME TimerFires \/ PollNone \/ QueryFails \/ \E short \in BOOLEAN : Peeked(short)
      PROVE  CountersInv'
  BY <1>9 DEF TimerFires, PollNone, QueryFails, Peeked
<1>10. CASE ProcessDies
  BY <1>10 DEF ProcessDies
<1> QED
  BY <1>1, <1>2, <1>3, <1>4, <1>5, <1>6, <1>7, <1>8, <1>9, <1>10 DEF Next

(* Every handle, count and place stays in its domain: tasksInProcess is    *)
(* never negative and never above maxConcurrentTasks.                      *)
THEOREM TypeCorrect == Spec => []TypeOK
<1>1. Init => CountersInv
  <2> SUFFICES ASSUME Init
               PROVE  CountersInv
    OBVIOUS
  <2>1. kicks = 0 /\ ~started /\ starts = 0
    BY DEF Init
  <2>2. started \in BOOLEAN
    BY DEF Init
  <2> QED
    BY <2>1, <2>2, PipelineAssumption DEF CountersInv
<1>2. CallsInv /\ SlotsInv /\ CountersInv => TypeOK
  BY DEF CallsInv, SlotsInv, CountersInv, TypeOK
<1> QED
  BY <1>1, <1>2, CountersInvNext, CallsInvariance, SlotsInvariance, PTL DEF Spec
=============================================================================
