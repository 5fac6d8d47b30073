--------------------------- MODULE LifecycleProofs ---------------------------
(***************************************************************************)
(* TasksQueue implements TaskLifecycle, for every number of tasks and      *)
(* workers, with crashes, statements that fail or are not answered, and    *)
(* every operation of the operators.                                       *)
(***************************************************************************)
EXTENDS TasksQueueImplements, TasksQueueProofs

-----------------------------------------------------------------------------
(* Who owns a task *)

Holds(w, t) == run[w].task = t /\ IsLive(w) /\ HoldsRow(w)

Left(t) == task[t].maxAttempts - task[t].attempt

(* OwnerOf chooses; there is one to choose only.                           *)
LEMMA OwnerIsHolder ==
    ASSUME OneOwner, NEW t \in TaskIds
    PROVE  /\ OwnerOf(t) \in Workers \cup {NoWorker}
           /\ \A w \in Workers : OwnerOf(t) = w <=> Holds(w, t)
<1>1. CASE \E w \in Workers : Holds(w, t)
  <2>1. OwnerOf(t) = CHOOSE w \in Workers : Holds(w, t)
    BY <1>1 DEF OwnerOf, Holds
  <2>2. OwnerOf(t) \in Workers /\ Holds(OwnerOf(t), t)
    BY <1>1, <2>1
  <2> QED
    BY <2>2 DEF OneOwner, Holds, HoldsRow, Row
<1>2. CASE ~\E w \in Workers : Holds(w, t)
  <2>1. OwnerOf(t) = NoWorker
    BY <1>2 DEF OwnerOf, Holds
  <2> QED
    BY <1>2, <2>1, NoWorkerAssumption
<1> QED
  BY <1>1, <1>2

LEMMA OwnerIsHolderPrimed ==
    ASSUME OneOwner', NEW t \in TaskIds
    PROVE  /\ OwnerOf(t)' \in Workers \cup {NoWorker}
           /\ \A w \in Workers : OwnerOf(t)' = w <=> Holds(w, t)'
<1>1. CASE \E w \in Workers : Holds(w, t)'
  <2>1. OwnerOf(t)' = CHOOSE w \in Workers : Holds(w, t)'
    BY <1>1 DEF OwnerOf, Holds
  <2>2. PICK w \in Workers : OwnerOf(t)' = w /\ Holds(w, t)'
    BY <1>1, <2>1
  <2> QED
    BY <2>2 DEF OneOwner, Holds, HoldsRow, Row
<1>2. CASE ~\E w \in Workers : Holds(w, t)'
  <2>1. OwnerOf(t)' = NoWorker
    BY <1>2 DEF OwnerOf, Holds
  <2> QED
    BY <1>2, <2>1, NoWorkerAssumption
<1> QED
  BY <1>1, <1>2

(* A step that leaves the owners of t alone, or leaves it without one.     *)
LEMMA OwnerKept ==
    ASSUME OneOwner, OneOwner', NEW t \in TaskIds,
           \A w \in Workers : Holds(w, t)' <=> Holds(w, t)
    PROVE  OwnerOf(t)' = OwnerOf(t)
<1>1. \A w \in Workers : OwnerOf(t)' = w <=> OwnerOf(t) = w
  BY OwnerIsHolder, OwnerIsHolderPrimed
<1>2. OwnerOf(t) \in Workers \cup {NoWorker} /\ OwnerOf(t)' \in Workers \cup {NoWorker}
  BY OwnerIsHolder, OwnerIsHolderPrimed
<1> QED
  BY <1>1, <1>2, NoWorkerAssumption

LEMMA OwnerGone ==
    ASSUME OneOwner', NEW t \in TaskIds, \A w \in Workers : ~Holds(w, t)'
    PROVE  OwnerOf(t)' = NoWorker
BY OwnerIsHolderPrimed

(* Only a row in progress has an owner. *)
LEMMA OwnedInProgress ==
    ASSUME OneOwner, NEW t \in TaskIds, task[t].status # "in_progress"
    PROVE  OwnerOf(t) = NoWorker
BY OwnerIsHolder DEF Holds, HoldsRow, Row

(* The clock, clients, maintenance and operators take owners away only     *)
(* together with the status.                                               *)
LEMMA OwnersOutside ==
    ASSUME OneOwner, OneOwner', OutsideEffect, NEW t \in TaskIds
    PROVE  OwnerOf(t)' = IF task'[t].status = "in_progress" THEN OwnerOf(t) ELSE NoWorker
<1>1. run' = run
  BY DEF OutsideEffect
<1>2. CASE task'[t].status = "in_progress"
  <2>1. task[t].status = "in_progress" /\ task'[t].started = task[t].started
    BY <1>2 DEF OutsideEffect, NoNewAttempt
  <2>2. \A w \in Workers : Holds(w, t)' <=> Holds(w, t)
    BY <1>1, <1>2, <2>1 DEF Holds, HoldsRow, Row, IsLive
  <2> QED
    BY <1>2, <2>2, OwnerKept
<1>3. CASE task'[t].status # "in_progress"
  BY <1>3, OwnerGone DEF Holds, HoldsRow, Row
<1> QED
  BY <1>2, <1>3

(* An attempt whose finish is behind it holds its row no more, so that it  *)
(* is no owner again when its wake-up throws.                              *)
CompletedInv == \A w \in Workers : run[w].pc = "completing" => Gone(Row(w))

LEMMA CompletedInvNext ==
    ASSUME TypeInv, CompletedInv, [Next]_vars
    PROVE  CompletedInv'
<1> SUFFICES ASSUME NEW v \in Workers, run'[v].pc = "completing"
             PROVE  Gone(Row(v)')
  BY DEF CompletedInv
<1>0. /\ task \in [TaskIds -> Rows] /\ run \in [Workers -> Calls]
      /\ \A w \in Workers : run[w].pc # "idle" => run[w].task \in TaskIds
  BY DEF TypeInv, TypeOK, Calls
<1>1. ASSUME run'[v] = run[v], \A t \in TaskIds : Gone(task[t]) => Gone(task'[t])
      PROVE  Gone(Row(v)')
  BY <1>0, <1>1 DEF CompletedInv, Row
<1>2. CASE OutsideStep
  BY <1>1, <1>2, OutsideStepEffect DEF OutsideEffect, GoneStays
<1>3. ASSUME NEW w \in Workers, NEW t \in TaskIds, Fetch(w, t)
      PROVE  Gone(Row(v)')
  <2>1. run'[v] = run[v]
    BY <1>0, <1>3 DEF Fetch
  <2>2. \A s \in TaskIds : Gone(task[s]) => task'[s] = task[s]
    BY <1>0, <1>3 DEF Fetch, Due, Gone
  <2> QED
    BY <1>1, <2>1, <2>2
<1>4. ASSUME NEW w \in Workers, Beats(w)
      PROVE  Gone(Row(v)')
  <2>1. run'[v] = run[v]
    BY <1>4, BeatEffects
  <2> QED
    BY <1>1, <1>4, <2>1, BeatEffects DEF Gone
<1>5. ASSUME NEW w \in Workers, LocalStep(w)
      PROVE  Gone(Row(v)')
  <2>1. LocalEffect(w)
    BY <1>5, LocalStepEffect
  <2>2. CASE run'[v] = run[v]
    BY <1>1, <2>1, <2>2 DEF LocalEffect, GoneStays
  <2>3. CASE run'[v] # run[v]
    <3>1. v = w
      BY <2>1, <2>3 DEF LocalEffect
    <3>2. ~(Rejected(w) \/ LostAnswer(w))
      BY <1>0, <3>1, ThrowsEffect DEF Rejected, LostAnswer, Unanswered
    <3>3. Finish(w) /\ Owns(w)
      BY <1>0, <1>5, <3>1, <3>2 DEF LocalStep, ReadChild, Ping, Return, Throw, FailIfStalled,
         Finish, SpawnAny, Spawn, SpawnLost, Fail, Wake, Crash, Expire, Goto, Done, Idle, Calls
    <3>4. /\ task' = [task EXCEPT ![run[w].task].status = "finished",
                                  ![run[w].task].activeChild = NoTask]
          /\ run' = [run EXCEPT ![w].pc = "completing"]
      BY <3>3 DEF Finish, Finished, Goto
    <3>5. run'[w].task = run[w].task /\ run[w].task \in TaskIds
      BY <1>0, <3>3, <3>4 DEF Finish, Calls
    <3> QED
      BY <1>0, <3>1, <3>4, <3>5 DEF Gone, Row, Rows
  <2> QED
    BY <2>2, <2>3
<1> QED
  BY <1>2, <1>3, <1>4, <1>5, StepKinds

(* The slot w gives t up. *)
Leaves(w, t) == Holds(w, t) /\ ~Holds(w, t)'

(* A slot takes no owner away but itself. *)
LEMMA OwnersLocal ==
    ASSUME OneOwner, OneOwner', CompletedInv, NEW w \in Workers, LocalEffect(w), NEW t \in TaskIds
    PROVE  OwnerOf(t)' = IF Leaves(w, t) THEN NoWorker ELSE OwnerOf(t)
<1>1. \A v \in Workers \ {w} : run'[v] = run[v]
  BY DEF LocalEffect
<1>2. ASSUME task'[t].status = "in_progress"
      PROVE  task[t].status = "in_progress" /\ task'[t].started = task[t].started
  BY <1>2 DEF LocalEffect, NoNewAttempt
<1>3. \A v \in Workers \ {w} : Holds(v, t)' => Holds(v, t)
  BY <1>1, <1>2 DEF Holds, HoldsRow, Row, IsLive
<1>4. CASE Holds(w, t)
  <2>1. \A v \in Workers \ {w} : ~Holds(v, t)
    BY <1>4 DEF OneOwner, Holds, HoldsRow, Row
  <2>2. CASE Holds(w, t)'
    BY <1>3, <1>4, <2>1, <2>2, OwnerKept DEF Leaves
  <2>3. CASE ~Holds(w, t)'
    BY <1>3, <1>4, <2>1, <2>3, OwnerGone DEF Leaves
  <2> QED
    BY <2>2, <2>3
<1>5. CASE ~Holds(w, t)
  <2>1. task[t].status = "in_progress" =>
          task'[t].status = "in_progress" /\ task'[t].started = task[t].started
    <3>1. ~(IsLive(w) /\ Owns(w) /\ run[w].task = t)
      BY <1>5 DEF Holds, HoldsRow, Owns, OwnedBy
    <3> QED
      BY <3>1 DEF LocalEffect, Spares
  <2>2. ~Holds(w, t)'
    <3>1. SUFFICES ASSUME Holds(w, t)'
                   PROVE  FALSE
      OBVIOUS
    <3>2. Engaged(w) /\ run'[w].task = run[w].task /\ run'[w].token = run[w].token
      BY <3>1 DEF LocalEffect, Holds, Engaged, IsLive
    <3>3. run[w].task = t /\ HoldsRow(w)
      BY <1>2, <3>1, <3>2 DEF Holds, HoldsRow, Row
    <3>4. run[w].pc # "completing"
      BY <3>3 DEF CompletedInv, Gone, HoldsRow
    <3> QED
      BY <1>5, <3>2, <3>3, <3>4 DEF Holds, Engaged
  <2>3. \A v \in Workers : Holds(v, t)' <=> Holds(v, t)
    BY <1>1, <1>2, <1>5, <2>1, <2>2 DEF Holds, HoldsRow, Row, IsLive
  <2> QED
    BY <1>5, <2>3, OwnerKept DEF Leaves
<1> QED
  BY <1>4, <1>5

-----------------------------------------------------------------------------
(* What has to change in the table for a step to be one of TaskLifecycle.  *)

Same(t) ==
    task'[t].status = task[t].status /\ Left(t)' = Left(t) /\ OwnerOf(t)' = OwnerOf(t)

LEMMA ToStutter ==
    ASSUME \A t \in TaskIds : Same(t)
    PROVE  UNCHANGED Lifecycle!lifecycleVars
BY DEF Same, Left, Lifecycle!lifecycleVars

LEMMA ToCreate ==
    ASSUME NEW t \in TaskIds, NEW n, \A s \in TaskIds \ {t} : Same(s),
           task[t].status = "unused", task'[t].status = "pending", Left(t)' = n,
           OwnerOf(t)' = OwnerOf(t)
    PROVE  Lifecycle!Create(t, n)
BY DEF Same, Left, Lifecycle!Create

LEMMA ToStart ==
    ASSUME NEW w \in Workers, NEW t \in TaskIds, \A s \in TaskIds \ {t} : Same(s),
           \A s \in TaskIds : OwnerOf(s) # w,
           task[t].status = "pending", Left(t) > 0,
           task'[t].status = "in_progress", Left(t)' = Left(t) - 1, OwnerOf(t)' = w
    PROVE  Lifecycle!Start(w, t)
BY DEF Same, Left, Lifecycle!Start

LEMMA ToFinish ==
    ASSUME NEW w \in Workers, NEW t \in TaskIds, \A s \in TaskIds \ {t} : Same(s),
           OwnerOf(t) = w, task'[t].status = "finished", Left(t)' = Left(t),
           OwnerOf(t)' = NoWorker
    PROVE  Lifecycle!Finish(w, t)
BY DEF Same, Left, Lifecycle!Finish

LEMMA ToAwait ==
    ASSUME NEW w \in Workers, NEW t \in TaskIds, NEW c \in TaskIds, NEW n, c # t,
           \A s \in TaskIds \ {t, c} : Same(s),
           OwnerOf(t) = w, task'[t].status = "blocked", Left(t)' = Left(t) + 1,
           OwnerOf(t)' = NoWorker,
           task[c].status = "unused", task'[c].status = "pending", Left(c)' = n,
           OwnerOf(c)' = OwnerOf(c)
    PROVE  Lifecycle!Await(w, t, c, n)
BY DEF Same, Left, Lifecycle!Await

LEMMA ToResume ==
    ASSUME NEW t \in TaskIds, \A s \in TaskIds \ {t} : Same(s),
           task[t].status = "blocked", task'[t].status = "pending", Left(t)' = Left(t),
           OwnerOf(t)' = OwnerOf(t)
    PROVE  Lifecycle!Resume(t)
BY DEF Same, Left, Lifecycle!Resume

LEMMA ToFail ==
    ASSUME NEW w \in Workers, NEW t \in TaskIds, \A s \in TaskIds \ {t} : Same(s),
           OwnerOf(t) = w, task'[t].status = (IF Left(t) > 0 THEN "pending" ELSE "error"),
           Left(t)' = Left(t), OwnerOf(t)' = NoWorker
    PROVE  Lifecycle!Fail(w, t)
BY DEF Same, Left, Lifecycle!Fail, Lifecycle!AfterFailure

LEMMA ToVanish ==
    ASSUME NEW w \in Workers, NEW t \in TaskIds, \A s \in TaskIds \ {t} : Same(s),
           OwnerOf(t) = w, task'[t].status = task[t].status, Left(t)' = Left(t),
           OwnerOf(t)' = NoWorker
    PROVE  Lifecycle!Vanish(w, t)
BY DEF Same, Left, Lifecycle!Vanish

LEMMA ToRevoke ==
    ASSUME NEW S \in SUBSET TaskIds, NEW R \in SUBSET TaskIds,
           \A t \in S : /\ task[t].status = "in_progress"
                        /\ task'[t].status = IF Left(t) > 0 THEN "pending" ELSE "error"
                        /\ Left(t)' = Left(t) /\ OwnerOf(t)' = NoWorker,
           \A t \in R : /\ task[t].status = "blocked" /\ task'[t].status = "pending"
                        /\ Left(t)' = Left(t) /\ OwnerOf(t)' = OwnerOf(t),
           \A t \in TaskIds \ (S \cup R) : Same(t),
           R # {} => \E t \in S : ~(Left(t) > 0)
    PROVE  Lifecycle!Revoke(S, R)
BY DEF Same, Left, Lifecycle!Revoke, Lifecycle!AfterFailure

LEMMA ToReopen ==
    ASSUME NEW S \in SUBSET TaskIds,
           \A t \in S : /\ task[t].status = "error" /\ task'[t].status = "pending"
                        /\ OwnerOf(t)' = OwnerOf(t),
           \A t \in TaskIds : Left(t)' \in -MaxAttempts..MaxAttempts,
           \A t \in TaskIds \ S : Same(t)
    PROVE  Lifecycle!Reopen(S)
BY DEF Same, Left, Lifecycle!Reopen

LEMMA ToEdit ==
    ASSUME NEW t \in TaskIds, NEW n, \A s \in TaskIds \ {t} : Same(s),
           task[t].status = "pending", task'[t].status = "pending", Left(t)' = n,
           OwnerOf(t)' = OwnerOf(t)
    PROVE  Lifecycle!Edit(t, n)
BY DEF Same, Left, Lifecycle!Edit

LEMMA ToRemove ==
    ASSUME NEW S \in SUBSET TaskIds,
           \A t \in S : /\ task[t].status \in {"pending", "finished", "error"}
                        /\ task'[t].status = "deleted" /\ Left(t)' = 0
                        /\ OwnerOf(t)' = OwnerOf(t),
           \A t \in TaskIds \ S : Same(t)
    PROVE  Lifecycle!Remove(S)
BY DEF Same, Left, Lifecycle!Remove

-----------------------------------------------------------------------------
(* Steps of the clock, clients, maintenance and operators *)

LEMMA SameOutside ==
    ASSUME OneOwner, OneOwner', OutsideEffect, NEW t \in TaskIds,
           task'[t].status = task[t].status, Left(t)' = Left(t)
    PROVE  Same(t)
BY OwnersOutside, OwnedInProgress DEF Same

LEMMA UnownedOutside ==
    ASSUME OneOwner, OneOwner', OutsideEffect, NEW t \in TaskIds,
           task[t].status # "in_progress", task'[t].status # "in_progress"
    PROVE  OwnerOf(t)' = OwnerOf(t)
BY OwnersOutside, OwnedInProgress

(* A statement that times rows out revokes them and resumes the parents of *)
(* those that have no attempt left.                                        *)
LEMMA TimeOutRevokes ==
    ASSUME TypeInv, NEW S \in SUBSET TaskIds, NEW at,
           \A t \in S : task[t].status = "in_progress",
           task' = TimeOut(task, S, at),
           \A t \in S : OwnerOf(t)' = NoWorker,
           \A t \in TaskIds \ S : OwnerOf(t)' = OwnerOf(t)
    PROVE  \E R \in SUBSET TaskIds : Lifecycle!Revoke(S, R)
<1> DEFINE exhausted == {t \in S : ~CanRetry(task[t])}
           orphaned == {task[t].parent : t \in exhausted}
           R == {t \in TaskIds \ S : t \in orphaned /\ task[t].status = "blocked"}
<1>0. task \in [TaskIds -> Rows]
  BY DEF TypeInv, TypeOK
<1>1. \A t \in TaskIds : task'[t] = IF t \in S THEN Failed(task[t], at)
                                    ELSE IF t \in orphaned THEN Woken(task[t], at)
                                    ELSE task[t]
  BY DEF TimeOut
<1>2. ASSUME NEW t \in TaskIds
      PROVE  /\ CanRetry(task[t]) <=> Left(t) > 0
             /\ Failed(task[t], at).status = IF Left(t) > 0 THEN "pending" ELSE "error"
             /\ Failed(task[t], at).maxAttempts = task[t].maxAttempts
             /\ Failed(task[t], at).attempt = task[t].attempt
             /\ Woken(task[t], at).maxAttempts = task[t].maxAttempts
             /\ Woken(task[t], at).attempt = task[t].attempt
             /\ task[t].status = "blocked" => Woken(task[t], at).status = "pending"
             /\ task[t].status # "blocked" => Woken(task[t], at) = task[t]
  <2>1. task[t] \in Rows
    BY <1>0
  <2> QED
    BY <2>1 DEF Failed, Woken, CanRetry, Left, Rows
<1>3. R # {} => \E t \in S : ~(Left(t) > 0)
  <2>1. SUFFICES ASSUME NEW t \in R
                 PROVE  \E s \in S : ~CanRetry(task[s])
    BY <1>2
  <2> QED
    OBVIOUS
<1>4. R \in SUBSET TaskIds /\ R \cap S = {}
  OBVIOUS
<1>5. \A t \in R : t \in orphaned /\ task[t].status = "blocked"
  OBVIOUS
<1>6. \A t \in TaskIds \ (S \cup R) : t \in orphaned => task[t].status # "blocked"
  OBVIOUS
<1> HIDE DEF R, orphaned
<1>7. \A t \in S : /\ task[t].status = "in_progress"
                   /\ task'[t].status = IF Left(t) > 0 THEN "pending" ELSE "error"
                   /\ Left(t)' = Left(t) /\ OwnerOf(t)' = NoWorker
  BY <1>1, <1>2 DEF Left
<1>8. \A t \in R : /\ task[t].status = "blocked" /\ task'[t].status = "pending"
                   /\ Left(t)' = Left(t) /\ OwnerOf(t)' = OwnerOf(t)
  BY <1>1, <1>2, <1>4, <1>5 DEF Left
<1>9. \A t \in TaskIds \ (S \cup R) : Same(t)
  BY <1>1, <1>2, <1>6 DEF Same, Left
<1> QED
  BY <1>3, <1>4, <1>7, <1>8, <1>9, ToRevoke

(* Removing rows. *)
LEMMA WithoutRemoves ==
    ASSUME TypeInv, OneOwner, OneOwner', OutsideEffect, NEW S \in SUBSET TaskIds,
           \A t \in S : task[t].status \in {"pending", "finished", "error"},
           task' = Without(task, S)
    PROVE  Lifecycle!Remove(S)
<1>0. task \in [TaskIds -> Rows]
  BY DEF TypeInv, TypeOK
<1>1. ASSUME NEW t \in S
      PROVE  task'[t].status = "deleted" /\ Left(t)' = 0 /\ OwnerOf(t)' = OwnerOf(t)
  <2>1. t \in TaskIds /\ task'[t] = NoRow("deleted")
    BY DEF Without
  <2>2. task'[t].status = "deleted" /\ Left(t)' = 0
    BY <2>1 DEF NoRow, Left
  <2> QED
    BY <2>1, <2>2, UnownedOutside
<1>2. ASSUME NEW t \in TaskIds \ S
      PROVE  Same(t)
  <2>1. task[t] \in Rows
    BY <1>0
  <2>2. task'[t] \in {task[t], [task[t] EXCEPT !.parent = NoTask]}
    BY DEF Without
  <2>3. task'[t].status = task[t].status /\ Left(t)' = Left(t)
    BY <2>1, <2>2 DEF Left, Rows
  <2> QED
    BY <2>3, SameOutside
<1> QED
  BY <1>1, <1>2, ToRemove

(* The attempts a row has left are an integer within the bound. *)
LEMMA LeftType ==
    ASSUME task \in [TaskIds -> Rows], NEW t \in TaskIds
    PROVE  Left(t) \in -MaxAttempts..MaxAttempts
<1>1. task[t].maxAttempts \in 0..MaxAttempts /\ task[t].attempt \in 0..MaxAttempts
  BY DEF Rows
<1> QED
  BY <1>1, TableAssumption DEF Left

LEMMA LeftTypePrimed ==
    ASSUME task' \in [TaskIds -> Rows], NEW t \in TaskIds
    PROVE  Left(t)' \in -MaxAttempts..MaxAttempts
<1>1. task'[t].maxAttempts \in 0..MaxAttempts /\ task'[t].attempt \in 0..MaxAttempts
  BY DEF Rows
<1> QED
  BY <1>1, TableAssumption DEF Left

LEMMA OutsideImplements ==
    ASSUME TypeInv, TypeInv', OneOwner, OneOwner', OutsideStep
    PROVE  [Lifecycle!Next]_(Lifecycle!lifecycleVars)
<1>0. /\ task \in [TaskIds -> Rows] /\ task' \in [TaskIds -> Rows] /\ OutsideEffect
      /\ \A t \in TaskIds : Left(t)' \in -MaxAttempts..MaxAttempts
  BY OutsideStepEffect, LeftTypePrimed DEF TypeInv, TypeOK
<1>1. CASE UNCHANGED task
  <2>1. \A t \in TaskIds : Same(t)
    BY <1>0, <1>1, SameOutside DEF Left
  <2> QED
    BY <2>1, ToStutter
<1>2. ASSUME NEW t \in TaskIds, NEW n \in Retries, Schedule(t, n)
      PROVE  Lifecycle!Next
  <2>1. /\ task[t].status = "unused" /\ task'[t] = NewRow(NoTask, n)
        /\ \A s \in TaskIds \ {t} : task'[s] = task[s]
    BY <1>0, <1>2 DEF Schedule, IsNextId
  <2>2. n \in 1..MaxAttempts
    BY QueueAssumption
  <2>3. task'[t].status = "pending" /\ Left(t)' = n
    BY <2>1, <2>2, TableAssumption DEF NewRow, NoRow, Left
  <2>4. OwnerOf(t)' = OwnerOf(t)
    BY <1>0, <2>1, <2>3, UnownedOutside
  <2>5. \A s \in TaskIds \ {t} : Same(s)
    BY <1>0, <2>1, SameOutside DEF Left
  <2>6. Lifecycle!Create(t, n)
    BY <2>1, <2>3, <2>4, <2>5, ToCreate
  <2> QED
    BY <2>2, <2>6 DEF Lifecycle!Next
<1>3. CASE FailStalled
  <2> DEFINE stalled == {t \in TaskIds : Stalled(task[t], now)}
  <2>1. \A t \in stalled : task[t].status = "in_progress"
    BY DEF Stalled
  <2>2. task' = TimeOut(task, stalled, now) /\ stalled \in SUBSET TaskIds
    BY <1>3 DEF FailStalled
  <2>3. \A t \in stalled : OwnerOf(t)' = NoWorker
    <3>1. \A t \in stalled : task'[t].status # "in_progress"
      <4> HIDE DEF stalled
      <4> QED
        BY <1>0, <2>2, FailedRow DEF TimeOut
    <3> QED
      BY <1>0, <3>1, OwnersOutside
  <2>4. \A t \in TaskIds \ stalled : OwnerOf(t)' = OwnerOf(t)
    <3>1. \A t \in TaskIds \ stalled : task'[t].status = "in_progress" <=> task[t].status = "in_progress"
      <4> HIDE DEF stalled
      <4> QED
        BY <1>0, <2>2, FailedRow DEF TimeOut
    <3> QED
      BY <1>0, <3>1, OwnersOutside, OwnedInProgress
  <2> HIDE DEF stalled
  <2>5. \E R \in SUBSET TaskIds : Lifecycle!Revoke(stalled, R)
    BY <2>1, <2>2, <2>3, <2>4, TimeOutRevokes
  <2> QED
    BY <2>2, <2>5 DEF Lifecycle!Next
<1>4. ASSUME NEW S \in SUBSET TaskIds,
             \A t \in S : task[t].status = "error" /\ task'[t].status = "pending",
             \A t \in TaskIds \ S : task'[t] = task[t]
      PROVE  Lifecycle!Next
  <2>1. \A t \in S : OwnerOf(t)' = OwnerOf(t)
    BY <1>0, <1>4, UnownedOutside
  <2>2. \A t \in TaskIds \ S : Same(t)
    BY <1>0, <1>4, SameOutside DEF Left
  <2>3. Lifecycle!Reopen(S)
    BY <1>0, <1>4, <2>1, <2>2, ToReopen
  <2> QED
    BY <2>3 DEF Lifecycle!Next
<1>5. CASE ResetFailed
  <2> DEFINE S == {t \in TaskIds : Retryable(t)}
  <2>1. /\ S \in SUBSET TaskIds
        /\ \A t \in S : task[t].status = "error" /\ task'[t].status = "pending"
        /\ \A t \in TaskIds \ S : task'[t] = task[t]
    BY <1>0, <1>5 DEF ResetFailed, Retryable, Rows
  <2> QED
    BY <1>4, <2>1
<1>6. ASSUME NEW S \in SUBSET TaskIds, RestartFailed(S)
      PROVE  Lifecycle!Next
  <2>1. /\ \A t \in S : task[t].status = "error" /\ task'[t].status = "pending"
        /\ \A t \in TaskIds \ S : task'[t] = task[t]
    BY <1>0, <1>6 DEF RestartFailed, Rows
  <2> QED
    BY <1>4, <2>1
<1>7. ASSUME NEW S \in SUBSET TaskIds,
             \A t \in S : task[t].status \in {"pending", "finished", "error"},
             task' = Without(task, S)
      PROVE  Lifecycle!Next
  BY <1>0, <1>7, WithoutRemoves DEF Lifecycle!Next
<1>8. ASSUME NEW S \in SUBSET TaskIds, ClearFinished(S)
      PROVE  Lifecycle!Next
  BY <1>7, <1>8 DEF ClearFinished
<1>9. CASE ClearFailed
  BY <1>7, <1>9 DEF ClearFailed
<1>10. ASSUME NEW t \in TaskIds, DeleteTask(t)
       PROVE  Lifecycle!Next
  BY <1>7, <1>10 DEF DeleteTask
<1>11. ASSUME NEW t \in TaskIds, NEW n \in Retries, NEW at \in {Null, now},
              UpdatePendingTask(t, n, at)
       PROVE  Lifecycle!Next
  <2>1. /\ task[t].status = "pending" /\ task'[t].status = "pending"
        /\ \A s \in TaskIds \ {t} : task'[s] = task[s]
    BY <1>0, <1>11 DEF UpdatePendingTask, Rows
  <2>2. OwnerOf(t)' = OwnerOf(t)
    BY <1>0, <2>1, UnownedOutside
  <2>3. \A s \in TaskIds \ {t} : Same(s)
    BY <1>0, <2>1, SameOutside DEF Left
  <2>4. PICK left \in -MaxAttempts..MaxAttempts : Left(t)' = left
    BY <1>0
  <2>5. Lifecycle!Edit(t, left)
    BY <2>1, <2>2, <2>3, <2>4, ToEdit
  <2> QED
    BY <2>5 DEF Lifecycle!Next
<1>12. Tick \/ UNCHANGED vars => UNCHANGED task
  BY DEF Tick, vars
<1> QED
  BY <1>1, <1>2, <1>3, <1>5, <1>6, <1>8, <1>9, <1>10, <1>11, <1>12 DEF OutsideStep

-----------------------------------------------------------------------------
(* Steps of the worker slots *)

LEMMA SameLocal ==
    ASSUME OneOwner, OneOwner', CompletedInv, NEW w \in Workers, LocalEffect(w), NEW t \in TaskIds,
           task'[t].status = task[t].status, Left(t)' = Left(t), ~Leaves(w, t)
    PROVE  Same(t)
BY OwnersLocal DEF Same

(* A slot that gives its row up is the owner and is none any more.         *)
LEMMA HolderLeaves ==
    ASSUME OneOwner, OneOwner', CompletedInv, NEW w \in Workers, LocalEffect(w), NEW t \in TaskIds,
           Leaves(w, t)
    PROVE  OwnerOf(t) = w /\ OwnerOf(t)' = NoWorker
BY OwnersLocal, OwnerIsHolder DEF Leaves

(* What a slot does to its row when it holds it, and to no other. *)
LEMMA OthersSame ==
    ASSUME OneOwner, OneOwner', CompletedInv, NEW w \in Workers, LocalEffect(w), NEW t \in TaskIds,
           run[w].task = t, NEW s \in TaskIds \ {t}, task'[s] = task[s]
    PROVE  Same(s)
<1>1. ~Leaves(w, s)
  BY DEF Leaves, Holds
<1> QED
  BY <1>1, SameLocal DEF Left

(* Nothing is written: the owner left, or nothing happened. *)
LEMMA QuietImplements ==
    ASSUME OneOwner, OneOwner', CompletedInv, NEW w \in Workers, LocalEffect(w), UNCHANGED task
    PROVE  [Lifecycle!Next]_(Lifecycle!lifecycleVars)
<1>1. ASSUME NEW t \in TaskIds, Leaves(w, t)
      PROVE  Lifecycle!Next
  <2>1. OwnerOf(t) = w /\ OwnerOf(t)' = NoWorker
    BY <1>1, HolderLeaves
  <2>2. \A s \in TaskIds \ {t} : Same(s)
    BY <1>1, OthersSame DEF Leaves, Holds
  <2>3. Lifecycle!Vanish(w, t)
    BY <1>1, <2>1, <2>2, ToVanish DEF Left
  <2> QED
    BY <1>1, <2>3 DEF Lifecycle!Next
<1>2. CASE \A t \in TaskIds : ~Leaves(w, t)
  <2>1. \A t \in TaskIds : Same(t)
    BY <1>2, SameLocal DEF Left
  <2> QED
    BY <2>1, ToStutter
<1> QED
  BY <1>1, <1>2

LEMMA LocalImplements ==
    ASSUME TypeInv, OneOwner, OneOwner', CompletedInv, NEW w \in Workers, LocalStep(w)
    PROVE  [Lifecycle!Next]_(Lifecycle!lifecycleVars)
<1>0. /\ task \in [TaskIds -> Rows] /\ LocalEffect(w)
      /\ run[w].pc # "idle" => run[w].task \in TaskIds
  BY LocalStepEffect DEF TypeInv, TypeOK
<1>a. run[w].pc # "idle"
  BY DEF LocalStep, ReadChild, Ping, Return, Throw, FailIfStalled, Finish, SpawnAny, Spawn,
         SpawnLost, Fail, Wake, Crash, Rejected, LostAnswer, Unanswered
<1>b. PICK t \in TaskIds : run[w].task = t
  BY <1>0, <1>a
<1>1. CASE UNCHANGED task
  BY <1>0, <1>1, QuietImplements
<1>2. ASSUME IsLive(w), Owns(w), task'[t].status # "in_progress"
      PROVE  OwnerOf(t) = w /\ OwnerOf(t)' = NoWorker /\ task[t].status = "in_progress"
  <2>1. Leaves(w, t) /\ task[t].status = "in_progress"
    BY <1>b, <1>2 DEF Owns, OwnedBy, Leaves, Holds, HoldsRow, Row
  <2> QED
    BY <1>0, <2>1, HolderLeaves
<1>3. CASE IsLive(w) /\ task' = Expired(w) /\ task' # task
  <2>1. Owns(w) /\ task' = TimeOut(task, {t}, run[w].at)
    BY <1>b, <1>3 DEF Expired
  <2>2. task'[t].status # "in_progress"
    BY <1>b, <1>3, StatementEffects
  <2>3. /\ task[t].status = "in_progress" /\ OwnerOf(t)' = NoWorker
    BY <1>2, <1>3, <2>1, <2>2
  <2>4. \A s \in TaskIds \ {t} : OwnerOf(s)' = OwnerOf(s)
    BY <1>0, <1>b, OwnersLocal DEF Leaves, Holds
  <2>5. \E R \in SUBSET TaskIds : Lifecycle!Revoke({t}, R)
    BY <2>1, <2>3, <2>4, TimeOutRevokes
  <2>6. {t} \in SUBSET TaskIds
    BY <2>3
  <2> QED
    BY <2>5, <2>6 DEF Lifecycle!Next
<1>4. CASE IsLive(w) /\ task' = Finished(w) /\ task' # task
  <2>1. /\ Owns(w) /\ task' = [task EXCEPT ![t].status = "finished", ![t].activeChild = NoTask]
    BY <1>b, <1>4 DEF Finished
  <2>2. /\ task'[t].status = "finished" /\ Left(t)' = Left(t)
        /\ \A s \in TaskIds \ {t} : task'[s] = task[s]
    BY <1>0, <2>1 DEF Left, Rows
  <2>3. OwnerOf(t) = w /\ OwnerOf(t)' = NoWorker
    BY <1>2, <1>4, <2>1, <2>2
  <2>4. \A s \in TaskIds \ {t} : Same(s)
    BY <1>0, <2>2, <1>b, OthersSame
  <2>5. Lifecycle!Finish(w, t)
    BY <2>2, <2>3, <2>4, ToFinish
  <2> QED
    BY <2>5 DEF Lifecycle!Next
<1>5. ASSUME NEW c \in TaskIds, NEW n \in ChildRetries, IsLive(w), Spawned(w, c, n)
      PROVE  Lifecycle!Next
  <2>1. /\ Owns(w) /\ task[c].status = "unused"
        /\ task' = [task EXCEPT ![t] = Blocked(@, c), ![c] = NewRow(t, n)]
    BY <1>b, <1>5 DEF Spawned, IsNextId
  <2>2. /\ task[t].status = "in_progress" /\ c # t
        /\ OwnerOf(t) = w /\ OwnerOf(t)' = NoWorker
    <3>1. task'[t].status = "blocked"
      BY <1>b, <1>5, StatementEffects
    <3> QED
      BY <1>2, <1>5, <2>1, <3>1
  <2>3. /\ task'[t] = Blocked(task[t], c) /\ task'[c] = NewRow(t, n)
        /\ \A s \in TaskIds \ {t, c} : task'[s] = task[s]
    BY <1>0, <2>1, <2>2
  <2>4. task'[t].status = "blocked" /\ Left(t)' = Left(t) + 1
    <3>1. task[t].attempt >= 1 /\ task[t] \in Rows
      BY <1>0, <2>2 DEF TypeInv
    <3>2. /\ task[t].attempt \in Nat /\ task[t].maxAttempts \in Nat
          /\ task'[t].status = "blocked" /\ task'[t].maxAttempts = task[t].maxAttempts
          /\ task'[t].attempt = task[t].attempt - 1
      BY <2>3, <3>1, TableAssumption DEF Blocked, Rows
    <3> QED
      BY <3>2 DEF Left
  <2>5. n \in 1..MaxAttempts
    BY QueueAssumption
  <2>6. task'[c].status = "pending" /\ Left(c)' = n
    BY <2>3, <2>5, TableAssumption DEF NewRow, NoRow, Left
  <2>7. OwnerOf(c)' = OwnerOf(c)
    BY <1>0, <1>b, <2>2, OwnersLocal DEF Leaves, Holds
  <2>8. \A s \in TaskIds \ {t, c} : Same(s)
    BY <1>0, <2>2, <2>3, <1>b, OthersSame
  <2>9. Lifecycle!Await(w, t, c, n)
    BY <2>1, <2>2, <2>4, <2>6, <2>7, <2>8, ToAwait
  <2> QED
    BY <2>2, <2>5, <2>9 DEF Lifecycle!Next
<1>6. CASE Fail(w) /\ task' # task
  <2>1. /\ IsLive(w) /\ Owns(w) /\ task' = [task EXCEPT ![t] = Failed(@, now)]
    BY <1>b, <1>6 DEF Fail, IsLive, Live, Phases
  <2>3. /\ task'[t] = Failed(task[t], now)
        /\ \A s \in TaskIds \ {t} : task'[s] = task[s]
    BY <1>0, <2>1
  <2>2. OwnerOf(t) = w /\ OwnerOf(t)' = NoWorker
    BY <1>0, <1>2, <2>1, <2>3, FailedRow
  <2>4. /\ task'[t].status = IF Left(t) > 0 THEN "pending" ELSE "error"
        /\ Left(t)' = Left(t)
    <3>1. task[t] \in Rows
      BY <1>0, <2>2
    <3> QED
      BY <2>3, <3>1 DEF Failed, CanRetry, Left, Rows
  <2>5. \A s \in TaskIds \ {t} : Same(s)
    BY <1>0, <2>2, <2>3, <1>b, OthersSame
  <2>6. Lifecycle!Fail(w, t)
    BY <2>2, <2>4, <2>5, ToFail
  <2> QED
    BY <2>2, <2>6 DEF Lifecycle!Next
<1>7. CASE ~IsLive(w) /\ task' = WakeParent(task, t, now) /\ task' # task
  <2>1. task' = WakeParent(task, t, now)
    BY <1>7
  <2>2. PICK p \in TaskIds : task'[p] # task[p]
    BY <1>0, <1>7, <2>1 DEF WakeParent
  <2>3. p = task[t].parent /\ task[p].status = "blocked"
    BY <2>1, <2>2 DEF WakeParent, Woken
  <2>4. /\ task'[p] = Woken(task[p], now) /\ task[p] \in Rows
        /\ \A s \in TaskIds \ {p} : task'[s] = task[s]
    BY <1>0, <2>1, <2>3 DEF WakeParent
  <2>5. task'[p].status = "pending" /\ Left(p)' = Left(p)
    BY <2>3, <2>4 DEF Woken, Rows, Left
  <2>6. \A s \in TaskIds : ~Leaves(w, s)
    BY <1>7 DEF Leaves, Holds
  <2>7. OwnerOf(p)' = OwnerOf(p)
    BY <1>0, <2>3, <2>6, OwnersLocal
  <2>8. \A s \in TaskIds \ {p} : Same(s)
    BY <1>0, <2>4, <2>6, SameLocal DEF Left
  <2>9. Lifecycle!Resume(p)
    BY <2>3, <2>5, <2>7, <2>8, ToResume
  <2> QED
    BY <2>3, <2>9 DEF Lifecycle!Next
<1>8. \/ ReadChild(w) \/ Ping(w) \/ Return(w) \/ Throw(w) \/ SpawnLost(w) \/ Crash(w) \/ Rejected(w)
        => UNCHANGED task
  BY DEF ReadChild, Ping, Return, Throw, SpawnLost, Crash, Rejected
<1>9. FailIfStalled(w) \/ Finish(w) \/ SpawnAny(w) \/ Wake(w) \/ LostAnswer(w) =>
        \/ IsLive(w) /\ (task' = Expired(w) \/ task' = Finished(w))
        \/ IsLive(w) /\ \E c \in TaskIds, n \in ChildRetries : Spawned(w, c, n)
        \/ ~IsLive(w) /\ task' = WakeParent(task, t, now)
  BY <1>b DEF FailIfStalled, Finish, SpawnAny, Spawn, Wake, LostAnswer, Unanswered, IsLive, Live, Phases
<1> QED
  BY <1>1, <1>3, <1>4, <1>5, <1>6, <1>7, <1>8, <1>9 DEF LocalStep

(* nextPending: the slot that fetches becomes the only owner. A late       *)
(* attempt of the task carries a start time in the past.                   *)
LEMMA FetchImplements ==
    ASSUME TypeInv, OwnerInv, OneOwner', NEW w \in Workers, NEW t \in TaskIds, Fetch(w, t)
    PROVE  Lifecycle!Next
<1>0. task \in [TaskIds -> Rows] /\ run \in [Workers -> Calls] /\ OneOwner
  BY OwnerInvOneOwner DEF TypeInv, TypeOK, Calls
<1>1. /\ task[t].status = "pending" /\ task[t].attempt < task[t].maxAttempts
      /\ run[w].pc = "idle"
      /\ \A v \in Workers \ {w} : run'[v] = run[v]
      /\ run'[w].token = now /\ run'[w].task = t /\ run'[w].pc \in {"processing", "resuming"}
      /\ task'[t] = Taken(task[t], now)
      /\ \A s \in TaskIds \ {t} : task'[s] = task[s]
  BY <1>0 DEF Fetch, Due
<1>2. /\ task'[t].status = "in_progress" /\ task'[t].started = now
      /\ Left(t) > 0 /\ Left(t)' = Left(t) - 1
  <2>1. task[t] \in Rows
    BY <1>0
  <2>2. /\ task[t].attempt \in Nat /\ task[t].maxAttempts \in Nat
        /\ task'[t].status = "in_progress" /\ task'[t].started = now
        /\ task'[t].maxAttempts = task[t].maxAttempts
        /\ task'[t].attempt = task[t].attempt + 1
    BY <1>1, <2>1, TableAssumption DEF Taken, Rows
  <2> QED
    BY <1>1, <2>2 DEF Left
<1>3. \A s \in TaskIds : OwnerOf(s) # w
  BY <1>0, <1>1, OwnerIsHolder DEF Holds, IsLive, Live
<1>4. OwnerOf(t)' = w
  <2>1. Holds(w, t)'
    BY <1>1, <1>2 DEF Holds, HoldsRow, Row, IsLive, Live, Phases
  <2> QED
    BY <2>1, OwnerIsHolderPrimed
<1>5. ASSUME NEW s \in TaskIds \ {t}
      PROVE  Same(s)
  <2>1. \A v \in Workers : Holds(v, s)' <=> Holds(v, s)
    <3>1. ~Holds(w, s) /\ ~Holds(w, s)'
      BY <1>1 DEF Holds, IsLive, Live
    <3>2. task'[s] = task[s]
      BY <1>1
    <3> QED
      BY <1>1, <3>1, <3>2 DEF Holds, HoldsRow, Row, IsLive
  <2>2. OwnerOf(s)' = OwnerOf(s)
    BY <1>0, <2>1, OwnerKept
  <2> QED
    BY <1>1, <2>2 DEF Same, Left
<1>6. Lifecycle!Start(w, t)
  BY <1>1, <1>2, <1>3, <1>4, <1>5, ToStart
<1> QED
  BY <1>6 DEF Lifecycle!Next

(* A heartbeat changes nothing a client sees. *)
LEMMA BeatImplements ==
    ASSUME TypeInv, OneOwner, OneOwner', NEW w \in Workers, Beats(w)
    PROVE  UNCHANGED Lifecycle!lifecycleVars
<1> SUFFICES ASSUME NEW t \in TaskIds
             PROVE  Same(t)
  BY ToStutter
<1>1. /\ task'[t].status = task[t].status /\ task'[t].started = task[t].started
      /\ task'[t].attempt = task[t].attempt /\ task'[t].maxAttempts = task[t].maxAttempts
  <2>1. PICK sent : task[t] \in Rows /\ task' = Pinged(w, sent)
    BY BeatEffects DEF TypeInv, TypeOK
  <2> QED
    BY <2>1 DEF Pinged, Rows, TypeInv, TypeOK
<1>2. /\ \A v \in Workers \ {w} : run'[v] = run[v]
      /\ run'[w].task = run[w].task /\ run'[w].token = run[w].token
      /\ IsLive(w) /\ run'[w].pc \in Live
  BY BeatEffects DEF Live, Phases
<1>3. \A v \in Workers : Holds(v, t)' <=> Holds(v, t)
  BY <1>1, <1>2 DEF Holds, HoldsRow, Row, IsLive
<1>4. OwnerOf(t)' = OwnerOf(t)
  BY <1>3, OwnerKept
<1> QED
  BY <1>1, <1>4 DEF Same, Left

-----------------------------------------------------------------------------
(* The queue is an implementation of the life of a task that its clients   *)
(* rely on: ownership is exclusive, revocable and ends with every outcome, *)
(* attempts are spent and given back exactly, and nothing removes a task   *)
(* that somebody owns or that waits. What keeps the owner unique is        *)
(* OwnerInv.                                                               *)
THEOREM ImplementsLifecycleCorrect == Spec => ImplementsLifecycle
<1>1. Init => Lifecycle!Init
  <2> SUFFICES ASSUME Init
               PROVE  Lifecycle!Init
    OBVIOUS
  <2>1. \A t \in TaskIds : task[t].status = "unused" /\ Left(t) = 0
    BY TableAssumption DEF Init, NoRow, Left
  <2>2. \A t \in TaskIds : OwnerOf(t) = NoWorker
    BY DEF Init, Idle, OwnerOf, IsLive, Live
  <2> QED
    BY <2>1, <2>2 DEF Lifecycle!Init, Left
<1>2. TypeInv /\ TypeInv' /\ OwnerInv /\ OwnerInv' /\ CompletedInv /\ [Next]_vars
        => [Lifecycle!Next]_(Lifecycle!lifecycleVars)
  <2> SUFFICES ASSUME TypeInv, TypeInv', OwnerInv, OwnerInv', CompletedInv, [Next]_vars
               PROVE  [Lifecycle!Next]_(Lifecycle!lifecycleVars)
    OBVIOUS
  <2>1. OneOwner /\ OneOwner'
    BY OwnerInvOneOwner, OwnerInvOneOwnerPrimed
  <2> QED
    BY <2>1, StepKinds, OutsideImplements, FetchImplements, BeatImplements, LocalImplements
<1>3. Init => CompletedInv
  BY DEF Init, CompletedInv, Idle
<1>4. TypeInv /\ CompletedInv /\ [Next]_vars => CompletedInv'
  BY CompletedInvNext
<1> QED
  BY <1>1, <1>2, <1>3, <1>4, TypeInvariance, OwnerInvariance, PTL
     DEF Spec, ImplementsLifecycle, Lifecycle!Spec
=============================================================================
