-------------------------- MODULE ParentChildProofs --------------------------
(***************************************************************************)
(* Theorems about parents and their children in TasksQueue, for every      *)
(* number of tasks and workers. They are about systems whose operators do  *)
(* not use clearFailed, which removes children under their parents; those  *)
(* that need more say so.                                                  *)
(***************************************************************************)
EXTENDS TasksQueueProofs, FiniteSetTheorems

-----------------------------------------------------------------------------
(* What a step may do to the table, in six kinds. *)

(* The row keeps its place between parent and child; only one that a       *)
(* worker or an operator may still touch changes.                          *)
Carries(old, new) ==
    /\ new.parent = old.parent /\ new.activeChild = old.activeChild
    /\ old.status \notin {"pending", "in_progress", "blocked"} => new = old
    /\ old.status \in {"pending", "in_progress", "blocked"} =>
         \/ new.status \in {"pending", "in_progress"}
         \/ new.status = "blocked" /\ old.status = "blocked"
         \/ new.status = "error" /\ old.status = "in_progress" /\ ~CanRetry(new)

Plain == \A t \in TaskIds : Carries(task[t], task'[t])

(* Rows in error become pending. *)
Requeues ==
    \A t \in TaskIds :
        \/ task'[t] = task[t]
        \/ /\ task[t].status = "error" /\ task'[t].status = "pending"
           /\ task'[t].parent = task[t].parent /\ task'[t].activeChild = task[t].activeChild

Appears(t, n) ==
    /\ t \in TaskIds /\ task[t].status = "unused"
    /\ task' = [task EXCEPT ![t] = NewRow(NoTask, n)]

Ends(p) ==
    /\ p \in TaskIds /\ task[p].status = "in_progress"
    /\ task' = [task EXCEPT ![p].status = "finished", ![p].activeChild = NoTask]

Spawns(p, c, n) ==
    /\ p \in TaskIds /\ task[p].status = "in_progress"
    /\ c \in TaskIds /\ task[c].status = "unused"
    /\ task' = [task EXCEPT ![p] = Blocked(@, c), ![c] = NewRow(p, n)]

(* A pending row is edited, and its payload may lose the active child.     *)
Edits(p) ==
    /\ p \in TaskIds /\ task[p].status = "pending" /\ task'[p].status = "pending"
    /\ task'[p].parent = task[p].parent /\ task'[p].activeChild \in {task[p].activeChild, NoTask}
    /\ \A s \in TaskIds \ {p} : task'[s] = task[s]

Removes(S) ==
    /\ \A t \in S : t \in TaskIds /\ task[t].status \in {"pending", "error", "finished"}
                    /\ ~HasUnfinishedAncestor(task, t)
    /\ task' = Without(task, S)

(* The writes of TaskTable carry a row. *)
LEMMA WokenCarries ==
    ASSUME NEW row \in Rows, NEW at
    PROVE  Carries(row, row) /\ Carries(row, Woken(row, at))
BY DEF Carries, Woken, Rows, Statuses, RowStatuses, CanRetry

LEMMA FailedCarries ==
    ASSUME NEW row \in Rows, NEW at, row.status = "in_progress"
    PROVE  Carries(row, Failed(row, at))
BY DEF Carries, Failed, CanRetry, Rows

LEMMA TakenCarries ==
    ASSUME NEW row \in Rows, NEW at, row.status = "pending"
    PROVE  Carries(row, Taken(row, at))
BY DEF Carries, Taken, Rows

LEMMA HeartbeatCarries ==
    ASSUME NEW row \in Rows, NEW at, row.status = "in_progress"
    PROVE  Carries(row, [row EXCEPT !.hb = at])
BY DEF Carries, Rows

(* A step that writes one row in such a way is plain; so is a time-out.    *)
LEMMA OneRowCarries ==
    ASSUME task \in [TaskIds -> Rows], NEW t \in TaskIds, Carries(task[t], task'[t]),
           \A s \in TaskIds \ {t} : task'[s] = task[s]
    PROVE  Plain
<1>1. \A s \in TaskIds : Carries(task[s], task[s])
  BY WokenCarries
<1> QED
  BY <1>1 DEF Plain

LEMMA TimeOutCarries ==
    ASSUME NEW S, NEW at, task \in [TaskIds -> Rows],
           \A t \in S \cap TaskIds : task[t].status = "in_progress",
           task' = TimeOut(task, S, at)
    PROVE  Plain
<1> SUFFICES ASSUME NEW t \in TaskIds
             PROVE  Carries(task[t], task'[t])
  BY DEF Plain
<1>1. \/ task'[t] = Failed(task[t], at) /\ t \in S
      \/ task'[t] = Woken(task[t], at)
      \/ task'[t] = task[t]
  BY DEF TimeOut
<1> QED
  BY <1>1, WokenCarries, FailedCarries

(* Every step is one of the six kinds. *)
LEMMA TableStep ==
    ASSUME TypeInv, [Next]_vars, "clearFailed" \notin AdminOps
    PROVE  \/ Plain
           \/ Requeues /\ (ResetFailed \/ \E S \in SUBSET TaskIds : RestartFailed(S))
           \/ \E t \in TaskIds, n \in Retries : Appears(t, n)
           \/ \E w \in Workers : run[w].pc = "finishing" /\ Owns(w) /\ Ends(run[w].task)
           \/ \E w \in Workers, c \in TaskIds, n \in ChildRetries :
                run[w].pc = "spawning" /\ Owns(w) /\ Spawns(run[w].task, c, n)
           \/ \E S \in SUBSET TaskIds : Removes(S) /\ UNCHANGED run
           \/ "update" \in AdminOps /\ \E t \in TaskIds : Edits(t)
<1>0. /\ task \in [TaskIds -> Rows]
      /\ \A w \in Workers : run[w].pc # "idle" => run[w].task \in TaskIds
  BY DEF TypeInv, TypeOK
<1>1. ASSUME UNCHANGED task
      PROVE  Plain
  BY <1>0, <1>1, WokenCarries DEF Plain
<1>2. ASSUME NEW t \in TaskIds, NEW n \in Retries, Schedule(t, n)
      PROVE  Appears(t, n)
  BY <1>2 DEF Schedule, IsNextId, Appears
<1>3. ASSUME NEW w \in Workers, NEW t \in TaskIds, Fetch(w, t)
      PROVE  Plain
  <2>1. /\ task[t].status = "pending" /\ task'[t] = Taken(task[t], now)
        /\ \A s \in TaskIds \ {t} : task'[s] = task[s]
    BY <1>0, <1>3 DEF Fetch, Due
  <2>2. Carries(task[t], task'[t])
    BY <1>0, <2>1, TakenCarries
  <2> QED
    BY <1>0, <2>1, <2>2, OneRowCarries
<1>4. ASSUME NEW w \in Workers, run[w].pc # "idle", NEW sent \in Nat, task' = Pinged(w, sent)
      PROVE  Plain
  <2>1. CASE UNCHANGED task
    BY <1>1, <2>1
  <2>2. CASE task' # task
    <3>1. /\ run[w].task \in TaskIds /\ task[run[w].task].status = "in_progress"
          /\ task' = [task EXCEPT ![run[w].task].hb = sent]
      BY <1>0, <1>4, <2>2 DEF Pinged, Owns, OwnedBy, Row
    <3>2. /\ task'[run[w].task] = [task[run[w].task] EXCEPT !.hb = sent]
          /\ \A s \in TaskIds \ {run[w].task} : task'[s] = task[s]
      BY <1>0, <3>1
    <3>3. Carries(task[run[w].task], task'[run[w].task])
      BY <1>0, <3>1, <3>2, HeartbeatCarries
    <3> QED
      BY <1>0, <3>1, <3>2, <3>3, OneRowCarries
  <2> QED
    BY <2>1, <2>2
<1>5. ASSUME NEW w \in Workers, task' = Expired(w)
      PROVE  Plain
  <2>1. CASE UNCHANGED task
    BY <1>1, <2>1
  <2>2. CASE task' # task
    <3>1. /\ task' = TimeOut(task, {run[w].task}, run[w].at)
          /\ task[run[w].task].status = "in_progress"
      BY <1>5, <2>2 DEF Expired, Owns, OwnedBy, Row
    <3> QED
      BY <1>0, <3>1, TimeOutCarries
  <2> QED
    BY <2>1, <2>2
<1>6. ASSUME NEW w \in Workers, run[w].pc = "finishing", task' = Finished(w)
      PROVE  Plain \/ (Owns(w) /\ Ends(run[w].task))
  <2>1. CASE ~Owns(w)
    BY <1>1, <1>6, <2>1 DEF Finished
  <2>2. CASE Owns(w)
    BY <1>0, <1>6, <2>2 DEF Finished, Ends, Owns, OwnedBy, Row
  <2> QED
    BY <2>1, <2>2
<1>7. ASSUME NEW w \in Workers, NEW c \in TaskIds, NEW n \in ChildRetries,
             run[w].pc = "spawning", Spawned(w, c, n)
      PROVE  Owns(w) /\ Spawns(run[w].task, c, n)
  BY <1>0, <1>7 DEF Spawned, Spawns, IsNextId, Owns, OwnedBy, Row
<1>8. ASSUME NEW w \in Workers, Fail(w)
      PROVE  Plain
  <2>1. CASE ~Owns(w)
    BY <1>1, <1>8, <2>1 DEF Fail
  <2>2. CASE Owns(w)
    <3>1. /\ run[w].task \in TaskIds /\ task[run[w].task].status = "in_progress"
          /\ task'[run[w].task] = Failed(task[run[w].task], now)
          /\ \A s \in TaskIds \ {run[w].task} : task'[s] = task[s]
      BY <1>0, <1>8, <2>2 DEF Fail, Owns, OwnedBy, Row
    <3>2. Carries(task[run[w].task], task'[run[w].task])
      BY <1>0, <3>1, FailedCarries
    <3> QED
      BY <1>0, <3>1, <3>2, OneRowCarries
  <2> QED
    BY <2>1, <2>2
<1>9. ASSUME NEW w \in Workers, task' = WakeParent(task, run[w].task, now)
      PROVE  Plain
  <2>1. \A t \in TaskIds : task'[t] = Woken(task[t], now) \/ task'[t] = task[t]
    BY <1>9 DEF WakeParent
  <2> QED
    BY <1>0, <2>1, WokenCarries DEF Plain
<1>10. ASSUME FailStalled
       PROVE  Plain
  <2> DEFINE stalled == {s \in TaskIds : Stalled(task[s], now)}
  <2>1. \A s \in stalled \cap TaskIds : task[s].status = "in_progress"
    BY DEF Stalled
  <2>2. task' = TimeOut(task, stalled, now)
    BY <1>10 DEF FailStalled
  <2> HIDE DEF stalled
  <2> QED
    BY <1>0, <2>1, <2>2, TimeOutCarries
<1>11. ASSUME ResetFailed
       PROVE  Requeues
  BY <1>0, <1>11 DEF ResetFailed, Retryable, Requeues, Rows
<1>12. ASSUME NEW S \in SUBSET TaskIds, RestartFailed(S)
       PROVE  Requeues
  BY <1>0, <1>12 DEF RestartFailed, Requeues, Rows
<1>13. ASSUME NEW S \in SUBSET TaskIds, ClearFinished(S)
       PROVE  Removes(S) /\ UNCHANGED run
  BY <1>13 DEF ClearFinished, Removes
<1>14. ASSUME NEW t \in TaskIds, DeleteTask(t)
       PROVE  Removes({t}) /\ UNCHANGED run
  BY <1>14 DEF DeleteTask, Removes
<1>15. ASSUME NEW t \in TaskIds, NEW n \in Retries, NEW at \in {Null, now},
              UpdatePendingTask(t, n, at)
       PROVE  "update" \in AdminOps /\ Edits(t)
  <2>1. PICK child \in {task[t].activeChild, NoTask} :
          task' = [task EXCEPT ![t].maxAttempts = n, ![t].startAfter = at,
                               ![t].activeChild = child]
    BY <1>15 DEF UpdatePendingTask
  <2>2. /\ "update" \in AdminOps /\ task[t].status = "pending"
        /\ task'[t] = [task[t] EXCEPT !.maxAttempts = n, !.startAfter = at, !.activeChild = child]
        /\ \A s \in TaskIds \ {t} : task'[s] = task[s]
    BY <1>0, <1>15, <2>1 DEF UpdatePendingTask
  <2>3. /\ task'[t].status = "pending" /\ task'[t].parent = task[t].parent
        /\ task'[t].activeChild = child
    BY <1>0, <2>2 DEF Rows
  <2> QED
    BY <2>1, <2>2, <2>3 DEF Edits
<1>16. ~ClearFailed
  BY DEF ClearFailed
<1>17. ASSUME \/ Tick \/ UNCHANGED vars
              \/ \E w \in Workers : \/ ReadChild(w) \/ Ping(w) \/ Return(w) \/ Throw(w)
                                    \/ SpawnLost(w) \/ Rejected(w) \/ Crash(w)
       PROVE  UNCHANGED task
  BY <1>17 DEF Tick, vars, ReadChild, Ping, Return, Throw, SpawnLost, Rejected, Crash
<1>18. \A t \in TaskIds : {t} \in SUBSET TaskIds
  OBVIOUS
<1>19. ASSUME NEW w \in Workers,
              \/ PingAnswer(w) \/ FailIfStalled(w) \/ Finish(w) \/ SpawnAny(w) \/ Wake(w)
              \/ Unanswered(w)
       PROVE  \/ run[w].pc # "idle" /\ \E sent \in Nat : task' = Pinged(w, sent)
              \/ task' = Expired(w)
              \/ run[w].pc = "finishing" /\ task' = Finished(w)
              \/ \E c \in TaskIds, n \in ChildRetries : run[w].pc = "spawning" /\ Spawned(w, c, n)
              \/ task' = WakeParent(task, run[w].task, now)
  <2>1. run[w].pc = "pinging" => \A sent \in run[w].at..now : sent \in Nat
    BY DEF TypeInv
  <2> QED
    BY <1>19, <2>1 DEF PingAnswer, FailIfStalled, Finish, SpawnAny, Spawn, Wake, Unanswered
<1>20. ASSUME NEW w \in Workers, WorkerStep(w)
       PROVE  \/ Plain
              \/ run[w].pc = "finishing" /\ Owns(w) /\ Ends(run[w].task)
              \/ \E c \in TaskIds, n \in ChildRetries :
                   run[w].pc = "spawning" /\ Owns(w) /\ Spawns(run[w].task, c, n)
  BY <1>1, <1>3, <1>4, <1>5, <1>6, <1>7, <1>8, <1>9, <1>17, <1>19, <1>20 DEF WorkerStep
<1> QED
  BY <1>1, <1>2, <1>10, <1>11, <1>12, <1>13, <1>14, <1>15, <1>16, <1>17, <1>18, <1>20 DEF Next

-----------------------------------------------------------------------------
(* The child a payload refers to. *)

(* ActiveChildKept rests on finish, which takes the child out of the       *)
(* payload: only then may retention or deleteTask remove the child.        *)
KinInv ==
    /\ \A t \in TaskIds :
         /\ task[t].status \in {"unused", "deleted", "finished"} => task[t].activeChild = NoTask
         /\ task[t].status = "blocked" => task[t].activeChild # NoTask
    /\ ActiveChildKept

(* The recursive query starts at the parent.                               *)
LEMMA ParentIsAncestor ==
    ASSUME NEW tab, NEW t \in TaskIds, tab[t].parent \in TaskIds
    PROVE  tab[t].parent \in Ancestors(tab, t)
<1> SUFFICES ASSUME NEW A \in SUBSET TaskIds,
                    \A s \in A \cup {t} : tab[s].parent \in A \cup {NoTask}
             PROVE  tab[t].parent \in A
  BY DEF Ancestors
<1> QED
  BY TableAssumption DEF TaskIds, NoTask

(* Removing rows leaves the others as they are, but for their parent, and  *)
(* removes no active child whose parent stays.                             *)
LEMMA RemovalSpares ==
    ASSUME task \in [TaskIds -> Rows], KinInv, NEW S, Removes(S), NEW t \in TaskIds
    PROVE  /\ t \in S => task'[t] = NoRow("deleted")
           /\ t \notin S => /\ task'[t].status = task[t].status
                            /\ task'[t].activeChild = task[t].activeChild
                            /\ task'[t].maxAttempts = task[t].maxAttempts
                            /\ task'[t].attempt = task[t].attempt
                            /\ task'[t].started = task[t].started
                            /\ task'[t].parent = IF task[t].parent \in S THEN NoTask
                                                                        ELSE task[t].parent
                            /\ task[t].activeChild # NoTask => task[t].activeChild \notin S
<1>1. /\ t \in S => task'[t] = NoRow("deleted")
      /\ t \notin S => task'[t] = IF task[t].parent \in S THEN [task[t] EXCEPT !.parent = NoTask]
                                                           ELSE task[t]
  BY DEF Removes, Without
<1>2. ASSUME t \notin S, task[t].activeChild # NoTask
      PROVE  task[t].activeChild \notin S
  <2> DEFINE c == task[t].activeChild
  <2>1. c \in TaskIds /\ Exists(task[t]) /\ task[t].status # "finished"
    BY <1>2 DEF KinInv, Exists, RowStatuses, Rows, Statuses
  <2>2. task[c].parent = t
    BY <1>2, <2>1 DEF KinInv, ActiveChildKept
  <2>3. HasUnfinishedAncestor(task, c)
    BY <2>1, <2>2, ParentIsAncestor DEF HasUnfinishedAncestor
  <2> QED
    BY <2>3 DEF Removes
<1>3. task[t] \in Rows
  OBVIOUS
<1> QED
  BY <1>1, <1>2, <1>3 DEF Rows

(* Every step of the six kinds keeps it.                                   *)
LEMMA KinInvNext ==
    ASSUME TypeInv, KinInv, [Next]_vars, "clearFailed" \notin AdminOps
    PROVE  KinInv'
<1>0. task \in [TaskIds -> Rows] /\ task' \in [TaskIds -> Rows]
  BY TypeInvNext DEF TypeInv, TypeOK
<1> DEFINE Childless(t) ==
             /\ task[t].status \in {"unused", "deleted", "finished"} => task[t].activeChild = NoTask
             /\ task[t].status = "blocked" => task[t].activeChild # NoTask
           Kept(t) ==
             Exists(task[t]) /\ task[t].activeChild # NoTask =>
               Exists(task[task[t].activeChild]) /\ task[task[t].activeChild].parent = t
<1> SUFFICES ASSUME NEW p \in TaskIds
             PROVE  Childless(p)' /\ Kept(p)'
  BY DEF KinInv, ActiveChildKept
<1>1. \A t \in TaskIds : Childless(t) /\ Kept(t)
  BY DEF KinInv, ActiveChildKept
<1>c. \A t \in TaskIds : /\ task[t].activeChild \in TaskIds \cup {NoTask}
                         /\ task'[t].activeChild \in TaskIds \cup {NoTask}
                         /\ task[t].status \in Statuses /\ task'[t].status \in Statuses
  BY <1>0 DEF Rows
<1> USE DEF Exists, RowStatuses, Statuses
<1>2. CASE Plain \/ Requeues
  <2>1. \A t \in TaskIds : /\ task'[t].parent = task[t].parent
                           /\ task'[t].activeChild = task[t].activeChild
                           /\ Exists(task'[t]) <=> Exists(task[t])
                           /\ task'[t].status \in {"unused", "deleted", "finished"}
                                => task'[t].status = task[t].status
                           /\ task'[t].status = "blocked" => task[t].status = "blocked"
    BY <1>2, <1>c DEF Plain, Requeues, Carries
  <2> QED
    BY <1>1, <1>c, <2>1
<1>3. ASSUME NEW t, NEW n, Appears(t, n)
      PROVE  Childless(p)' /\ Kept(p)'
  <2>1. /\ task'[t].status = "pending" /\ task'[t].activeChild = NoTask /\ ~Exists(task[t])
        /\ \A s \in TaskIds \ {t} : task'[s] = task[s]
    BY <1>0, <1>3 DEF Appears, NewRow, NoRow
  <2> QED
    BY <1>1, <1>c, <2>1
<1>4. ASSUME NEW q, Ends(q)
      PROVE  Childless(p)' /\ Kept(p)'
  <2>1. /\ q \in TaskIds /\ Exists(task[q])
        /\ task'[q] = [task[q] EXCEPT !.status = "finished", !.activeChild = NoTask]
        /\ \A s \in TaskIds \ {q} : task'[s] = task[s]
    BY <1>0, <1>4 DEF Ends
  <2>2. /\ task'[q].status = "finished" /\ task'[q].activeChild = NoTask
        /\ task'[q].parent = task[q].parent
    BY <1>0, <2>1 DEF Rows
  <2>3. \A s \in TaskIds : /\ Exists(task'[s]) <=> Exists(task[s])
                           /\ task'[s].parent = task[s].parent
    BY <2>1, <2>2
  <2>4. CASE p = q
    BY <2>2, <2>4
  <2>5. CASE p # q
    BY <1>1, <1>c, <2>1, <2>3, <2>5
  <2> QED
    BY <2>4, <2>5
<1>5. ASSUME NEW q, NEW c, NEW n, Spawns(q, c, n)
      PROVE  Childless(p)' /\ Kept(p)'
  <2>1. /\ q \in TaskIds /\ c \in TaskIds /\ q # c /\ Exists(task[q]) /\ ~Exists(task[c])
        /\ task'[q] = Blocked(task[q], c) /\ task'[c] = NewRow(q, n)
        /\ \A s \in TaskIds \ {q, c} : task'[s] = task[s]
    BY <1>0, <1>5 DEF Spawns
  <2>2. /\ task'[q].status = "blocked" /\ task'[q].activeChild = c
        /\ task'[q].parent = task[q].parent
        /\ task'[c].status = "pending" /\ task'[c].activeChild = NoTask /\ task'[c].parent = q
    BY <1>0, <2>1 DEF Blocked, NewRow, NoRow, Rows
  <2>3. c # NoTask /\ \A s \in TaskIds : Exists(task[s]) => task[s].activeChild # c
    BY <1>1, <2>1, TableAssumption DEF TaskIds, NoTask
  <2>4. CASE p = q
    BY <2>1, <2>2, <2>3, <2>4
  <2>5. CASE p = c
    BY <2>2, <2>5
  <2>6. CASE p \notin {q, c}
    <3>1. task'[p] = task[p]
      BY <2>1, <2>6
    <3>2. \A s \in TaskIds \ {c} : /\ Exists(task'[s]) <=> Exists(task[s])
                                   /\ task'[s].parent = task[s].parent
      BY <2>1, <2>2
    <3> QED
      BY <1>1, <1>c, <2>3, <3>1, <3>2
  <2> QED
    BY <2>4, <2>5, <2>6
<1>6. ASSUME NEW S, Removes(S)
      PROVE  Childless(p)' /\ Kept(p)'
  <2>1. CASE p \in S
    BY <1>0, <1>6, <2>1, RemovalSpares DEF NoRow
  <2>2. CASE p \notin S
    <3>1. /\ task'[p].status = task[p].status /\ task'[p].activeChild = task[p].activeChild
          /\ task[p].activeChild # NoTask => task[p].activeChild \notin S
      BY <1>0, <1>6, <2>2, RemovalSpares
    <3>2. ASSUME task[p].activeChild # NoTask
          PROVE  /\ task'[task[p].activeChild].status = task[task[p].activeChild].status
                 /\ task[task[p].activeChild].parent \notin S =>
                      task'[task[p].activeChild].parent = task[task[p].activeChild].parent
      BY <1>0, <1>6, <1>c, <3>1, <3>2, RemovalSpares
    <3> QED
      BY <1>1, <1>c, <2>2, <3>1, <3>2
  <2> QED
    BY <2>1, <2>2
<1>7. ASSUME NEW q, Edits(q)
      PROVE  Childless(p)' /\ Kept(p)'
  <2>1. \A s \in TaskIds : /\ task'[s].parent = task[s].parent
                           /\ task'[s].activeChild \in {task[s].activeChild, NoTask}
                           /\ task'[s].status = task[s].status
    BY <1>7 DEF Edits
  <2>2. task'[p].status = "blocked" => task'[p].activeChild = task[p].activeChild
    BY <1>7 DEF Edits
  <2> QED
    BY <1>1, <1>c, <2>1, <2>2
<1> QED
  BY <1>2, <1>3, <1>4, <1>5, <1>6, <1>7, TableStep

LEMMA Kinship ==
    ASSUME "clearFailed" \notin AdminOps
    PROVE  Spec => []KinInv
<1>1. Init => KinInv
  BY DEF Init, KinInv, ActiveChildKept, NoRow
<1>2. TypeInv /\ KinInv /\ [Next]_vars => KinInv'
  BY KinInvNext
<1> QED
  BY <1>1, <1>2, TypeInvariance, PTL DEF Spec

(* Neither retention nor deleteTask removes the child a parent refers to,  *)
(* for any trees of tasks, crashes, time-outs, restarts and edits.         *)
THEOREM ActiveChildKeptCorrect ==
    ASSUME "clearFailed" \notin AdminOps
    PROVE  Spec => []ActiveChildKept
<1>1. KinInv => ActiveChildKept
  BY DEF KinInv
<1> QED
  BY <1>1, Kinship, PTL

-----------------------------------------------------------------------------
(* Nobody forgets a blocked parent. *)

(* A parent that was blocked and still is awaits the same child; one that  *)
(* was not has a new child.                                                *)
LEMMA BlockedBefore ==
    ASSUME TypeInv, KinInv, [Next]_vars, "clearFailed" \notin AdminOps,
           NEW p \in TaskIds, task'[p].status = "blocked"
    PROVE  \/ task[p].status = "blocked" /\ task'[p].activeChild = task[p].activeChild
           \/ task'[p].activeChild \in TaskIds /\ task'[task'[p].activeChild].status = "pending"
<1>0. task \in [TaskIds -> Rows]
  BY DEF TypeInv, TypeOK
<1>1. CASE Plain \/ Requeues
  BY <1>1 DEF Plain, Requeues, Carries
<1>2. ASSUME NEW t, NEW n, Appears(t, n)
      PROVE  task'[p] = task[p]
  <2>1. task'[t].status = "pending" /\ \A s \in TaskIds \ {t} : task'[s] = task[s]
    BY <1>0, <1>2 DEF Appears, NewRow, NoRow
  <2> QED
    BY <2>1
<1>3. ASSUME NEW q, Ends(q)
      PROVE  task'[p] = task[p]
  <2>1. task'[q].status = "finished" /\ \A s \in TaskIds \ {q} : task'[s] = task[s]
    BY <1>0, <1>3 DEF Ends, Rows
  <2> QED
    BY <2>1
<1>4. ASSUME NEW q, NEW c, NEW n, Spawns(q, c, n)
      PROVE  task'[p] = task[p] \/ (task'[p].activeChild = c /\ c \in TaskIds /\ task'[c].status = "pending")
  <2>1. /\ q \in TaskIds /\ c \in TaskIds /\ q # c
        /\ task'[q] = Blocked(task[q], c) /\ task'[c] = NewRow(q, n)
        /\ \A s \in TaskIds \ {q, c} : task'[s] = task[s]
    BY <1>0, <1>4 DEF Spawns
  <2>2. task'[q].activeChild = c /\ task'[c].status = "pending"
    BY <1>0, <2>1 DEF Blocked, NewRow, NoRow, Rows
  <2> QED
    BY <2>1, <2>2
<1>5. ASSUME NEW S, Removes(S)
      PROVE  task'[p].status = task[p].status /\ task'[p].activeChild = task[p].activeChild
  <2>1. p \notin S
    BY <1>0, <1>5, RemovalSpares DEF NoRow
  <2> QED
    BY <1>0, <1>5, <2>1, RemovalSpares
<1>6. ASSUME NEW q, Edits(q)
      PROVE  task'[p] = task[p]
  BY <1>6 DEF Edits
<1> QED
  BY <1>1, <1>2, <1>3, <1>4, <1>5, <1>6, TableStep

(* Without crashes a worker that is to issue the wake-up of a terminal     *)
(* child issues it, whatever the database does to its statements.          *)
LEMMA WakingStays ==
    ASSUME TypeInv, [Next]_vars, MaxCrashes = 0, NEW w \in Workers, WillWake(w),
           Terminal(Row(w)), Terminal(task'[run[w].task])
    PROVE  \/ run'[w].task = run[w].task /\ WillWake(w)'
           \/ task' = WakeParent(task, run[w].task, now)
<1>0. /\ run \in [Workers -> Calls] /\ crashes \in 0..MaxCrashes
      /\ run[w].pc \in {"completing", "waking", "failing"} /\ ~Owns(w)
  BY DEF TypeInv, TypeOK, Calls, WillWake, Terminal, Owns, OwnedBy
<1>1. SUFFICES ASSUME task' # WakeParent(task, run[w].task, now)
               PROVE  /\ run'[w].task = run[w].task
                      /\ run'[w].pc \in {"completing", "waking", "failing"}
  BY <1>1 DEF WillWake, Terminal, Owns, OwnedBy, Row
<1>2. SUFFICES ASSUME run'[w] # run[w]
               PROVE  /\ run'[w].task = run[w].task
                      /\ run'[w].pc \in {"completing", "waking", "failing"}
  BY <1>0
<1>3. ~OutsideStep
  BY <1>2, OutsideStepEffect DEF OutsideEffect
<1>4. ASSUME NEW v \in Workers, LocalStep(v)
      PROVE  Fail(w) \/ Rejected(w)
  <2>1. v = w
    BY <1>2, <1>4, LocalStepEffect DEF LocalEffect
  <2> QED
    BY <1>0, <1>1, <1>4, <2>1 DEF LocalStep, ReadChild, Ping, Return, Throw, FailIfStalled, Finish,
       SpawnAny, Spawn, SpawnLost, Wake, Crash, LostAnswer, Unanswered
<1>5. ASSUME NEW v \in Workers, Beats(v)
      PROVE  FALSE
  BY <1>0, <1>2, <1>5, BeatEffects
<1>6. ASSUME NEW v \in Workers, NEW t \in TaskIds, Fetch(v, t)
      PROVE  FALSE
  BY <1>0, <1>2, <1>6 DEF Fetch
<1>7. ASSUME Fail(w)
      PROVE  run'[w].task = run[w].task /\ run'[w].pc = "waking"
  BY <1>0, <1>7 DEF Fail, Goto, Calls
<1>8. ASSUME Rejected(w)
      PROVE  run'[w].task = run[w].task /\ run'[w].pc = "failing"
  BY <1>0, <1>8, ThrowsEffect DEF Rejected
<1> QED
  BY <1>3, <1>4, <1>5, <1>6, <1>7, <1>8, StepKinds

(* The time-out of a row that exhausts its attempts leaves its parent not  *)
(* blocked.                                                                *)
LEMMA TimeOutWakes ==
    ASSUME task \in [TaskIds -> Rows], NEW S, NEW at, task' = TimeOut(task, S, at),
           \A t \in S \cap TaskIds : task[t].status = "in_progress",
           NEW c \in TaskIds, ~Terminal(task[c]), Terminal(task'[c]),
           task[c].parent \in TaskIds
    PROVE  task'[task[c].parent].status # "blocked"
<1> DEFINE p == task[c].parent
<1>1. task[c] \in Rows /\ task[p] \in Rows
  OBVIOUS
<1>2. c \in S /\ ~CanRetry(task[c])
  BY <1>1 DEF TimeOut, Woken, Failed, Terminal, Rows
<1>3. task'[p] = Failed(task[p], at) \/ task'[p] = Woken(task[p], at)
  <2>1. p \in S \/ p \in {task[t].parent : t \in {s \in S : ~CanRetry(task[s])}}
    BY <1>2
  <2> QED
    BY <2>1 DEF TimeOut
<1> QED
  BY <1>1, <1>3 DEF Failed, Woken, Rows

(* Whoever makes a child terminal wakes its parent, or is about to.        *)
LEMMA TerminalIsAnnounced ==
    ASSUME TypeInv, [Next]_vars, NEW c \in TaskIds, ~Terminal(task[c]), Terminal(task'[c]),
           task[c].parent \in TaskIds, task'[task[c].parent].status = "blocked"
    PROVE  \E w \in Workers : run'[w].task = c /\ WillWake(w)'
<1>0. /\ task \in [TaskIds -> Rows] /\ run \in [Workers -> Calls]
      /\ \A w \in Workers : run[w].pc # "idle" => run[w].task \in TaskIds
      /\ task[c] \in Rows
  BY DEF TypeInv, TypeOK, Calls
<1> USE DEF Terminal
<1>1. ASSUME NEW t \in TaskIds, NEW n, Schedule(t, n)
      PROVE  FALSE
  BY <1>0, <1>1 DEF Schedule, NewRow, NoRow
<1>2. ASSUME NEW w \in Workers, NEW t \in TaskIds, Fetch(w, t)
      PROVE  FALSE
  BY <1>0, <1>2 DEF Fetch, Taken, Rows
<1>3. ASSUME NEW w \in Workers, NEW sent, task' = Pinged(w, sent)
      PROVE  FALSE
  BY <1>0, <1>3 DEF Pinged, Rows
<1>4. ASSUME NEW w \in Workers, task' = Expired(w)
      PROVE  FALSE
  <2>1. /\ task' = TimeOut(task, {run[w].task}, run[w].at)
        /\ task[run[w].task].status = "in_progress"
    BY <1>4 DEF Expired, Owns, OwnedBy, Row
  <2>2. \A s \in {run[w].task} \cap TaskIds : task[s].status = "in_progress"
    BY <2>1
  <2> QED
    BY <1>0, <2>1, <2>2, TimeOutWakes
<1>5. ASSUME NEW w \in Workers, run[w].pc = "finishing", task' = Finished(w),
             Finish(w) \/ Unanswered(w)
      PROVE  run'[w].task = c /\ WillWake(w)'
  <2>1. /\ Owns(w) /\ run[w].task \in TaskIds
        /\ task' = [task EXCEPT ![run[w].task].status = "finished",
                                ![run[w].task].activeChild = NoTask]
    BY <1>0, <1>5 DEF Finished
  <2>2. c = run[w].task
    BY <1>0, <2>1
  <2>3. CASE Finish(w)
    BY <1>0, <2>1, <2>2, <2>3 DEF Finish, Goto, Calls, WillWake
  <2>4. CASE Unanswered(w)
    BY <1>0, <2>2, <2>4, ThrowsEffect DEF Unanswered, WillWake, Owns, OwnedBy, Row
  <2> QED
    BY <1>5, <2>3, <2>4
<1>6. ASSUME NEW w \in Workers, run[w].pc = "spawning", NEW s \in TaskIds, NEW n, Spawned(w, s, n)
      PROVE  FALSE
  <2>1. /\ run[w].task \in TaskIds
        /\ task' = [task EXCEPT ![run[w].task] = Blocked(task[run[w].task], s),
                                ![s] = NewRow(run[w].task, n)]
    BY <1>0, <1>6 DEF Spawned
  <2>2. /\ Blocked(task[run[w].task], s).status = "blocked"
        /\ NewRow(run[w].task, n).status = "pending"
    BY <1>0, <2>1 DEF Blocked, NewRow, NoRow, Rows
  <2>3. task'[c] \in {task[c], Blocked(task[run[w].task], s), NewRow(run[w].task, n)}
    BY <1>0, <2>1
  <2> QED
    BY <2>2, <2>3
<1>7. ASSUME NEW w \in Workers, Fail(w)
      PROVE  run'[w].task = c /\ WillWake(w)'
  <2>1. /\ Owns(w) /\ run[w].task \in TaskIds
        /\ task' = [task EXCEPT ![run[w].task] = Failed(task[run[w].task], now)]
    BY <1>0, <1>7 DEF Fail
  <2>2. c = run[w].task /\ task'[c] = Failed(task[c], now)
    BY <1>0, <2>1
  <2>3. ~CanRetry(task[c])
    BY <1>0, <2>2 DEF Failed, Rows
  <2>4. run' = [run EXCEPT ![w].pc = "waking"]
    BY <1>7, <2>1, <2>2, <2>3 DEF Fail, Row, Goto
  <2> QED
    BY <1>0, <2>2, <2>4 DEF Calls, WillWake
<1>8. ASSUME NEW w \in Workers, task' = WakeParent(task, run[w].task, now)
      PROVE  FALSE
  <2>1. task'[c] = Woken(task[c], now) \/ task'[c] = task[c]
    BY <1>8 DEF WakeParent
  <2> QED
    BY <1>0, <2>1 DEF Woken, Rows
<1>9. ASSUME FailStalled
      PROVE  FALSE
  <2> DEFINE stalled == {s \in TaskIds : Stalled(task[s], now)}
  <2>1. \A s \in stalled \cap TaskIds : task[s].status = "in_progress"
    BY DEF Stalled
  <2>2. task' = TimeOut(task, stalled, now)
    BY <1>9 DEF FailStalled
  <2> HIDE DEF stalled
  <2> QED
    BY <1>0, <2>1, <2>2, TimeOutWakes
<1>10. ASSUME ResetFailed \/ \E S \in SUBSET TaskIds : RestartFailed(S)
       PROVE  FALSE
  BY <1>0, <1>10 DEF ResetFailed, RestartFailed, Retryable, Rows
<1>11. ASSUME NEW S, task' = Without(task, S)
       PROVE  FALSE
  <2>1. task'[c] \in {NoRow("deleted"), [task[c] EXCEPT !.parent = NoTask], task[c]}
    BY <1>11 DEF Without
  <2> QED
    BY <1>0, <2>1 DEF NoRow, Rows
<1>12. ASSUME NEW t \in TaskIds, NEW n, NEW at, UpdatePendingTask(t, n, at)
       PROVE  FALSE
  BY <1>0, <1>12 DEF UpdatePendingTask, Rows
<1>13. task' # task
  OBVIOUS
<1>14. ASSUME NEW w \in Workers, WorkerStep(w)
       PROVE  run'[w].task = c /\ WillWake(w)'
  <2>1. PingAnswer(w) => \E sent : task' = Pinged(w, sent)
    BY DEF PingAnswer
  <2>2. FailIfStalled(w) => task' = Expired(w)
    BY DEF FailIfStalled
  <2>3. Finish(w) => run[w].pc = "finishing" /\ task' = Finished(w)
    BY DEF Finish
  <2>4. SpawnAny(w) =>
          run[w].pc = "spawning" /\ \E s \in TaskIds, n \in ChildRetries : Spawned(w, s, n)
    BY DEF SpawnAny, Spawn
  <2>5. Wake(w) => task' = WakeParent(task, run[w].task, now)
    BY DEF Wake
  <2>6. Unanswered(w) =>
          \/ (\E sent : task' = Pinged(w, sent)) \/ task' = Expired(w)
          \/ run[w].pc = "finishing" /\ task' = Finished(w)
          \/ run[w].pc = "spawning" /\ \E s \in TaskIds, n \in ChildRetries : Spawned(w, s, n)
          \/ task' = WakeParent(task, run[w].task, now)
    BY DEF Unanswered
  <2>7. ~(ReadChild(w) \/ Ping(w) \/ Return(w) \/ Throw(w) \/ SpawnLost(w) \/ Rejected(w) \/ Crash(w))
    BY <1>13 DEF ReadChild, Ping, Return, Throw, SpawnLost, Rejected, Crash
  <2> QED
    BY <1>2, <1>3, <1>4, <1>5, <1>6, <1>7, <1>8, <1>14, <2>1, <2>2, <2>3, <2>4, <2>5, <2>6, <2>7
       DEF WorkerStep
<1> QED
  BY <1>1, <1>9, <1>10, <1>11, <1>12, <1>13, <1>14
     DEF Next, vars, Tick, ClearFinished, ClearFailed, DeleteTask

(* BlockedParentAwaited is inductive on top of KinInv.                     *)
LEMMA BlockedParentAwaitedNext ==
    ASSUME TypeInv, KinInv, BlockedParentAwaited, [Next]_vars,
           "clearFailed" \notin AdminOps, MaxCrashes = 0
    PROVE  BlockedParentAwaited'
<1>0. /\ KinInv' /\ task \in [TaskIds -> Rows] /\ task' \in [TaskIds -> Rows]
      /\ \A w \in Workers : run[w].pc # "idle" => run[w].task \in TaskIds
  BY KinInvNext, TypeInvNext DEF TypeInv, TypeOK
<1> SUFFICES ASSUME NEW p \in TaskIds, task'[p].status = "blocked"
             PROVE  /\ Exists(task'[task'[p].activeChild]) /\ task'[task'[p].activeChild].parent = p
                    /\ Terminal(task'[task'[p].activeChild]) =>
                         \E w \in Workers : run'[w].task = task'[p].activeChild /\ WillWake(w)'
  BY DEF BlockedParentAwaited
<1> DEFINE c == task'[p].activeChild
<1>1. c \in TaskIds /\ Exists(task'[c]) /\ task'[c].parent = p
  <2>1. c # NoTask /\ c \in TaskIds \cup {NoTask} /\ Exists(task'[p])
    BY <1>0 DEF KinInv, Exists, RowStatuses, Rows
  <2> QED
    BY <1>0, <2>1 DEF KinInv, ActiveChildKept
<1>2. ASSUME Terminal(task'[c])
      PROVE  \E w \in Workers : run'[w].task = c /\ WillWake(w)'
  <2>1. task[p].status = "blocked" /\ c = task[p].activeChild
    BY <1>2, BlockedBefore DEF Terminal
  <2>2. task[c].parent = p
    BY <2>1 DEF BlockedParentAwaited
  <2>3. CASE ~Terminal(task[c])
    BY <1>1, <1>2, <2>2, <2>3, TerminalIsAnnounced
  <2>4. CASE Terminal(task[c])
    <3>1. PICK w \in Workers : run[w].task = c /\ WillWake(w)
      BY <2>1, <2>4 DEF BlockedParentAwaited
    <3>2. task' # WakeParent(task, c, now)
      <4>1. ASSUME task' = WakeParent(task, c, now)
            PROVE  task'[p] = Woken(task[p], now)
        BY <2>2, <4>1 DEF WakeParent
      <4> QED
        BY <1>0, <2>1, <4>1 DEF Woken, Rows
    <3>3. run'[w].task = c /\ WillWake(w)'
      BY <1>2, <2>4, <3>1, <3>2, WakingStays DEF Row
    <3> QED
      BY <3>3
  <2> QED
    BY <2>3, <2>4
<1> QED
  BY <1>1, <1>2

(* While no process dies, no interleaving of outcomes, time-outs, restarts *)
(* and deletions leaves a parent blocked on a child that nobody will       *)
(* announce: nor do rejected statements and answers lost after the commit. *)
THEOREM BlockedParentAwaitedCorrect ==
    ASSUME "clearFailed" \notin AdminOps, MaxCrashes = 0
    PROVE  Spec => []BlockedParentAwaited
<1>1. Init => BlockedParentAwaited
  BY DEF Init, BlockedParentAwaited, NoRow
<1>2. TypeInv /\ KinInv /\ BlockedParentAwaited /\ [Next]_vars => BlockedParentAwaited'
  BY BlockedParentAwaitedNext
<1>3. Spec => []KinInv
  BY Kinship
<1> QED
  BY <1>1, <1>2, <1>3, TypeInvariance, PTL DEF Spec

-----------------------------------------------------------------------------
(* One child at a time. *)

Unsettled(row) == row.status \in {"pending", "in_progress", "blocked"}

(* An unfinished child is the one its parent's payload refers to, so there *)
(* is one at most. A row in error stays there: nothing is left to requeue. *)
LastChildInv ==
    /\ \A t \in TaskIds : task[t].status = "error" => ~CanRetry(task[t])
    /\ \A t \in TaskIds : Unsettled(task[t]) /\ task[t].parent # NoTask =>
         task[task[t].parent].activeChild = t

(* An attempt that owns its row and may still end or spawn has seen the    *)
(* child its payload refers to end.                                        *)
LookedInv ==
    \A w \in Workers : Owns(w) =>
        /\ run[w].pc = "resuming" => run[w].child = Row(w).activeChild
        /\ run[w].pc \in {"processing", "pinging", "finishing", "spawning"} =>
             Row(w).activeChild = NoTask \/ Terminal(task[Row(w).activeChild])

(* Steps of the table when nothing is restarted or edited. *)
LEMMA TableStepWithoutRestart ==
    ASSUME TypeInv, LastChildInv, [Next]_vars,
           AdminOps \subseteq {"delete"}
    PROVE  \/ Plain
           \/ \E t \in TaskIds, n \in Retries : Appears(t, n)
           \/ \E w \in Workers : run[w].pc = "finishing" /\ Owns(w) /\ Ends(run[w].task)
           \/ \E w \in Workers, c \in TaskIds, n \in ChildRetries :
                run[w].pc = "spawning" /\ Owns(w) /\ Spawns(run[w].task, c, n)
           \/ \E S \in SUBSET TaskIds : Removes(S) /\ UNCHANGED run
<1>1. ResetFailed => Plain
  <2>1. ResetFailed => \A t \in TaskIds : task'[t] = task[t]
    BY DEF ResetFailed, Retryable, LastChildInv
  <2>2. \A t \in TaskIds : Carries(task[t], task[t])
    BY WokenCarries DEF TypeInv, TypeOK
  <2> QED
    BY <2>1, <2>2 DEF Plain
<1>2. \A S : ~RestartFailed(S)
  BY DEF RestartFailed
<1> QED
  BY <1>1, <1>2, TableStep

(* The attempt that ends or blocks its row has no unfinished child. *)
LEMMA NoneUnsettled ==
    ASSUME TypeInv, LastChildInv, LookedInv, NEW w \in Workers, Owns(w),
           run[w].pc \in {"finishing", "spawning"},
           NEW t \in TaskIds, Unsettled(task[t])
    PROVE  task[t].parent # run[w].task
<1>1. SUFFICES ASSUME task[t].parent = run[w].task
               PROVE  FALSE
  OBVIOUS
<1>2. run[w].task \in TaskIds /\ run[w].task # NoTask
  BY TableAssumption DEF TypeInv, TaskIds, NoTask
<1>3. Row(w).activeChild = t
  BY <1>1, <1>2 DEF LastChildInv, Row
<1>4. t # NoTask
  BY TableAssumption DEF TaskIds, NoTask
<1> QED
  BY <1>3, <1>4 DEF LookedInv, Terminal, Unsettled

(* The steps that matter are finish, which takes the child out of the      *)
(* payload, and spawn, which puts another in its place.                    *)
LEMMA LastChildInvNext ==
    ASSUME TypeInv, KinInv, LastChildInv, LookedInv, [Next]_vars,
           AdminOps \subseteq {"delete"}
    PROVE  LastChildInv'
<1>0. task \in [TaskIds -> Rows] /\ NoTask \notin TaskIds
      /\ \A w \in Workers : run[w].pc # "idle" => run[w].task \in TaskIds
  BY TableAssumption DEF TypeInv, TypeOK, TaskIds, NoTask
<1>p. \A t \in TaskIds : task[t].parent \in TaskIds \cup {NoTask}
  BY <1>0 DEF Rows
<1> DEFINE Good(t) ==
             /\ task[t].status = "error" => ~CanRetry(task[t])
             /\ Unsettled(task[t]) /\ task[t].parent # NoTask =>
                  task[task[t].parent].activeChild = t
<1> SUFFICES ASSUME NEW t \in TaskIds
             PROVE  Good(t)'
  BY DEF LastChildInv
<1>1. \A s \in TaskIds : Good(s)
  BY DEF LastChildInv
<1>2. CASE Plain
  <2>1. \A s \in TaskIds : /\ task'[s].parent = task[s].parent
                           /\ task'[s].activeChild = task[s].activeChild
                           /\ Unsettled(task'[s]) => Unsettled(task[s])
    BY <1>2 DEF Plain, Carries, Unsettled
  <2>2. task'[t].status = "error" => task'[t] = task[t] \/ ~CanRetry(task'[t])
    BY <1>2 DEF Plain, Carries
  <2> QED
    BY <1>1, <1>p, <2>1, <2>2
<1>3. ASSUME NEW c, NEW n, Appears(c, n)
      PROVE  Good(t)'
  <2>1. /\ c \in TaskIds /\ task[c].activeChild = NoTask
        /\ task'[c].status = "pending" /\ task'[c].parent = NoTask
        /\ \A s \in TaskIds \ {c} : task'[s] = task[s]
    BY <1>0, <1>3 DEF Appears, NewRow, NoRow, KinInv
  <2> QED
    BY <1>0, <1>1, <1>p, <2>1
<1>4. ASSUME NEW w \in Workers, run[w].pc = "finishing", Owns(w), Ends(run[w].task)
      PROVE  Good(t)'
  <2> DEFINE q == run[w].task
  <2>1. /\ q \in TaskIds /\ task'[q].status = "finished"
        /\ \A s \in TaskIds \ {q} : task'[s] = task[s]
    BY <1>0, <1>4 DEF Ends, Rows
  <2>2. Unsettled(task[t]) => task[t].parent # q
    BY <1>4, NoneUnsettled
  <2> QED
    BY <1>1, <1>p, <2>1, <2>2 DEF Unsettled
<1>5. ASSUME NEW w \in Workers, NEW c \in TaskIds, NEW n,
             run[w].pc = "spawning", Owns(w), Spawns(run[w].task, c, n)
      PROVE  Good(t)'
  <2> DEFINE q == run[w].task
  <2>1. /\ q \in TaskIds /\ q # c /\ Unsettled(task[q]) /\ task[c].activeChild = NoTask
        /\ task'[q] = Blocked(task[q], c) /\ task'[c] = NewRow(q, n)
        /\ \A s \in TaskIds \ {q, c} : task'[s] = task[s]
    BY <1>0, <1>5 DEF Spawns, Unsettled, KinInv
  <2>2. /\ task'[q].status = "blocked" /\ task'[q].activeChild = c
        /\ task'[q].parent = task[q].parent
        /\ task'[c].status = "pending" /\ task'[c].parent = q
    BY <1>0, <2>1 DEF Blocked, NewRow, NoRow, Rows
  <2>3. \A s \in TaskIds : Unsettled(task[s]) => task[s].parent # q
    BY <1>5, NoneUnsettled
  <2>4. \A s \in TaskIds : Unsettled(task[s]) => task[s].parent # c
    BY <1>0, <1>1, <2>1
  <2>5. CASE t = c
    BY <2>2, <2>5
  <2>6. CASE t # c
    <3>1. /\ task'[t].parent = task[t].parent
          /\ Unsettled(task'[t]) => Unsettled(task[t])
          /\ task'[t].status = "error" => task'[t] = task[t]
      BY <2>1, <2>2, <2>6
    <3>2. Unsettled(task[t]) /\ task[t].parent # NoTask =>
            task'[task[t].parent] = task[task[t].parent]
      BY <1>p, <2>1, <2>3, <2>4
    <3> QED
      BY <1>1, <3>1, <3>2
  <2> QED
    BY <2>5, <2>6
<1>6. ASSUME NEW S, Removes(S)
      PROVE  Good(t)'
  <2>1. CASE t \in S
    BY <1>0, <1>6, <2>1, RemovalSpares DEF NoRow, Unsettled
  <2>2. CASE t \notin S
    <3>1. /\ task'[t].status = task[t].status
          /\ task'[t].maxAttempts = task[t].maxAttempts /\ task'[t].attempt = task[t].attempt
          /\ task'[t].parent = IF task[t].parent \in S THEN NoTask ELSE task[t].parent
      BY <1>0, <1>6, <2>2, RemovalSpares
    <3>2. task[t].parent \in TaskIds \ S =>
            task'[task[t].parent].activeChild = task[task[t].parent].activeChild
      BY <1>0, <1>6, RemovalSpares
    <3> QED
      BY <1>1, <1>p, <3>1, <3>2 DEF Unsettled, CanRetry
  <2> QED
    BY <2>1, <2>2
<1> QED
  BY <1>2, <1>3, <1>4, <1>5, <1>6, TableStepWithoutRestart

(* What an attempt that owns its row knows of the child is not undone.     *)
LEMMA ChildStays ==
    ASSUME TypeInv, KinInv, LastChildInv, [Next]_vars,
           AdminOps \subseteq {"delete"},
           NEW p \in TaskIds, task'[p].status = "in_progress"
    PROVE  /\ task'[p].activeChild = task[p].activeChild
           /\ task[p].activeChild # NoTask /\ Terminal(task[task[p].activeChild]) =>
                Terminal(task'[task[p].activeChild])
<1> DEFINE c == task[p].activeChild
<1>0. task \in [TaskIds -> Rows] /\ c \in TaskIds \cup {NoTask}
  BY DEF TypeInv, TypeOK, Rows
<1>1. CASE Plain
  BY <1>0, <1>1 DEF Plain, Carries, Terminal
<1>2. ASSUME NEW t, NEW n, Appears(t, n)
      PROVE  task'[p] = task[p] /\ (c # NoTask /\ Terminal(task[c]) => task'[c] = task[c])
  <2>1. /\ t \in TaskIds /\ task[t].status = "unused" /\ task'[t].status = "pending"
        /\ \A s \in TaskIds \ {t} : task'[s] = task[s]
    BY <1>0, <1>2 DEF Appears, NewRow, NoRow
  <2> QED
    BY <1>0, <2>1 DEF Terminal
<1>3. ASSUME NEW q, Ends(q)
      PROVE  task'[p] = task[p] /\ (c # NoTask /\ Terminal(task[c]) => task'[c] = task[c])
  <2>1. /\ q \in TaskIds /\ task[q].status = "in_progress" /\ task'[q].status = "finished"
        /\ \A s \in TaskIds \ {q} : task'[s] = task[s]
    BY <1>0, <1>3 DEF Ends, Rows
  <2> QED
    BY <1>0, <2>1 DEF Terminal
<1>4. ASSUME NEW q, NEW d, NEW n, Spawns(q, d, n)
      PROVE  task'[p] = task[p] /\ (c # NoTask /\ Terminal(task[c]) => task'[c] = task[c])
  <2>1. /\ q \in TaskIds /\ d \in TaskIds /\ q # d
        /\ task[q].status = "in_progress" /\ task[d].status = "unused"
        /\ task'[q] = Blocked(task[q], d) /\ task'[d] = NewRow(q, n)
        /\ \A s \in TaskIds \ {q, d} : task'[s] = task[s]
    BY <1>0, <1>4 DEF Spawns
  <2>2. task'[q].status = "blocked" /\ task'[d].status = "pending"
    BY <1>0, <2>1 DEF Blocked, NewRow, NoRow, Rows
  <2> QED
    BY <1>0, <2>1, <2>2 DEF Terminal
<1>5. ASSUME NEW S, Removes(S)
      PROVE  /\ task'[p].activeChild = c
             /\ c # NoTask /\ Terminal(task[c]) => task'[c].status = task[c].status
  <2>1. p \notin S
    BY <1>0, <1>5, RemovalSpares DEF NoRow
  <2>2. task'[p].activeChild = c /\ (c # NoTask => c \notin S)
    BY <1>0, <1>5, <2>1, RemovalSpares
  <2> QED
    BY <1>0, <1>5, <2>2, RemovalSpares
<1> QED
  BY <1>1, <1>2, <1>3, <1>4, <1>5, TableStepWithoutRestart DEF Terminal

(* LookedInv for one slot that is as it was: whoever moves, the slot       *)
(* already owned the row, and the child it saw end is still there.         *)
LEMMA BystanderLooked ==
    ASSUME TypeInv, KinInv, LastChildInv, LookedInv, [Next]_vars,
           AdminOps \subseteq {"delete"},
           NEW v \in Workers, run'[v] = run[v], Owns(v), Owns(v)', run[v].task \in TaskIds
    PROVE  /\ run'[v].pc = "resuming" => run'[v].child = Row(v)'.activeChild
           /\ run'[v].pc \in {"processing", "pinging", "finishing", "spawning"} =>
                Row(v)'.activeChild = NoTask \/ Terminal(task'[Row(v)'.activeChild])
<1>1. task'[run[v].task].status = "in_progress"
  BY DEF Owns, OwnedBy, Row
<1>2. /\ Row(v)'.activeChild = Row(v).activeChild
      /\ Row(v).activeChild # NoTask /\ Terminal(task[Row(v).activeChild]) =>
           Terminal(task'[Row(v).activeChild])
  BY <1>1, ChildStays DEF Row
<1> QED
  BY <1>2 DEF LookedInv

(* A row that is handed out again has a token of its own (OwnerInv): no    *)
(* late attempt owns it again with what it saw before.                     *)
LEMMA LookedInvNext ==
    ASSUME TypeInv, OwnerInv', KinInv, LastChildInv, LookedInv, [Next]_vars,
           AdminOps \subseteq {"delete"}
    PROVE  LookedInv'
<1>0. /\ task \in [TaskIds -> Rows] /\ run \in [Workers -> Calls]
      /\ \A w \in Workers : run[w].pc # "idle" => run[w].task \in TaskIds
  BY DEF TypeInv, TypeOK, Calls
<1> DEFINE Looked(v) ==
             /\ run[v].pc = "resuming" => run[v].child = Row(v).activeChild
             /\ run[v].pc \in {"processing", "pinging", "finishing", "spawning"} =>
                  Row(v).activeChild = NoTask \/ Terminal(task[Row(v).activeChild])
<1> SUFFICES ASSUME NEW v \in Workers, Owns(v)',
                    run'[v].pc \in {"resuming", "processing", "pinging", "finishing", "spawning"}
             PROVE  Looked(v)'
  BY DEF LookedInv
<1>1. Owns(v) => Looked(v)
  BY DEF LookedInv
<1>2. CASE OutsideStep
  <2>1. run' = run /\ run[v].task \in TaskIds
    BY <1>0, <1>2, OutsideStepEffect DEF OutsideEffect
  <2>2. Owns(v)
    BY <1>2, <2>1, OutsideStepEffect DEF OutsideEffect, NoNewAttempt, Owns, OwnedBy, Row
  <2> QED
    BY <2>1, <2>2, BystanderLooked
<1>3. ASSUME NEW w \in Workers, NEW t \in TaskIds, Fetch(w, t)
      PROVE  Looked(v)'
  <2>1. /\ task'[t] = Taken(task[t], now) /\ \A s \in TaskIds \ {t} : task'[s] = task[s]
        /\ run'[w].task = t /\ run'[w].token = now /\ run'[w].child = task[t].activeChild
        /\ run'[w].pc = IF task[t].activeChild = NoTask THEN "processing" ELSE "resuming"
        /\ \A u \in Workers \ {w} : run'[u] = run[u]
    BY <1>0, <1>3 DEF Fetch
  <2>2. task'[t].activeChild = task[t].activeChild /\ task'[t].started = now
    BY <1>0, <2>1 DEF Taken, Rows
  <2>3. CASE v = w
    BY <2>1, <2>2, <2>3 DEF Row
  <2>4. CASE v # w
    <3>1. run'[v] = run[v] /\ run[v].task \in TaskIds
      BY <1>0, <2>1, <2>4
    <3>2. run[v].task # t
      <4>1. IsLive(v)' /\ IsLive(w)'
        BY <2>1 DEF IsLive, Live, Phases
      <4>2. run'[v].task = t => run'[v].token # now
        BY <2>1, <2>4, <4>1, OwnerInvOneOwnerPrimed DEF OneOwner
      <4> QED
        BY <2>2, <3>1, <4>2 DEF Owns, OwnedBy, Row
    <3>3. Owns(v)
      BY <2>1, <3>1, <3>2 DEF Owns, OwnedBy, Row
    <3> QED
      BY <3>1, <3>3, BystanderLooked
  <2> QED
    BY <2>3, <2>4
<1>4. ASSUME NEW w \in Workers, Beats(w)
      PROVE  Looked(v)'
  <2>1. /\ \A u \in Workers \ {w} : run'[u] = run[u]
        /\ run[w].pc = "pinging" /\ run'[w].task = run[w].task /\ run'[w].token = run[w].token
        /\ run'[w].pc \in {"processing", "failing"}
    BY <1>4, BeatEffects
  <2>2. \A t \in TaskIds : task'[t].status = task[t].status /\ task'[t].started = task[t].started
    BY <1>4, BeatEffects
  <2>3. run'[v].task = run[v].task /\ run'[v].token = run[v].token /\ run[v].task \in TaskIds
    BY <1>0, <2>1
  <2>4. Owns(v)
    BY <2>2, <2>3 DEF Owns, OwnedBy, Row
  <2>5. CASE v # w
    BY <2>1, <2>3, <2>4, <2>5, BystanderLooked
  <2>6. CASE v = w
    <3>1. run'[v].pc = "processing" /\ task'[run[v].task].status = "in_progress"
      BY <2>1, <2>3, <2>6 DEF Owns, OwnedBy, Row
    <3>2. Row(v).activeChild = NoTask \/ Terminal(task[Row(v).activeChild])
      BY <1>1, <2>1, <2>4, <2>6
    <3>3. /\ Row(v)'.activeChild = Row(v).activeChild
          /\ Row(v).activeChild # NoTask /\ Terminal(task[Row(v).activeChild]) =>
               Terminal(task'[Row(v).activeChild])
      BY <2>3, <3>1, ChildStays DEF Row
    <3> QED
      BY <3>1, <3>2, <3>3
  <2> QED
    BY <2>5, <2>6
<1>5. ASSUME NEW w \in Workers, LocalStep(w)
      PROVE  Looked(v)'
  <2>1. LocalEffect(w)
    BY <1>5, LocalStepEffect
  <2>2. CASE v # w
    <3>1. run'[v] = run[v] /\ run[v].task \in TaskIds
      BY <1>0, <2>1, <2>2 DEF LocalEffect
    <3>2. Owns(v)
      BY <2>1, <3>1 DEF LocalEffect, NoNewAttempt, Owns, OwnedBy, Row
    <3> QED
      BY <3>1, <3>2, BystanderLooked
  <2>3. CASE v = w
    <3>0. IsLive(w)' /\ run'[w].pc # "failing"
      BY <2>3 DEF IsLive, Live, Phases
    <3>1. /\ UNCHANGED task /\ run'[w].task = run[w].task /\ run'[w].token = run[w].token
      BY <2>1, <3>0 DEF LocalEffect, Engaged
    <3>2. Owns(w) /\ Row(w)' = Row(w)
      BY <2>3, <3>1 DEF Owns, OwnedBy, Row
    <3>3. \/ run[w].pc = "processing" /\ run'[w].pc \in {"pinging", "finishing", "spawning"}
          \/ /\ run[w].pc = "resuming" /\ run'[w].pc = "processing"
             /\ Terminal(task[run[w].child])
      <4>1. ~(Rejected(w) \/ LostAnswer(w))
        BY <1>0, <3>0, ThrowsEffect DEF Rejected, LostAnswer, Unanswered
      <4> QED
        BY <1>0, <1>5, <2>3, <4>1 DEF LocalStep, ReadChild, Ping, Return, Throw, FailIfStalled,
           Finish, SpawnAny, Spawn, SpawnLost, Fail, Wake, Crash, Expire, Goto, Done, Idle, Calls
    <3> QED
      BY <1>1, <2>3, <3>1, <3>2, <3>3
  <2> QED
    BY <2>2, <2>3
<1> QED
  BY <1>2, <1>3, <1>4, <1>5, StepKinds

(* A parent never has two unfinished children, whoever wakes it early and  *)
(* however its attempts are retried, unless an operator restarts a child   *)
(* that failed, clears it away, or edits the payload that refers to it.    *)
THEOREM OneActiveChildCorrect ==
    ASSUME AdminOps \subseteq {"delete"}
    PROVE  Spec => []OneActiveChild
<1>1. Init => LastChildInv /\ LookedInv
  BY DEF Init, LastChildInv, LookedInv, Unsettled, NoRow, Owns, OwnedBy, Row, Idle
<1>2. TypeInv /\ OwnerInv' /\ KinInv /\ LastChildInv /\ LookedInv /\ [Next]_vars
        => (LastChildInv /\ LookedInv)'
  BY LastChildInvNext, LookedInvNext
<1>3. TypeInv /\ LastChildInv => OneActiveChild
  <2>1. SUFFICES ASSUME TypeInv, LastChildInv, NEW p \in TaskIds
                 PROVE  Cardinality({c \in TaskIds :
                          task[c].parent = p /\
                          task[c].status \in {"pending", "in_progress", "blocked"}}) <= 1
    BY DEF OneActiveChild
  <2> DEFINE C == {c \in TaskIds :
                task[c].parent = p /\ task[c].status \in {"pending", "in_progress", "blocked"}}
  <2>2. p # NoTask
    BY TableAssumption DEF TaskIds, NoTask
  <2>3. ASSUME NEW c \in C
        PROVE  c = task[p].activeChild
    <3>1. c \in TaskIds /\ task[c].parent = p /\ Unsettled(task[c])
      BY DEF Unsettled
    <3> QED
      BY <2>1, <2>2, <3>1 DEF LastChildInv
  <2>4. C = {} \/ C = {task[p].activeChild}
    <3> HIDE DEF C
    <3> QED
      BY <2>3
  <2>5. Cardinality(C) \in {0, 1}
    <3> HIDE DEF C
    <3> QED
      BY <2>4, FS_EmptySet, FS_Singleton
  <2> QED
    BY <2>5
<1>4. Spec => []KinInv
  BY Kinship
<1> QED
  BY <1>1, <1>2, <1>3, <1>4, TypeInvariance, OwnerInvariance, PTL DEF Spec
=============================================================================
