-------------------------- MODULE TasksQueueProofs --------------------------
(***************************************************************************)
(* Theorems about TasksQueue, for every number of tasks and workers, every *)
(* timeout, backoff and throttle, with crashes and every operation of the  *)
(* operators.                                                              *)
(***************************************************************************)
EXTENDS TasksQueue, TaskTableProofs, TLAPS

-----------------------------------------------------------------------------
(* The statements of TaskTable return rows. *)

(* A row that was counted at least once is a row after a failure. *)
LEMMA FailedType ==
    ASSUME NEW row \in Rows, row.attempt >= 1, NEW at \in Nat
    PROVE  Failed(row, at) \in Rows
<1>1. row.attempt \in 1..MaxAttempts
  BY TableAssumption DEF Rows
<1>2. at + RetryDelay(row.attempt) \in Nat
  BY <1>1, RetryDelayType
<1> QED
  BY <1>2 DEF Failed, Rows, Statuses, RowStatuses, Null

(* Waking a row gives a row. *)
LEMMA WokenType ==
    ASSUME NEW row \in Rows, NEW at \in Nat
    PROVE  Woken(row, at) \in Rows
BY DEF Woken, Rows, Statuses, RowStatuses

(* Waking a parent keeps the table a table of rows. *)
LEMMA WakeParentType ==
    ASSUME NEW tab \in [TaskIds -> Rows], NEW c \in TaskIds, NEW at \in Nat
    PROVE  WakeParent(tab, c, at) \in [TaskIds -> Rows]
BY WokenType DEF WakeParent

(* So does timing out rows that are in progress. *)
LEMMA TimeOutType ==
    ASSUME NEW tab \in [TaskIds -> Rows], NEW S, NEW at \in Nat,
           \A t \in TaskIds : t \in S => tab[t].attempt >= 1
    PROVE  TimeOut(tab, S, at) \in [TaskIds -> Rows]
<1> SUFFICES ASSUME NEW t \in TaskIds
             PROVE  TimeOut(tab, S, at)[t] \in Rows
  BY DEF TimeOut
<1>1. tab[t] \in Rows
  OBVIOUS
<1>2. Woken(tab[t], at) \in Rows
  BY <1>1, WokenType
<1>3. t \in S => Failed(tab[t], at) \in Rows
  BY <1>1, FailedType
<1> QED
  BY <1>1, <1>2, <1>3 DEF TimeOut

(* So does deleting rows. *)
LEMMA WithoutType ==
    ASSUME NEW tab \in [TaskIds -> Rows], NEW S
    PROVE  Without(tab, S) \in [TaskIds -> Rows]
<1> SUFFICES ASSUME NEW t \in TaskIds
             PROVE  Without(tab, S)[t] \in Rows
  BY DEF Without
<1>1. tab[t] \in Rows /\ NoRow("deleted") \in Rows
  BY TableAssumption DEF NoRow, Rows, Statuses, RowStatuses
<1>2. [tab[t] EXCEPT !.parent = NoTask] \in Rows
  BY <1>1 DEF Rows
<1> QED
  BY <1>1, <1>2 DEF Without

-----------------------------------------------------------------------------
(* Type correctness *)

(* What types alone do not say and the statements rely on: a row in        *)
(* progress was counted at least once (its backoff is defined), a busy     *)
(* slot has a task, and the record of a call that compares times has one.  *)
TypeInv ==
    /\ TypeOK
    /\ \A t \in TaskIds : task[t].status = "in_progress" => task[t].attempt >= 1
    /\ \A w \in Workers :
         /\ run[w].pc # "idle" => run[w].task \in TaskIds
         /\ run[w].pc \in {"pinging", "expired"} => run[w].at \in Nat

(* The parts of TypeInv, so that a step can be given those it needs.       *)
Calls == [ pc    : Phases,
           task  : TaskIds \cup {NoTask},
           token : Nat \cup {Null},
           hb    : Nat \cup {Null},
           child : TaskIds \cup {NoTask},
           at    : Nat \cup {Null} ]

CountedRows == {row \in Rows : row.status = "in_progress" => row.attempt >= 1}

GoodCalls == {r \in Calls :
                /\ r.pc # "idle" => r.task \in TaskIds
                /\ r.pc \in {"pinging", "expired"} => r.at \in Nat}

LEMMA TypeInvParts ==
    TypeInv <=> /\ now \in 0..MaxTime
                /\ task \in [TaskIds -> CountedRows]
                /\ run \in [Workers -> GoodCalls]
                /\ crashes \in 0..MaxCrashes
BY DEF TypeInv, TypeOK, Calls, CountedRows, GoodCalls

LEMMA TypeInvPartsPrimed ==
    TypeInv' <=> /\ now' \in 0..MaxTime
                 /\ task' \in [TaskIds -> CountedRows]
                 /\ run' \in [Workers -> GoodCalls]
                 /\ crashes' \in 0..MaxCrashes
BY DEF TypeInv, TypeOK, Calls, CountedRows, GoodCalls

(* A slot that goes on to another phase, or is done, is a slot. *)
LEMMA GotoType ==
    ASSUME run \in [Workers -> GoodCalls], NEW w \in Workers,
           NEW pc \in Phases \ {"idle", "pinging", "expired"},
           run[w].pc # "idle", Goto(w, pc)
    PROVE  run' \in [Workers -> GoodCalls]
BY DEF Goto, GoodCalls, Calls

LEMMA DoneType ==
    ASSUME run \in [Workers -> GoodCalls], NEW w \in Workers, Done(w)
    PROVE  run' \in [Workers -> GoodCalls]
BY DEF Done, Idle, GoodCalls, Calls, Phases

LEMMA ExpireType ==
    ASSUME run \in [Workers -> GoodCalls], NEW w \in Workers, now \in Nat,
           run[w].pc # "idle", Expire(w)
    PROVE  run' \in [Workers -> GoodCalls]
<1> DEFINE call == [run[w] EXCEPT !.pc = "expired", !.at = now]
<1>1. call \in GoodCalls
  <2>1. run[w] \in Calls /\ run[w].task \in TaskIds
    BY DEF GoodCalls
  <2>2. call \in Calls /\ call.pc = "expired" /\ call.task = run[w].task /\ call.at = now
    BY <2>1 DEF Calls, Phases
  <2> QED
    BY <2>1, <2>2 DEF GoodCalls
<1>2. run' = [run EXCEPT ![w] = call]
  BY DEF Expire, GoodCalls
<1> QED
  BY <1>1, <1>2

(* The statements of TaskTable that leave no row in progress uncounted. *)
LEMMA CountedTables ==
    ASSUME NEW tab \in [TaskIds -> CountedRows], NEW at \in Nat, NEW S
    PROVE  /\ \A t \in TaskIds : tab[t].status = "in_progress" => Failed(tab[t], at) \in CountedRows
           /\ \A c \in TaskIds : WakeParent(tab, c, at) \in [TaskIds -> CountedRows]
           /\ (\A t \in S \cap TaskIds : tab[t].status = "in_progress")
                => TimeOut(tab, S, at) \in [TaskIds -> CountedRows]
           /\ Without(tab, S) \in [TaskIds -> CountedRows]
<1>0. tab \in [TaskIds -> Rows]
  BY DEF CountedRows
<1>1. ASSUME NEW t \in TaskIds, tab[t].status = "in_progress"
      PROVE  Failed(tab[t], at) \in CountedRows
  <2>1. tab[t] \in Rows /\ tab[t].attempt >= 1
    BY <1>1 DEF CountedRows
  <2>2. Failed(tab[t], at) \in Rows
    BY <2>1, FailedType
  <2>3. Failed(tab[t], at).status # "in_progress"
    BY <2>1 DEF Failed, Rows
  <2> QED
    BY <2>2, <2>3 DEF CountedRows
<1>2. ASSUME NEW t \in TaskIds
      PROVE  Woken(tab[t], at) \in CountedRows
  <2>1. Woken(tab[t], at) \in Rows
    BY <1>0, WokenType
  <2>2. tab[t] \in CountedRows /\ tab[t] \in Rows
    BY <1>0
  <2> QED
    BY <2>1, <2>2 DEF Woken, CountedRows, Rows
<1>3. ASSUME NEW c \in TaskIds
      PROVE  WakeParent(tab, c, at) \in [TaskIds -> CountedRows]
  BY <1>2 DEF WakeParent
<1>4. ASSUME \A t \in S \cap TaskIds : tab[t].status = "in_progress"
      PROVE  TimeOut(tab, S, at) \in [TaskIds -> CountedRows]
  <2>1. SUFFICES ASSUME NEW t \in TaskIds
                 PROVE  TimeOut(tab, S, at)[t] \in CountedRows
    BY DEF TimeOut
  <2> QED
    BY <1>1, <1>2, <1>4 DEF TimeOut
<1>5. Without(tab, S) \in [TaskIds -> CountedRows]
  <2>1. SUFFICES ASSUME NEW t \in TaskIds
                 PROVE  Without(tab, S)[t] \in CountedRows
    BY DEF Without
  <2>2. Without(tab, S)[t] \in Rows
    BY <1>0, WithoutType
  <2>3. tab[t] \in CountedRows /\ tab[t] \in Rows
    BY <1>0
  <2>4. NoRow("deleted").status # "in_progress"
    BY DEF NoRow
  <2>5. [tab[t] EXCEPT !.parent = NoTask] \in CountedRows
    BY <2>3 DEF CountedRows, Rows
  <2> QED
    BY <2>2, <2>3, <2>4, <2>5 DEF Without, CountedRows
<1> QED
  BY <1>1, <1>3, <1>4, <1>5

(* The writes that are spelled out in the actions: each gives a counted row. *)
LEMMA RowWrites ==
    ASSUME NEW row \in CountedRows, NEW at \in Nat, NEW n \in 1..MaxAttempts,
           NEW p \in TaskIds \cup {NoTask}
    PROVE  /\ NewRow(p, n) \in CountedRows
           /\ row.attempt < row.maxAttempts => Taken(row, at) \in CountedRows
           /\ [row EXCEPT !.status = "finished", !.activeChild = NoTask] \in CountedRows
           /\ Blocked(row, p) \in CountedRows
           /\ [row EXCEPT !.status = "pending"] \in CountedRows
           /\ [row EXCEPT !.status = "pending", !.attempt = 0] \in CountedRows
           /\ \A time \in {Null, at} :
                [row EXCEPT !.maxAttempts = n, !.startAfter = time, !.activeChild = p] \in CountedRows
<1> USE TableAssumption
<1>0. row \in Rows /\ row.attempt \in 0..MaxAttempts /\ n \in 0..MaxAttempts /\ 0 \in 0..MaxAttempts
  BY DEF CountedRows, Rows
<1>1. NewRow(p, n) \in CountedRows
  <2>1. NoRow("pending") \in Rows /\ NoRow("pending").status = "pending"
    BY <1>0 DEF NoRow, Rows, Statuses, RowStatuses
  <2>2. NewRow(p, n) \in Rows /\ NewRow(p, n).status = "pending"
    BY <1>0, <2>1 DEF NewRow, Rows
  <2> QED
    BY <2>2 DEF CountedRows
<1>2. ASSUME row.attempt < row.maxAttempts
      PROVE  Taken(row, at) \in CountedRows
  <2>1. row.attempt + 1 \in 0..MaxAttempts /\ row.attempt + 1 >= 1
    BY <1>0, <1>2 DEF Rows
  <2>2. Taken(row, at) \in Rows
    BY <1>0, <2>1 DEF Taken, Rows, Statuses, RowStatuses
  <2>3. Taken(row, at).attempt = row.attempt + 1
    BY <1>0 DEF Taken, Rows
  <2> QED
    BY <2>1, <2>2, <2>3 DEF CountedRows
<1>3. [row EXCEPT !.status = "finished", !.activeChild = NoTask] \in CountedRows
  <2> DEFINE new == [row EXCEPT !.status = "finished", !.activeChild = NoTask]
  <2>1. new \in Rows /\ new.status = "finished"
    BY <1>0 DEF Rows, Statuses, RowStatuses
  <2> QED
    BY <2>1 DEF CountedRows
<1>4. Blocked(row, p) \in CountedRows
  <2>1. (IF row.attempt > 0 THEN row.attempt - 1 ELSE 0) \in 0..MaxAttempts
    BY <1>0
  <2>2. Blocked(row, p) \in Rows /\ Blocked(row, p).status = "blocked"
    BY <1>0, <2>1 DEF Blocked, Rows, Statuses, RowStatuses
  <2> QED
    BY <2>2 DEF CountedRows
<1>5. [row EXCEPT !.status = "pending"] \in CountedRows
  <2> DEFINE new == [row EXCEPT !.status = "pending"]
  <2>1. new \in Rows /\ new.status = "pending"
    BY <1>0 DEF Rows, Statuses, RowStatuses
  <2> QED
    BY <2>1 DEF CountedRows
<1>6. [row EXCEPT !.status = "pending", !.attempt = 0] \in CountedRows
  <2> DEFINE new == [row EXCEPT !.status = "pending", !.attempt = 0]
  <2>1. new \in Rows /\ new.status = "pending"
    BY <1>0 DEF Rows, Statuses, RowStatuses
  <2> QED
    BY <2>1 DEF CountedRows
<1>7. ASSUME NEW time \in Nat \cup {Null}
      PROVE  [row EXCEPT !.maxAttempts = n, !.startAfter = time, !.activeChild = p] \in CountedRows
  <2> DEFINE new == [row EXCEPT !.maxAttempts = n, !.startAfter = time, !.activeChild = p]
  <2>1. new \in Rows /\ new.status = row.status /\ new.attempt = row.attempt
    BY <1>0, <1>7 DEF Rows
  <2> QED
    BY <2>1 DEF CountedRows
<1> QED
  BY <1>1, <1>2, <1>3, <1>4, <1>5, <1>6, <1>7

(* A slot whose statement throws is a slot. *)
LEMMA ThrowsType ==
    ASSUME run \in [Workers -> GoodCalls], NEW w \in Workers, run[w].pc # "idle", Throws(w)
    PROVE  run' \in [Workers -> GoodCalls]
<1> DEFINE call == [run[w] EXCEPT !.pc = "failing", !.child = NoTask, !.at = Null]
<1>1. call \in GoodCalls
  <2>1. run[w] \in Calls /\ run[w].task \in TaskIds
    BY DEF GoodCalls
  <2>2. call \in Calls /\ call.pc = "failing" /\ call.task = run[w].task
    BY <2>1 DEF Calls, Phases
  <2> QED
    BY <2>1, <2>2 DEF GoodCalls
<1>2. run' = [run EXCEPT ![w] = call]
  BY DEF Throws, GoodCalls
<1> QED
  BY <1>1, <1>2

(* The tables after the statements of a slot are tables of counted rows,   *)
(* whether their answers arrive or not.                                    *)
LEMMA StatementsCounted ==
    ASSUME now \in Nat, task \in [TaskIds -> CountedRows], run \in [Workers -> GoodCalls],
           NEW w \in Workers, run[w].pc # "idle"
    PROVE  /\ \A sent \in Nat : Pinged(w, sent) \in [TaskIds -> CountedRows]
           /\ run[w].pc = "expired" => Expired(w) \in [TaskIds -> CountedRows]
           /\ Finished(w) \in [TaskIds -> CountedRows]
           /\ WakeParent(task, run[w].task, now) \in [TaskIds -> CountedRows]
           /\ \A c \in TaskIds, n \in ChildRetries :
                Spawned(w, c, n) => task' \in [TaskIds -> CountedRows]
<1> USE TableAssumption, QueueAssumption
<1>0. run[w].task \in TaskIds /\ task[run[w].task] \in CountedRows
  BY DEF GoodCalls
<1>1. ASSUME NEW sent \in Nat
      PROVE  Pinged(w, sent) \in [TaskIds -> CountedRows]
  <2> DEFINE row == [task[run[w].task] EXCEPT !.hb = sent]
  <2>1. row \in CountedRows
    BY <1>0 DEF CountedRows, Rows
  <2>2. Pinged(w, sent) = task \/ Pinged(w, sent) = [task EXCEPT ![run[w].task] = row]
    BY DEF Pinged
  <2> QED
    BY <1>0, <2>1, <2>2
<1>2. ASSUME run[w].pc = "expired"
      PROVE  Expired(w) \in [TaskIds -> CountedRows]
  <2>1. run[w].at \in Nat
    BY <1>2 DEF GoodCalls
  <2> QED
    BY <1>0, <2>1, CountedTables DEF Expired, Owns, OwnedBy, Row
<1>3. Finished(w) \in [TaskIds -> CountedRows]
  <2> DEFINE row == [task[run[w].task] EXCEPT !.status = "finished", !.activeChild = NoTask]
  <2>1. row \in CountedRows
    <3>1. 1 \in 1..MaxAttempts /\ NoTask \in TaskIds \cup {NoTask} /\ 0 \in Nat
      OBVIOUS
    <3> QED
      BY <1>0, <3>1, RowWrites
  <2>2. Finished(w) = task \/ Finished(w) = [task EXCEPT ![run[w].task] = row]
    BY <1>0 DEF Finished
  <2> QED
    BY <1>0, <2>1, <2>2
<1>4. WakeParent(task, run[w].task, now) \in [TaskIds -> CountedRows]
  BY <1>0, CountedTables
<1>5. ASSUME NEW c \in TaskIds, NEW n \in ChildRetries, Spawned(w, c, n)
      PROVE  task' \in [TaskIds -> CountedRows]
  <2> DEFINE row == Blocked(task[run[w].task], c)
  <2>1. n \in 1..MaxAttempts /\ 0 \in Nat
    OBVIOUS
  <2>2. row \in CountedRows /\ NewRow(run[w].task, n) \in CountedRows
    BY <1>0, <2>1, RowWrites
  <2>3. task' = [task EXCEPT ![run[w].task] = row, ![c] = NewRow(run[w].task, n)]
    BY <1>5 DEF Spawned
  <2> QED
    BY <2>2, <2>3
<1> QED
  BY <1>1, <1>2, <1>3, <1>4, <1>5

(* Every step keeps the types. *)
LEMMA TypeInvInit == Init => TypeInv
BY TableAssumption, QueueAssumption
   DEF Init, TypeInv, TypeOK, NoRow, Rows, Statuses, RowStatuses, Idle, Phases

LEMMA TypeInvNext == TypeInv /\ [Next]_vars => TypeInv'
<1> SUFFICES ASSUME now \in 0..MaxTime, task \in [TaskIds -> CountedRows],
                    run \in [Workers -> GoodCalls], crashes \in 0..MaxCrashes,
                    [Next]_vars
             PROVE  TypeInv'
  BY TypeInvParts
<1> USE TableAssumption, QueueAssumption
<1>0. now \in Nat /\ MaxTime \in Nat /\ MaxCrashes \in Nat /\ crashes \in Nat
  OBVIOUS
<1>1. CASE UNCHANGED vars
  BY <1>1, TypeInvPartsPrimed DEF vars
<1>2. CASE Tick
  BY <1>0, <1>2, TypeInvPartsPrimed DEF Tick
<1>3. ASSUME NEW t \in TaskIds, NEW n \in Retries, Schedule(t, n)
      PROVE  TypeInv'
  <2>1. NewRow(NoTask, n) \in CountedRows
    <3>1. n \in 1..MaxAttempts /\ task[t] \in CountedRows
      OBVIOUS
    <3> QED
      BY <1>0, <3>1, RowWrites
  <2> QED
    BY <1>3, <2>1, TypeInvPartsPrimed DEF Schedule
<1>4. ASSUME NEW w \in Workers, WorkerStep(w)
      PROVE  TypeInv'
  <2>0. run[w] \in Calls /\ run[w].pc \in Phases
    BY DEF GoodCalls, Calls
  <2>1. ASSUME NEW t \in TaskIds, Fetch(w, t)
        PROVE  TypeInv'
    <3>1. task[t] \in CountedRows /\ task[t] \in Rows
      BY DEF CountedRows
    <3>2. Taken(task[t], now) \in CountedRows
      <4>1. 1 \in 1..MaxAttempts /\ NoTask \in TaskIds \cup {NoTask}
        OBVIOUS
      <4>2. task[t].attempt < task[t].maxAttempts
        BY <2>1 DEF Fetch, Due
      <4> QED
        BY <1>0, <3>1, <4>1, <4>2, RowWrites
    <3> DEFINE call == [ pc |-> IF task[t].activeChild = NoTask THEN "processing" ELSE "resuming",
                         task  |-> t, token |-> now, hb |-> Null,
                         child |-> task[t].activeChild, at |-> Null ]
    <3>3. call \in GoodCalls
      BY <1>0, <3>1 DEF GoodCalls, Calls, Phases, Rows
    <3> QED
      BY <2>1, <3>2, <3>3, TypeInvPartsPrimed DEF Fetch
  <2>2. CASE ReadChild(w)
    <3>1. PICK pc \in {"processing", "failing"} :
            run' = [run EXCEPT ![w].pc = pc, ![w].child = NoTask]
      BY <2>2 DEF ReadChild
    <3> DEFINE call == [run[w] EXCEPT !.pc = pc, !.child = NoTask]
    <3>2. call \in GoodCalls
      <4>1. run[w] \in Calls /\ run[w].task \in TaskIds
        BY <2>2 DEF ReadChild, GoodCalls
      <4>2. call \in Calls /\ call.pc = pc /\ call.task = run[w].task
        BY <4>1 DEF Calls, Phases
      <4> QED
        BY <4>1, <4>2 DEF GoodCalls
    <3>3. run' = [run EXCEPT ![w] = call]
      BY <3>1 DEF GoodCalls
    <3> QED
      BY <2>2, <3>2, <3>3, TypeInvPartsPrimed DEF ReadChild
  <2>3. CASE Ping(w)
    <3>1. CASE Expire(w)
      BY <1>0, <2>3, <3>1, ExpireType, TypeInvPartsPrimed DEF Ping
    <3>2. CASE run' = [run EXCEPT ![w].pc = "pinging", ![w].at = now]
      <4> DEFINE call == [run[w] EXCEPT !.pc = "pinging", !.at = now]
      <4>1. call \in GoodCalls
        <5>1. run[w] \in Calls /\ run[w].task \in TaskIds
          BY <2>3 DEF Ping, GoodCalls
        <5>2. call \in Calls /\ call.pc = "pinging" /\ call.task = run[w].task /\ call.at = now
          BY <1>0, <5>1 DEF Calls, Phases
        <5> QED
          BY <1>0, <5>1, <5>2 DEF GoodCalls
      <4>2. run' = [run EXCEPT ![w] = call]
        BY <3>2 DEF GoodCalls
      <4> QED
        BY <2>3, <4>1, <4>2, TypeInvPartsPrimed DEF Ping
    <3> QED
      BY <2>3, <3>1, <3>2 DEF Ping
  <2>4. CASE PingAnswer(w)
    <3>0. run[w].pc = "pinging" /\ run[w].at \in Nat /\ UNCHANGED <<now, crashes>>
      BY <2>4 DEF PingAnswer, GoodCalls
    <3>1. PICK beat \in run[w].at..now, sent \in run[w].at..now :
            /\ run' = IF Owns(w) THEN [run EXCEPT ![w].pc = "processing", ![w].hb = beat,
                                                  ![w].at = Null]
                                 ELSE [run EXCEPT ![w].pc = "failing"]
            /\ task' = Pinged(w, sent)
      BY <2>4 DEF PingAnswer
    <3>2. beat \in Nat /\ sent \in Nat
      BY <1>0, <3>0
    <3>3. task' \in [TaskIds -> CountedRows]
      BY <1>0, <3>0, <3>1, <3>2, StatementsCounted
    <3>4. CASE ~Owns(w)
      <4>1. Goto(w, "failing")
        BY <3>1, <3>4 DEF Goto
      <4> QED
        BY <3>0, <3>3, <4>1, GotoType, TypeInvPartsPrimed DEF Phases
    <3>5. CASE Owns(w)
      <4> DEFINE call == [run[w] EXCEPT !.pc = "processing", !.hb = beat, !.at = Null]
      <4>1. call \in GoodCalls
        <5>1. run[w] \in Calls /\ run[w].task \in TaskIds
          BY <3>0 DEF GoodCalls
        <5>2. call \in Calls /\ call.pc = "processing" /\ call.task = run[w].task
          BY <3>2, <5>1 DEF Calls, Phases
        <5> QED
          BY <5>1, <5>2 DEF GoodCalls
      <4>2. run' = [run EXCEPT ![w] = call]
        BY <3>1, <3>5 DEF GoodCalls
      <4> QED
        BY <3>0, <3>3, <4>1, <4>2, TypeInvPartsPrimed
    <3> QED
      BY <3>4, <3>5
  <2>5. CASE Return(w)
    BY <1>0, <2>5, ExpireType, GotoType, TypeInvPartsPrimed DEF Return, Phases
  <2>6. CASE Throw(w)
    BY <2>6, GotoType, TypeInvPartsPrimed DEF Throw, Phases
  <2>7. CASE FailIfStalled(w)
    <3>1. run' \in [Workers -> GoodCalls]
      BY <2>7, DoneType DEF FailIfStalled
    <3>2. task' \in [TaskIds -> CountedRows]
      BY <1>0, <2>7, StatementsCounted DEF FailIfStalled
    <3> QED
      BY <2>7, <3>1, <3>2, TypeInvPartsPrimed DEF FailIfStalled
  <2>8. CASE Finish(w)
    <3>1. run' \in [Workers -> GoodCalls]
      BY <2>8, DoneType, GotoType DEF Finish, Phases
    <3>2. task' \in [TaskIds -> CountedRows]
      BY <1>0, <2>8, StatementsCounted DEF Finish
    <3> QED
      BY <2>8, <3>1, <3>2, TypeInvPartsPrimed DEF Finish
  <2>9. ASSUME NEW c \in TaskIds, NEW n \in ChildRetries, Spawn(w, c, n)
        PROVE  TypeInv'
    <3>1. run' \in [Workers -> GoodCalls]
      BY <2>9, DoneType DEF Spawn
    <3>2. task' \in [TaskIds -> CountedRows]
      BY <1>0, <2>9, StatementsCounted DEF Spawn
    <3> QED
      BY <2>9, <3>1, <3>2, TypeInvPartsPrimed DEF Spawn
  <2>10. CASE SpawnLost(w)
    BY <2>10, DoneType, TypeInvPartsPrimed DEF SpawnLost
  <2>11. CASE Fail(w)
    <3>1. run' \in [Workers -> GoodCalls]
      BY <2>11, DoneType, GotoType DEF Fail, Phases
    <3>2. task' \in [TaskIds -> CountedRows]
      BY <1>0, <2>11, CountedTables DEF Fail, Owns, OwnedBy, Row
    <3> QED
      BY <2>11, <3>1, <3>2, TypeInvPartsPrimed DEF Fail
  <2>12. CASE Wake(w)
    <3>1. run' \in [Workers -> GoodCalls] /\ run[w].pc # "idle"
      BY <2>12, DoneType DEF Wake
    <3>2. task' \in [TaskIds -> CountedRows]
      BY <1>0, <2>12, <3>1, StatementsCounted DEF Wake
    <3> QED
      BY <2>12, <3>1, <3>2, TypeInvPartsPrimed DEF Wake
  <2>13. CASE Crash(w)
    BY <1>0, <2>13, DoneType, TypeInvPartsPrimed DEF Crash
  <2>14. CASE Rejected(w)
    <3>1. run' \in [Workers -> GoodCalls]
      BY <2>14, ThrowsType DEF Rejected
    <3> QED
      BY <2>14, <3>1, TypeInvPartsPrimed DEF Rejected, Throws
  <2>15. CASE Unanswered(w)
    <3>1. run[w].pc # "idle" /\ Throws(w)
      BY <2>15 DEF Unanswered
    <3>2. run' \in [Workers -> GoodCalls] /\ UNCHANGED <<now, crashes>>
      BY <3>1, ThrowsType DEF Throws
    <3>3. run[w].pc = "pinging" => \E sent \in Nat : task' = Pinged(w, sent)
      <4>1. run[w].pc = "pinging" => run[w].at \in Nat
        BY DEF GoodCalls
      <4> QED
        BY <1>0, <2>15, <4>1 DEF Unanswered
    <3>4. task' \in [TaskIds -> CountedRows]
      BY <1>0, <2>15, <3>1, <3>3, StatementsCounted DEF Unanswered
    <3> QED
      BY <3>2, <3>4, TypeInvPartsPrimed
  <2> QED
    BY <1>4, <2>1, <2>2, <2>3, <2>4, <2>5, <2>6, <2>7, <2>8, <2>9, <2>10, <2>11, <2>12, <2>13,
       <2>14, <2>15
       DEF WorkerStep, SpawnAny
<1>5. CASE FailStalled
  <2> DEFINE stalled == {t \in TaskIds : Stalled(task[t], now)}
  <2>1. \A t \in stalled \cap TaskIds : task[t].status = "in_progress"
    BY DEF Stalled
  <2>2. task' = TimeOut(task, stalled, now) /\ UNCHANGED <<now, run, crashes>>
    BY <1>5 DEF FailStalled
  <2>3. task' \in [TaskIds -> CountedRows]
    <3> HIDE DEF stalled
    <3> QED
      BY <1>0, <2>1, <2>2, CountedTables
  <2> QED
    BY <2>2, <2>3, TypeInvPartsPrimed
<1>6. CASE ResetFailed
  <2>1. 1 \in 1..MaxAttempts /\ NoTask \in TaskIds \cup {NoTask}
    OBVIOUS
  <2>2. \A t \in TaskIds : [task[t] EXCEPT !.status = "pending"] \in CountedRows
    BY <1>0, <2>1, RowWrites
  <2> QED
    BY <1>6, <2>2, TypeInvPartsPrimed DEF ResetFailed
<1>7. ASSUME NEW S, ClearFinished(S)
      PROVE  TypeInv'
  BY <1>0, <1>7, CountedTables, TypeInvPartsPrimed DEF ClearFinished
<1>8. ASSUME NEW S, RestartFailed(S)
      PROVE  TypeInv'
  <2>1. 1 \in 1..MaxAttempts /\ NoTask \in TaskIds \cup {NoTask}
    OBVIOUS
  <2>2. \A t \in TaskIds : [task[t] EXCEPT !.status = "pending", !.attempt = 0] \in CountedRows
    BY <1>0, <2>1, RowWrites
  <2> QED
    BY <1>8, <2>2, TypeInvPartsPrimed DEF RestartFailed
<1>9. CASE ClearFailed
  BY <1>0, <1>9, CountedTables, TypeInvPartsPrimed DEF ClearFailed
<1>10. ASSUME NEW t \in TaskIds, DeleteTask(t)
       PROVE  TypeInv'
  BY <1>0, <1>10, CountedTables, TypeInvPartsPrimed DEF DeleteTask
<1>11. ASSUME NEW t \in TaskIds, NEW n \in Retries, NEW at \in {Null, now},
              UpdatePendingTask(t, n, at)
       PROVE  TypeInv'
  <2>1. PICK child \in {task[t].activeChild, NoTask} :
          task' = [task EXCEPT ![t].maxAttempts = n, ![t].startAfter = at,
                               ![t].activeChild = child]
    BY <1>11 DEF UpdatePendingTask
  <2> DEFINE row == [task[t] EXCEPT !.maxAttempts = n, !.startAfter = at, !.activeChild = child]
  <2>2. n \in 1..MaxAttempts /\ child \in TaskIds \cup {NoTask} /\ task[t] \in CountedRows
    BY DEF CountedRows, Rows
  <2>3. row \in CountedRows
    BY <1>0, <1>11, <2>2, RowWrites
  <2>4. task' = [task EXCEPT ![t] = row]
    BY <2>1
  <2> QED
    BY <1>11, <2>3, <2>4, TypeInvPartsPrimed DEF UpdatePendingTask
<1> QED
  BY <1>1, <1>2, <1>3, <1>4, <1>5, <1>6, <1>7, <1>8, <1>9, <1>10, <1>11 DEF Next

THEOREM TypeInvariance == Spec => []TypeInv
<1>1. Init => TypeInv
  BY TypeInvInit
<1>2. TypeInv /\ [Next]_vars => TypeInv'
  BY TypeInvNext
<1> QED
  BY <1>1, <1>2, PTL DEF Spec

(* The type invariant the runs check holds for every value of the          *)
(* constants.                                                              *)
THEOREM TypeCorrect == Spec => []TypeOK
<1>1. TypeInv => TypeOK
  BY DEF TypeInv
<1> QED
  BY <1>1, TypeInvariance, PTL

-----------------------------------------------------------------------------
(* Ownership.                                                              *)
(*                                                                         *)
(* What a step may do to the rows in progress, in two lemmas: all the      *)
(* proofs below need of the twenty-odd actions is here.                    *)

(* No row is handed out and none is given a heartbeat. *)
NoNewAttempt ==
    \A t \in TaskIds :
        /\ task'[t].hb \in {Null, task[t].hb}
        /\ task'[t].status = "in_progress" =>
             /\ task[t].status = "in_progress"
             /\ task'[t].started = task[t].started
             /\ task'[t].hb = task[t].hb

(* A row that is finished or deleted is out of every attempt's reach.      *)
Gone(row) == row.status \in {"finished", "deleted"}

GoneStays == \A t \in TaskIds : Gone(task[t]) => Gone(task'[t])

(* Rows in progress other than those of S stay as they are. *)
Spares(S) ==
    \A t \in TaskIds : task[t].status = "in_progress" /\ t \notin S =>
        /\ task'[t].status = "in_progress"
        /\ task'[t].started = task[t].started
        /\ task'[t].hb = task[t].hb

(* What a failure, and being woken, leave of a row. *)
LEMMA FailedRow ==
    ASSUME NEW row \in Rows, NEW at
    PROVE  /\ Gone(row) => Gone(Woken(row, at))
           /\ Failed(row, at).status \in {"pending", "error"} /\ Failed(row, at).hb = row.hb
           /\ Woken(row, at).hb = row.hb /\ Woken(row, at).started = row.started
           /\ Woken(row, at).status = "in_progress" <=> row.status = "in_progress"
BY DEF Failed, Woken, Gone, Rows

(* An attempt that was heard of last in its try block: it may yet write    *)
(* its row, because it means to or because its wake-up throws.             *)
Engaged(w) == IsLive(w) \/ run[w].pc = "completing"

(* A step that may write a heartbeat: dao.ping, answered or not.           *)
Beats(w) == PingAnswer(w) \/ (Unanswered(w) /\ run[w].pc = "pinging")

(* Any other statement that commits and whose answer is lost.              *)
LostAnswer(w) == Unanswered(w) /\ run[w].pc # "pinging"

(* A step of a worker slot that neither fetches nor writes a heartbeat     *)
(* touches no attempt but its own; it goes on in its try block only if it  *)
(* wrote nothing, and it gives a row up that it owns only by taking it out *)
(* of progress, by dying, or because the row is not stalled after all.     *)
LocalStep(w) ==
    \/ ReadChild(w) \/ Ping(w) \/ Return(w) \/ Throw(w) \/ FailIfStalled(w)
    \/ Finish(w) \/ SpawnAny(w) \/ SpawnLost(w) \/ Fail(w) \/ Wake(w) \/ Crash(w)
    \/ Rejected(w) \/ LostAnswer(w)

(* The slot w gave its row up and left it in progress. *)
Abandons(w) ==
    \/ crashes' # 0
    \/ run[w].pc = "expired" /\ ~Stalled(Row(w), run[w].at)

LocalEffect(w) ==
    /\ now' = now /\ (crashes' = 0 => crashes = 0)
    /\ \A v \in Workers \ {w} : run'[v] = run[v]
    /\ NoNewAttempt /\ GoneStays
    /\ Spares(IF IsLive(w) /\ Owns(w) THEN {run[w].task} ELSE {})
    /\ Engaged(w)' =>
         /\ Engaged(w)
         /\ run'[w].task = run[w].task /\ run'[w].token = run[w].token
         /\ HoldsRow(w) => \/ HoldsRow(w)' \/ run[w].token < now \/ Gone(Row(w))'
                           \/ run[w].pc = "expired" /\ Stalled(Row(w), run[w].at)
    /\ IsLive(w)' /\ run'[w].pc # "failing" =>
         /\ IsLive(w) /\ run[w].pc # "failing" /\ UNCHANGED task
         /\ run'[w].hb = run[w].hb
         /\ run'[w].pc \in {"pinging", "expired"} => run[w].pc = "processing"
    /\ IsLive(w) /\ Owns(w) /\ run'[w].pc \notin Live =>
         Abandons(w) \/ task'[run[w].task].status # "in_progress"

(* The tables after the statements a live attempt issues: without the row  *)
(* they are the table as it is, and with it they take the row out of       *)
(* progress.                                                               *)
LEMMA StatementEffects ==
    ASSUME TypeInv, NEW w \in Workers, IsLive(w)
    PROVE  /\ ~Owns(w) => Expired(w) = task /\ Finished(w) = task
           /\ task' = Expired(w) =>
                /\ NoNewAttempt /\ GoneStays /\ Spares(IF Owns(w) THEN {run[w].task} ELSE {})
                /\ IF Owns(w) /\ Stalled(Row(w), run[w].at)
                     THEN task'[run[w].task].status \in {"pending", "error"}
                     ELSE UNCHANGED task
           /\ task' = Finished(w) =>
                /\ NoNewAttempt /\ GoneStays /\ Spares(IF Owns(w) THEN {run[w].task} ELSE {})
                /\ IF Owns(w) THEN task'[run[w].task].status = "finished" ELSE UNCHANGED task
           /\ \A c \in TaskIds, n \in ChildRetries : Spawned(w, c, n) =>
                /\ NoNewAttempt /\ GoneStays /\ Spares({run[w].task}) /\ Owns(w)
                /\ task'[run[w].task].status = "blocked"
<1>0. task \in [TaskIds -> Rows] /\ run[w].task \in TaskIds
  BY DEF TypeInv, TypeOK, IsLive, Live
<1>1. ASSUME ~Owns(w)
      PROVE  Expired(w) = task /\ Finished(w) = task
  BY <1>1 DEF Expired, Finished
<1>2. UNCHANGED task => NoNewAttempt /\ GoneStays /\ \A S : Spares(S)
  BY <1>0 DEF NoNewAttempt, GoneStays, Spares
<1>3. ASSUME task' = Expired(w), Owns(w) /\ Stalled(Row(w), run[w].at)
      PROVE  /\ NoNewAttempt /\ GoneStays /\ Spares({run[w].task})
             /\ task'[run[w].task].status \in {"pending", "error"}
  <2>1. task' = TimeOut(task, {run[w].task}, run[w].at) /\ task[run[w].task].status = "in_progress"
    BY <1>3 DEF Expired, Owns, OwnedBy, Row
  <2>2. /\ task'[run[w].task].status \in {"pending", "error"}
        /\ task'[run[w].task].hb = task[run[w].task].hb
    BY <1>0, <2>1, FailedRow DEF TimeOut
  <2>3. \A t \in TaskIds \ {run[w].task} :
          /\ task'[t].hb = task[t].hb /\ task'[t].started = task[t].started
          /\ task'[t].status = "in_progress" <=> task[t].status = "in_progress"
          /\ Gone(task[t]) => Gone(task'[t])
    <3>1. \A t \in TaskIds \ {run[w].task} :
            task'[t] = task[t] \/ task'[t] = Woken(task[t], run[w].at)
      BY <2>1 DEF TimeOut
    <3> QED
      BY <1>0, <3>1, FailedRow
  <2>4. ~Gone(task[run[w].task])
    BY <2>1 DEF Gone
  <2>5. NoNewAttempt /\ GoneStays /\ Spares({run[w].task})
    BY <2>1, <2>2, <2>3, <2>4 DEF NoNewAttempt, GoneStays, Spares
  <2> QED
    BY <2>2, <2>5
<1>4. ASSUME task' = Expired(w), ~(Owns(w) /\ Stalled(Row(w), run[w].at))
      PROVE  UNCHANGED task
  BY <1>4 DEF Expired
<1>5. ASSUME task' = Finished(w), Owns(w)
      PROVE  /\ NoNewAttempt /\ GoneStays /\ Spares({run[w].task})
             /\ task'[run[w].task].status = "finished"
  BY <1>0, <1>5 DEF Finished, NoNewAttempt, GoneStays, Gone, Spares, Rows
<1>6. ASSUME NEW c \in TaskIds, NEW n \in ChildRetries, Spawned(w, c, n)
      PROVE  /\ NoNewAttempt /\ GoneStays /\ Spares({run[w].task}) /\ Owns(w)
             /\ task'[run[w].task].status = "blocked"
  <2>1. /\ Owns(w) /\ task[run[w].task].status = "in_progress"
        /\ task[c].status = "unused" /\ c # run[w].task
    BY <1>6 DEF Spawned, IsNextId, Owns, OwnedBy, Row
  <2>2. task' = [task EXCEPT ![run[w].task] = Blocked(task[run[w].task], c),
                             ![c] = NewRow(run[w].task, n)]
    BY <1>6 DEF Spawned
  <2>3. /\ Blocked(task[run[w].task], c).status = "blocked"
        /\ Blocked(task[run[w].task], c).hb = Null
    BY <1>0 DEF Blocked, Rows
  <2>4. NewRow(run[w].task, n).status = "pending" /\ NewRow(run[w].task, n).hb = Null
    BY DEF NewRow, NoRow
  <2> QED
    BY <1>0, <2>1, <2>2, <2>3, <2>4 DEF NoNewAttempt, GoneStays, Gone, Spares
<1> QED
  BY <1>1, <1>2, <1>3, <1>4, <1>5, <1>6

(* The slot after a statement that throws.                                 *)
LEMMA ThrowsEffect ==
    ASSUME run \in [Workers -> Calls], NEW w \in Workers, Throws(w)
    PROVE  /\ now' = now /\ crashes' = crashes /\ \A v \in Workers \ {w} : run'[v] = run[v]
           /\ run'[w].pc = "failing" /\ run'[w].task = run[w].task /\ run'[w].token = run[w].token
<1>1. run' = [run EXCEPT ![w] = [@ EXCEPT !.pc = "failing", !.child = NoTask, !.at = Null]]
  BY DEF Throws
<1>2. run'[w] = [run[w] EXCEPT !.pc = "failing", !.child = NoTask, !.at = Null]
  BY <1>1
<1> QED
  BY <1>1, <1>2 DEF Throws, Calls

(* Waking a parent spares every row in progress.                           *)
LEMMA WakeEffects ==
    ASSUME TypeInv, NEW c, NEW at, task' = WakeParent(task, c, at)
    PROVE  NoNewAttempt /\ GoneStays /\ \A S : Spares(S)
<1>1. \A t \in TaskIds : task'[t] = task[t] \/ task'[t] = Woken(task[t], at)
  BY DEF WakeParent
<1> QED
  BY <1>1, FailedRow DEF NoNewAttempt, GoneStays, Spares, TypeInv, TypeOK

LEMMA LocalStepEffect ==
    ASSUME TypeInv, NEW w \in Workers, LocalStep(w)
    PROVE  LocalEffect(w)
<1> USE DEF LocalEffect
<1>0. /\ task \in [TaskIds -> Rows] /\ run \in [Workers -> Calls]
      /\ run[w].pc # "idle" => run[w].task \in TaskIds
  BY DEF TypeInv, TypeOK, Calls
<1>u. UNCHANGED task => NoNewAttempt /\ GoneStays /\ \A S : Spares(S)
  BY <1>0 DEF NoNewAttempt, GoneStays, Spares
<1> DEFINE Calm == now' = now /\ crashes' = crashes /\ \A v \in Workers \ {w} : run'[v] = run[v]
<1>1. ASSUME ReadChild(w) \/ Ping(w) \/ Return(w) \/ Throw(w)
      PROVE  LocalEffect(w)
  <2>1. /\ Calm /\ UNCHANGED task /\ IsLive(w) /\ run[w].pc # "failing"
        /\ IsLive(w)' /\ run'[w].task = run[w].task /\ run'[w].token = run[w].token
        /\ run'[w].hb = run[w].hb
        /\ run'[w].pc \in {"pinging", "expired"} => run[w].pc = "processing"
    BY <1>0, <1>1 DEF ReadChild, Ping, Return, Throw, Goto, Expire, IsLive, Live, Phases, Calls
  <2>2. HoldsRow(w)' <=> HoldsRow(w)
    BY <2>1 DEF HoldsRow, Row
  <2> QED
    BY <1>u, <2>1, <2>2 DEF Engaged, IsLive
<1>2. CASE FailIfStalled(w)
  <2>1. /\ IsLive(w) /\ run[w].pc = "expired" /\ Calm /\ run'[w].pc = "idle"
        /\ task' = Expired(w)
    BY <1>0, <1>2 DEF FailIfStalled, Done, Idle, IsLive, Live, Phases, Calls
  <2> QED
    BY <2>1, StatementEffects DEF Engaged, IsLive, Live, Abandons
<1>3. CASE Finish(w)
  <2>1. /\ IsLive(w) /\ Calm /\ task' = Finished(w)
        /\ IF Owns(w) THEN run' = [run EXCEPT ![w].pc = "completing"] ELSE run' = [run EXCEPT ![w] = Idle]
    BY <1>0, <1>3 DEF Finish, Goto, Done, IsLive, Live, Phases, Calls
  <2>2. CASE Owns(w)
    <3>1. run'[w].pc = "completing" /\ run'[w].task = run[w].task /\ run'[w].token = run[w].token
      BY <1>0, <2>1, <2>2 DEF Calls
    <3>2. task'[run[w].task].status = "finished"
      BY <2>1, <2>2, StatementEffects
    <3> QED
      BY <2>1, <2>2, <3>1, <3>2, StatementEffects DEF Engaged, IsLive, Live, Gone, Row
  <2>3. CASE ~Owns(w)
    <3>1. run'[w].pc = "idle"
      BY <1>0, <2>1, <2>3 DEF Idle
    <3> QED
      BY <2>1, <2>3, <3>1, StatementEffects DEF Engaged, IsLive, Live
  <2> QED
    BY <2>2, <2>3
<1>4. ASSUME NEW c \in TaskIds, NEW n \in ChildRetries, Spawn(w, c, n)
      PROVE  LocalEffect(w)
  <2>1. IsLive(w) /\ Calm /\ run'[w].pc = "idle" /\ Spawned(w, c, n)
    BY <1>0, <1>4 DEF Spawn, Done, Idle, IsLive, Live, Phases, Calls
  <2> QED
    BY <2>1, StatementEffects DEF Engaged, IsLive, Live
<1>5. CASE SpawnLost(w)
  BY <1>0, <1>u, <1>5 DEF SpawnLost, Done, Idle, Engaged, IsLive, Live, Phases, Calls
<1>6. CASE Fail(w)
  <2>1. /\ IsLive(w) /\ run[w].task \in TaskIds /\ Calm /\ run'[w].pc \in {"idle", "waking"}
    BY <1>0, <1>6 DEF Fail, Goto, Done, Idle, IsLive, Live, Phases, Calls
  <2>2. /\ Failed(task[run[w].task], now).status \in {"pending", "error"}
        /\ Failed(task[run[w].task], now).hb = task[run[w].task].hb
    BY <1>0, <2>1, FailedRow
  <2>3. CASE Owns(w)
    <3>1. /\ task[run[w].task].status = "in_progress"
          /\ task' = [task EXCEPT ![run[w].task] = Failed(task[run[w].task], now)]
      BY <1>6, <2>3 DEF Fail, Owns, OwnedBy, Row
    <3>2. /\ NoNewAttempt /\ GoneStays /\ Spares({run[w].task})
          /\ task'[run[w].task].status # "in_progress"
      BY <1>0, <2>1, <2>2, <3>1 DEF NoNewAttempt, GoneStays, Gone, Spares
    <3> QED
      BY <2>1, <2>3, <3>2 DEF Engaged, IsLive, Live
  <2>4. CASE ~Owns(w)
    <3>1. UNCHANGED task
      BY <1>6, <2>4 DEF Fail
    <3> QED
      BY <1>u, <2>1, <2>4, <3>1 DEF Engaged, IsLive, Live
  <2> QED
    BY <2>3, <2>4
<1>7. CASE Wake(w)
  <2>1. ~IsLive(w) /\ Calm /\ run'[w].pc = "idle" /\ task' = WakeParent(task, run[w].task, now)
    BY <1>0, <1>7 DEF Wake, Done, Idle, IsLive, Live
  <2> QED
    BY <2>1, WakeEffects DEF Engaged, IsLive, Live
<1>8. CASE Crash(w)
  <2>1. /\ UNCHANGED <<now, task>> /\ crashes' # 0 /\ \A v \in Workers \ {w} : run'[v] = run[v]
        /\ run'[w].pc = "idle"
    BY <1>0, <1>8, QueueAssumption DEF Crash, Done, Idle, TypeInv, TypeOK
  <2> QED
    BY <1>u, <2>1 DEF Engaged, IsLive, Live, Abandons
<1>9. ASSUME Throws(w)
      PROVE  /\ Calm /\ IsLive(w)' /\ run'[w].pc = "failing"
             /\ run'[w].task = run[w].task /\ run'[w].token = run[w].token
  BY <1>0, <1>9, ThrowsEffect DEF IsLive, Live, Phases
<1>10. CASE Rejected(w)
  <2>1. /\ UNCHANGED task /\ Engaged(w) /\ Throws(w)
    BY <1>10 DEF Rejected, Engaged, IsLive, Live, Phases
  <2>2. HoldsRow(w)' <=> HoldsRow(w)
    BY <1>9, <2>1 DEF HoldsRow, Row
  <2> QED
    BY <1>9, <1>u, <2>1, <2>2 DEF Engaged, IsLive
<1>11. CASE LostAnswer(w)
  <2>1. Throws(w) /\ Engaged(w) /\ run[w].task \in TaskIds
    BY <1>0, <1>11 DEF LostAnswer, Unanswered, Engaged, IsLive, Live, Phases
  <2>2. /\ Calm /\ IsLive(w)' /\ run'[w].pc = "failing" /\ Row(w)' = task'[run[w].task]
        /\ run'[w].task = run[w].task /\ run'[w].token = run[w].token
    BY <1>9, <2>1 DEF Row
  <2>3. CASE run[w].pc = "expired"
    <3>1. task' = Expired(w) /\ IsLive(w)
      BY <1>11, <2>3 DEF LostAnswer, Unanswered, IsLive, Live, Phases
    <3>2. UNCHANGED task => (HoldsRow(w)' <=> HoldsRow(w))
      BY <2>2 DEF HoldsRow, Row
    <3>3. /\ NoNewAttempt /\ GoneStays /\ Spares(IF Owns(w) THEN {run[w].task} ELSE {})
          /\ UNCHANGED task \/ Stalled(Row(w), run[w].at)
      BY <3>1, StatementEffects
    <3> QED
      BY <2>1, <2>2, <2>3, <3>1, <3>2, <3>3 DEF IsLive
  <2>4. CASE run[w].pc = "finishing"
    <3>1. task' = Finished(w) /\ IsLive(w)
      BY <1>11, <2>4 DEF LostAnswer, Unanswered, IsLive, Live, Phases
    <3>2. HoldsRow(w) => Owns(w)
      BY DEF HoldsRow, Owns, OwnedBy
    <3>3. /\ NoNewAttempt /\ GoneStays /\ Spares(IF Owns(w) THEN {run[w].task} ELSE {})
          /\ Owns(w) => Gone(Row(w)')
      BY <2>2, <3>1, StatementEffects DEF Gone
    <3> QED
      BY <2>1, <2>2, <3>1, <3>2, <3>3 DEF IsLive
  <2>5. CASE run[w].pc = "spawning"
    <3>1. /\ run[w].token < now /\ IsLive(w)
          /\ \E c \in TaskIds, n \in ChildRetries : Spawned(w, c, n)
      BY <1>11, <2>5 DEF LostAnswer, Unanswered, IsLive, Live, Phases
    <3>2. NoNewAttempt /\ GoneStays /\ Spares({run[w].task}) /\ Owns(w)
      BY <3>1, StatementEffects
    <3> QED
      BY <2>1, <2>2, <3>1, <3>2 DEF IsLive
  <2>6. CASE run[w].pc = "completing"
    <3>1. task' = WakeParent(task, run[w].task, now) /\ ~IsLive(w)
      BY <1>11, <2>6 DEF LostAnswer, Unanswered, IsLive, Live
    <3>2. NoNewAttempt /\ GoneStays /\ Spares({})
      BY <3>1, WakeEffects
    <3>3. HoldsRow(w) => HoldsRow(w)'
      BY <2>1, <2>2, <3>2 DEF Spares, HoldsRow, Row
    <3> QED
      BY <2>1, <2>2, <3>1, <3>2, <3>3 DEF IsLive
  <2> QED
    BY <1>11, <2>3, <2>4, <2>5, <2>6 DEF LostAnswer, Unanswered
<1> QED
  BY <1>1, <1>2, <1>3, <1>4, <1>5, <1>6, <1>7, <1>8, <1>10, <1>11 DEF LocalStep, SpawnAny

(* A step of the clock, a client, the maintenance loop or an operator      *)
(* leaves the slots alone and takes no row but a stalled one from the      *)
(* attempt that owns it.                                                   *)
OutsideStep ==
    \/ Tick
    \/ \E t \in TaskIds, n \in Retries : Schedule(t, n)
    \/ FailStalled
    \/ ResetFailed
    \/ \E S \in SUBSET TaskIds : ClearFinished(S)
    \/ \E S \in SUBSET TaskIds : RestartFailed(S)
    \/ ClearFailed
    \/ \E t \in TaskIds : DeleteTask(t)
    \/ \E t \in TaskIds, n \in Retries, at \in {Null, now} : UpdatePendingTask(t, n, at)
    \/ UNCHANGED vars

OutsideEffect ==
    /\ now' \in Nat /\ now' >= now /\ run' = run /\ crashes' = crashes
    /\ NoNewAttempt /\ GoneStays
    /\ Spares({t \in TaskIds : Stalled(task[t], now)})

LEMMA OutsideStepEffect ==
    ASSUME TypeInv, OutsideStep
    PROVE  OutsideEffect
<1> USE DEF OutsideEffect
<1>0. task \in [TaskIds -> Rows] /\ now \in Nat
  BY QueueAssumption DEF TypeInv, TypeOK
<1>1. CASE Tick
  BY <1>0, <1>1 DEF Tick, NoNewAttempt, GoneStays, Spares
<1>2. ASSUME NEW t \in TaskIds, NEW n \in Retries, Schedule(t, n)
      PROVE  OutsideEffect
  <2>1. NewRow(NoTask, n).status = "pending" /\ NewRow(NoTask, n).hb = Null
    BY DEF NewRow, NoRow
  <2> QED
    BY <1>0, <1>2, <2>1 DEF Schedule, IsNextId, NoNewAttempt, GoneStays, Gone, Spares
<1>3. CASE FailStalled
  <2> DEFINE stalled == {t \in TaskIds : Stalled(task[t], now)}
  <2>1. task' = TimeOut(task, stalled, now) /\ UNCHANGED <<now, run, crashes>>
    BY <1>3 DEF FailStalled
  <2>2. \A t \in stalled : task'[t].status \in {"pending", "error"} /\ task'[t].hb = task[t].hb
    <3>1. \A t \in stalled : t \in TaskIds /\ task'[t] = Failed(task[t], now)
      <4>1. stalled \subseteq TaskIds
        OBVIOUS
      <4> HIDE DEF stalled
      <4> QED
        BY <2>1, <4>1 DEF TimeOut
    <3>2. \A t \in TaskIds : /\ Failed(task[t], now).status \in {"pending", "error"}
                              /\ Failed(task[t], now).hb = task[t].hb
      BY <1>0, FailedRow
    <3> HIDE DEF stalled
    <3> QED
      BY <3>1, <3>2
  <2>3. \A t \in TaskIds \ stalled :
          /\ task'[t].hb = task[t].hb /\ task'[t].started = task[t].started
          /\ task'[t].status = "in_progress" <=> task[t].status = "in_progress"
          /\ Gone(task[t]) => Gone(task'[t])
    <3> HIDE DEF stalled
    <3>1. \A t \in TaskIds \ stalled : task'[t] = task[t] \/ task'[t] = Woken(task[t], now)
      BY <2>1 DEF TimeOut
    <3> QED
      BY <1>0, <3>1, FailedRow
  <2>4. \A t \in stalled : ~Gone(task[t])
    BY DEF Stalled, Gone
  <2>5. NoNewAttempt /\ GoneStays /\ Spares(stalled)
    <3> HIDE DEF stalled
    <3> QED
      BY <2>2, <2>3, <2>4 DEF NoNewAttempt, GoneStays, Spares
  <2> QED
    BY <1>0, <2>1, <2>5
<1>4. CASE ResetFailed
  BY <1>0, <1>4 DEF ResetFailed, Retryable, NoNewAttempt, GoneStays, Gone, Spares, Rows
<1>5. ASSUME NEW S, task' = Without(task, S), \A t \in S \cap TaskIds : task[t].status # "in_progress",
             UNCHANGED <<now, run, crashes>>
      PROVE  OutsideEffect
  <2>1. NoRow("deleted").status = "deleted" /\ NoRow("deleted").hb = Null
    BY DEF NoRow
  <2>2. \A t \in TaskIds : /\ t \in S => task'[t] = NoRow("deleted")
                           /\ t \notin S => task'[t] \in {task[t], [task[t] EXCEPT !.parent = NoTask]}
    BY <1>5 DEF Without
  <2>3. NoNewAttempt /\ GoneStays /\ Spares({})
    BY <1>0, <1>5, <2>1, <2>2 DEF NoNewAttempt, GoneStays, Gone, Spares, Rows
  <2> QED
    BY <1>0, <1>5, <2>3 DEF Spares
<1>6. ASSUME NEW S \in SUBSET TaskIds, ClearFinished(S)
      PROVE  OutsideEffect
  BY <1>5, <1>6 DEF ClearFinished
<1>7. ASSUME NEW S \in SUBSET TaskIds, RestartFailed(S)
      PROVE  OutsideEffect
  <2>1. \A t \in S : /\ task[t].status = "error" /\ task'[t].status = "pending"
                     /\ task'[t].hb = task[t].hb
    BY <1>0, <1>7 DEF RestartFailed, Rows
  <2>2. \A t \in TaskIds \ S : task'[t] = task[t]
    BY <1>7 DEF RestartFailed
  <2>3. NoNewAttempt /\ GoneStays /\ Spares({})
    BY <2>1, <2>2 DEF NoNewAttempt, GoneStays, Gone, Spares
  <2>4. UNCHANGED <<now, run, crashes>>
    BY <1>7 DEF RestartFailed
  <2>5. Spares({t \in TaskIds : Stalled(task[t], now)})
    BY <2>3 DEF Spares
  <2> QED
    BY <1>0, <2>3, <2>4, <2>5
<1>8. CASE ClearFailed
  <2> DEFINE failed == {t \in TaskIds : task[t].status = "error"}
  <2>1. task' = Without(task, failed) /\ UNCHANGED <<now, run, crashes>>
    BY <1>8 DEF ClearFailed
  <2>2. \A t \in failed \cap TaskIds : task[t].status # "in_progress"
    OBVIOUS
  <2> HIDE DEF failed, OutsideEffect
  <2> QED
    BY <1>5, <2>1, <2>2
<1>9. ASSUME NEW t \in TaskIds, DeleteTask(t)
      PROVE  OutsideEffect
  BY <1>5, <1>9 DEF DeleteTask
<1>10. ASSUME NEW t \in TaskIds, NEW n \in Retries, NEW at \in {Null, now},
              UpdatePendingTask(t, n, at)
       PROVE  OutsideEffect
  BY <1>0, <1>10 DEF UpdatePendingTask, NoNewAttempt, GoneStays, Gone, Spares, Rows
<1>11. CASE UNCHANGED vars
  BY <1>0, <1>11 DEF vars, NoNewAttempt, GoneStays, Spares
<1> QED
  BY <1>1, <1>2, <1>3, <1>4, <1>6, <1>7, <1>8, <1>9, <1>10, <1>11 DEF OutsideStep

(* Every step is one of the four kinds. *)
LEMMA StepKinds ==
    ASSUME [Next]_vars
    PROVE  \/ OutsideStep
           \/ \E w \in Workers, t \in TaskIds : Fetch(w, t)
           \/ \E w \in Workers : Beats(w)
           \/ \E w \in Workers : LocalStep(w)
BY DEF Next, WorkerStep, OutsideStep, LocalStep, Beats, LostAnswer

(* What a heartbeat does: the rows keep their attempts, one that is owned  *)
(* may get the third time the ping read, and the slot goes on with the     *)
(* second in its memory, or throws.                                        *)
LEMMA BeatEffects ==
    ASSUME TypeInv, NEW w \in Workers, Beats(w)
    PROVE  /\ now' = now /\ crashes' = crashes /\ \A v \in Workers \ {w} : run'[v] = run[v]
           /\ IsLive(w) /\ run[w].pc = "pinging" /\ run[w].task \in TaskIds /\ run[w].at \in Nat
           /\ run'[w].token = run[w].token /\ run'[w].task = run[w].task
           /\ run'[w].pc \in {"processing", "failing"}
           /\ \E beat, sent \in Nat :
                /\ run[w].at <= beat /\ beat <= sent /\ sent <= now /\ sent <= run[w].at + Lag
                /\ run'[w].pc = "processing" => Owns(w) /\ run'[w].hb = beat
                /\ task' = Pinged(w, sent)
                /\ \A t \in TaskIds :
                     /\ task'[t].status = task[t].status /\ task'[t].started = task[t].started
                     /\ task'[t].hb # task[t].hb =>
                          t = run[w].task /\ Owns(w) /\ task'[t].hb = sent
<1>0. /\ task \in [TaskIds -> Rows] /\ run \in [Workers -> Calls] /\ now \in Nat
      /\ run[w].pc # "idle" => run[w].task \in TaskIds
      /\ run[w].pc = "pinging" => run[w].at \in Nat
  BY QueueAssumption DEF TypeInv, TypeOK, Calls
<1>1. run[w].pc = "pinging" /\ (PingAnswer(w) \/ Throws(w))
  BY DEF Beats, PingAnswer, Unanswered
<1>2. PICK beat \in run[w].at..now, sent \in run[w].at..now :
        /\ PingReads(w, beat, sent)
        /\ task' = Pinged(w, sent)
        /\ \/ /\ Owns(w) /\ UNCHANGED <<now, crashes>>
              /\ run' = [run EXCEPT ![w].pc = "processing", ![w].hb = beat, ![w].at = Null]
           \/ /\ ~Owns(w) /\ UNCHANGED <<now, crashes>>
              /\ run' = [run EXCEPT ![w].pc = "failing"]
           \/ Throws(w)
  BY DEF Beats, PingAnswer, Unanswered
<1>3. /\ beat \in Nat /\ sent \in Nat /\ run[w].at <= beat /\ beat <= sent /\ sent <= now
      /\ sent <= run[w].at + Lag
  BY <1>0, <1>1, <1>2 DEF PingReads
<1> DEFINE Goes == /\ now' = now /\ crashes' = crashes /\ \A v \in Workers \ {w} : run'[v] = run[v]
                   /\ run'[w].token = run[w].token /\ run'[w].task = run[w].task
                   /\ run'[w].pc \in {"processing", "failing"}
                   /\ run'[w].pc = "processing" => Owns(w) /\ run'[w].hb = beat
<1>4. Goes
  <2>1. ASSUME Owns(w), UNCHANGED <<now, crashes>>,
               run' = [run EXCEPT ![w].pc = "processing", ![w].hb = beat, ![w].at = Null]
        PROVE  Goes
    <3>1. run'[w] = [run[w] EXCEPT !.pc = "processing", !.hb = beat, !.at = Null]
      BY <1>0, <2>1
    <3> QED
      BY <1>0, <2>1, <3>1 DEF Calls
  <2>2. ASSUME UNCHANGED <<now, crashes>>, run' = [run EXCEPT ![w].pc = "failing"]
        PROVE  Goes
    BY <1>0, <2>2 DEF Calls
  <2>3. CASE Throws(w)
    BY <1>0, <2>3, ThrowsEffect
  <2> QED
    BY <1>2, <2>1, <2>2, <2>3
<1>5. \A t \in TaskIds :
        /\ task'[t].status = task[t].status /\ task'[t].started = task[t].started
        /\ task'[t].hb # task[t].hb =>
             t = run[w].task /\ Owns(w) /\ task'[t].hb = sent
  BY <1>0, <1>1, <1>2 DEF Pinged, Rows
<1> QED
  BY <1>0, <1>1, <1>2, <1>3, <1>4, <1>5 DEF IsLive, Live, Phases

(* OneOwner is not inductive.  What keeps a new start time apart from the  *)
(* token of an attempt that lost the row: such a token lies in the past,   *)
(* or the row is never handed out again.  The clock has moved on because   *)
(* only a stalled row is taken from its attempt, and the heartbeat of a    *)
(* row is not older than its start.  An attempt whose finish is behind it  *)
(* counts, too: its wake-up may throw and send it to dao.fail.             *)
TimesInv ==
    /\ \A t \in TaskIds : task[t].status = "in_progress" =>
         task[t].started \in Nat /\ (task[t].hb # Null => task[t].hb >= task[t].started)
    /\ \A w \in Workers : Engaged(w) =>
         /\ run[w].token \in 0..now
         /\ run[w].pc \in {"pinging", "expired"} => run[w].at \in run[w].token..now

LostLongAgo ==
    \A w \in Workers : Engaged(w) => HoldsRow(w) \/ run[w].token < now \/ Gone(Row(w))

OneToken ==
    \A v, w \in Workers :
        v # w /\ Engaged(v) /\ Engaged(w) /\ run[v].task = run[w].task
            => run[v].token # run[w].token

OwnerInv == TimesInv /\ LostLongAgo /\ OneToken

LEMMA OwnerInvOneOwner == OwnerInv => OneOwner
BY DEF OwnerInv, OneToken, OneOwner, Engaged

LEMMA OwnerInvOneOwnerPrimed == OwnerInv' => OneOwner'
BY DEF OwnerInv, OneToken, OneOwner, Engaged

LEMMA OwnerInvInit == Init => OwnerInv
BY DEF Init, OwnerInv, TimesInv, LostLongAgo, OneToken, NoRow, Idle, Engaged, IsLive, Live

(* The owner of a row that is stalled began before the clock's time.       *)
LEMMA StalledBegan ==
    ASSUME TypeInv, TimesInv, NEW w \in Workers, Engaged(w), HoldsRow(w), NEW at \in Nat,
           at <= now, Stalled(Row(w), at)
    PROVE  run[w].token < now
<1> USE TableAssumption, QueueAssumption
<1>0. /\ task \in [TaskIds -> Rows] /\ now \in Nat /\ Timeout \in Nat \ {0}
      /\ run[w].task \in TaskIds
  BY DEF TypeInv, TypeOK, Engaged, IsLive, Live
<1>1. run[w].token = Row(w).started /\ Row(w) \in Rows /\ run[w].token \in Nat
  BY <1>0 DEF HoldsRow, Row, TimesInv
<1>2. LastActivity(Row(w)) >= run[w].token /\ LastActivity(Row(w)) \in Nat
  BY <1>0, <1>1 DEF TimesInv, HoldsRow, Row, LastActivity, Rows
<1> QED
  BY <1>0, <1>1, <1>2 DEF Stalled

LEMMA OwnerInvOutside ==
    ASSUME TypeInv, OwnerInv, OutsideEffect
    PROVE  OwnerInv'
<1> USE DEF OwnerInv
<1>0. /\ task \in [TaskIds -> Rows] /\ run \in [Workers -> Calls] /\ now \in Nat
      /\ \A w \in Workers : Engaged(w) => run[w].task \in TaskIds
  BY QueueAssumption DEF TypeInv, TypeOK, Calls, Engaged, IsLive, Live
<1>1. \A w \in Workers : run'[w] = run[w] /\ (Engaged(w)' <=> Engaged(w))
  BY DEF OutsideEffect, Engaged, IsLive
<1>2. TimesInv'
  BY <1>0, <1>1 DEF TimesInv, OutsideEffect, NoNewAttempt
<1>3. ASSUME NEW w \in Workers, Engaged(w)'
      PROVE  (HoldsRow(w) \/ run[w].token < now \/ Gone(Row(w)))'
  <2>1. /\ Engaged(w) /\ run'[w] = run[w] /\ now' \in Nat /\ now' >= now /\ run[w].task \in TaskIds
        /\ run[w].token \in 0..now
    BY <1>0, <1>1, <1>3 DEF OutsideEffect, TimesInv
  <2>2. CASE HoldsRow(w) /\ ~Stalled(Row(w), now)
    BY <2>1, <2>2 DEF HoldsRow, Row, OutsideEffect, Spares
  <2>3. CASE HoldsRow(w) /\ Stalled(Row(w), now)
    <3>1. run[w].token < now
      BY <1>0, <2>1, <2>3, StalledBegan
    <3> QED
      BY <1>0, <2>1, <3>1
  <2>4. CASE run[w].token < now
    BY <1>0, <2>1, <2>4
  <2>5. CASE Gone(Row(w))
    BY <2>1, <2>5 DEF Row, OutsideEffect, GoneStays
  <2> QED
    BY <2>1, <2>2, <2>3, <2>4, <2>5 DEF LostLongAgo
<1>4. OneToken'
  BY <1>1 DEF OneToken
<1> QED
  BY <1>2, <1>3, <1>4 DEF LostLongAgo

LEMMA OwnerInvFetch ==
    ASSUME TypeInv, OwnerInv, NEW w \in Workers, NEW t \in TaskIds, Fetch(w, t)
    PROVE  OwnerInv'
<1> USE DEF OwnerInv
<1>0. /\ task \in [TaskIds -> Rows] /\ run \in [Workers -> Calls] /\ now \in Nat
      /\ \A v \in Workers : Engaged(v) => run[v].task \in TaskIds
  BY QueueAssumption DEF TypeInv, TypeOK, Calls, Engaged, IsLive, Live
<1>1. /\ task[t].status = "pending" /\ now' = now
      /\ \A v \in Workers \ {w} : run'[v] = run[v] /\ (Engaged(v)' <=> Engaged(v))
      /\ run'[w].token = now /\ run'[w].task = t /\ run'[w].pc \in {"processing", "resuming"}
      /\ \A s \in TaskIds \ {t} : task'[s] = task[s]
  BY <1>0 DEF Fetch, Due, Engaged, IsLive
<1>2. task'[t].status = "in_progress" /\ task'[t].started = now /\ task'[t].hb = Null
  BY <1>0 DEF Fetch, Taken, Rows
<1>3. \A v \in Workers \ {w} : Engaged(v) /\ run[v].task = t => run[v].token < now
  BY <1>1 DEF LostLongAgo, HoldsRow, Gone, Row
<1>4. TimesInv'
  BY <1>0, <1>1, <1>2 DEF TimesInv
<1>5. ASSUME NEW v \in Workers, Engaged(v)'
      PROVE  (HoldsRow(v) \/ run[v].token < now \/ Gone(Row(v)))'
  <2>1. CASE v = w
    BY <1>1, <1>2, <2>1 DEF HoldsRow, Row
  <2>2. CASE v # w /\ run[v].task = t
    BY <1>1, <1>3, <1>5, <2>2
  <2>3. CASE v # w /\ run[v].task # t
    <3>1. Engaged(v) /\ run'[v] = run[v] /\ Row(v)' = Row(v)
      BY <1>0, <1>1, <1>5, <2>3 DEF Row
    <3> QED
      BY <1>1, <3>1 DEF LostLongAgo, HoldsRow
  <2> QED
    BY <2>1, <2>2, <2>3
<1>6. OneToken'
  <2> SUFFICES ASSUME NEW u \in Workers, NEW v \in Workers, u # v, Engaged(u)', Engaged(v)',
                      run'[u].task = run'[v].task
               PROVE  run'[v].token # run'[u].token
    BY DEF OneToken
  <2>1. CASE u # w /\ v # w
    BY <1>1, <2>1 DEF OneToken
  <2>2. CASE u = w
    BY <1>0, <1>1, <1>3, <2>2 DEF TimesInv
  <2>3. CASE v = w
    BY <1>0, <1>1, <1>3, <2>3 DEF TimesInv
  <2> QED
    BY <2>1, <2>2, <2>3
<1> QED
  BY <1>4, <1>5, <1>6 DEF LostLongAgo

LEMMA OwnerInvBeats ==
    ASSUME TypeInv, OwnerInv, NEW w \in Workers, Beats(w)
    PROVE  OwnerInv'
<1> USE DEF OwnerInv
<1>0. /\ task \in [TaskIds -> Rows] /\ run \in [Workers -> Calls] /\ now \in Nat
      /\ \A v \in Workers : Engaged(v) => run[v].task \in TaskIds
  BY QueueAssumption DEF TypeInv, TypeOK, Calls, Engaged, IsLive, Live
<1>1. /\ now' = now /\ IsLive(w) /\ run[w].pc = "pinging"
      /\ run'[w].token = run[w].token /\ run'[w].task = run[w].task
      /\ run'[w].pc \in {"processing", "failing"}
      /\ \A v \in Workers \ {w} : run'[v] = run[v]
  BY BeatEffects
<1>2. PICK sent \in Nat :
        /\ run[w].at \in Nat /\ run[w].at <= sent
        /\ \A t \in TaskIds :
             /\ task'[t].status = task[t].status /\ task'[t].started = task[t].started
             /\ task'[t].hb # task[t].hb => t = run[w].task /\ Owns(w) /\ task'[t].hb = sent
  BY BeatEffects
<1>3. \A v \in Workers : /\ run'[v].token = run[v].token /\ run'[v].task = run[v].task
                         /\ Engaged(v)' => Engaged(v)
                         /\ run'[v].pc \in {"pinging", "expired"} => run'[v] = run[v]
  BY <1>1 DEF Engaged, IsLive
<1>4. TimesInv'
  <2>1. ASSUME NEW t \in TaskIds, task'[t].status = "in_progress"
        PROVE  task'[t].started \in Nat /\ (task'[t].hb # Null => task'[t].hb >= task'[t].started)
    BY <1>0, <1>1, <1>2, <2>1 DEF TimesInv, Engaged, Owns, OwnedBy, Row
  <2> QED
    BY <1>0, <1>1, <1>3, <2>1 DEF TimesInv
<1>5. LostLongAgo'
  BY <1>0, <1>1, <1>2, <1>3 DEF LostLongAgo, HoldsRow, Gone, Row
<1>6. OneToken'
  BY <1>3 DEF OneToken
<1> QED
  BY <1>4, <1>5, <1>6

LEMMA OwnerInvLocal ==
    ASSUME TypeInv, OwnerInv, NEW w \in Workers, LocalStep(w)
    PROVE  OwnerInv'
<1> USE DEF OwnerInv
<1>0. /\ task \in [TaskIds -> Rows] /\ run \in [Workers -> Calls] /\ now \in Nat
      /\ \A v \in Workers : Engaged(v) => run[v].task \in TaskIds
      /\ \A v \in Workers : run[v].pc = "expired" => run[v].at \in Nat
  BY QueueAssumption DEF TypeInv, TypeOK, Calls, Engaged, IsLive, Live
<1>1. LocalEffect(w)
  BY LocalStepEffect
<1>2. run'[w].pc \in {"pinging", "expired"} => run'[w].at = now
  BY <1>0 DEF LocalStep, ReadChild, Ping, Return, Throw, FailIfStalled, Finish, SpawnAny, Spawn,
              SpawnLost, Fail, Wake, Crash, Rejected, LostAnswer, Unanswered, Throws,
              Expire, Goto, Done, Idle, Calls
<1>3. \A v \in Workers : Engaged(v)' =>
        Engaged(v) /\ run'[v].token = run[v].token /\ run'[v].task = run[v].task
  BY <1>1 DEF LocalEffect, Engaged, IsLive
<1>4. TimesInv'
  <2>1. ASSUME NEW v \in Workers, Engaged(v)'
        PROVE  /\ run'[v].token \in 0..now'
               /\ run'[v].pc \in {"pinging", "expired"} => run'[v].at \in run'[v].token..now'
    <3>1. CASE v = w
      BY <1>0, <1>1, <1>2, <1>3, <2>1, <3>1 DEF LocalEffect, TimesInv
    <3>2. CASE v # w
      BY <1>1, <1>3, <2>1, <3>2 DEF LocalEffect, TimesInv
    <3> QED
      BY <3>1, <3>2
  <2> QED
    BY <1>1, <2>1 DEF LocalEffect, NoNewAttempt, TimesInv
<1>5. ASSUME NEW v \in Workers, Engaged(v)'
      PROVE  (HoldsRow(v) \/ run[v].token < now \/ Gone(Row(v)))'
  <2>1. /\ Engaged(v) /\ run'[v].token = run[v].token /\ run'[v].task = run[v].task
        /\ run[v].task \in TaskIds /\ now' = now
    BY <1>0, <1>1, <1>3, <1>5 DEF LocalEffect
  <2>2. CASE ~HoldsRow(v)
    BY <1>1, <2>1, <2>2 DEF LocalEffect, LostLongAgo, GoneStays, Row
  <2>3. CASE HoldsRow(v) /\ v = w
    <3>1. \/ HoldsRow(w)' \/ run[w].token < now \/ Gone(Row(w))'
          \/ run[w].pc = "expired" /\ Stalled(Row(w), run[w].at)
      BY <1>1, <1>5, <2>3 DEF LocalEffect
    <3>2. ASSUME run[w].pc = "expired", Stalled(Row(w), run[w].at)
          PROVE  run[w].token < now
      <4>1. run[w].at \in Nat /\ run[w].at <= now
        BY <1>0, <2>1, <2>3, <3>2 DEF TimesInv
      <4> QED
        BY <2>1, <2>3, <3>2, <4>1, StalledBegan
    <3> QED
      BY <2>1, <2>3, <3>1, <3>2
  <2>4. CASE HoldsRow(v) /\ v # w
    <3>1. ~(IsLive(w) /\ Owns(w) /\ run[w].task = run[v].task)
      BY <2>1, <2>4 DEF OneToken, Engaged, Owns, OwnedBy, HoldsRow, Row
    <3> QED
      BY <1>1, <2>1, <2>4, <3>1 DEF LocalEffect, Spares, HoldsRow, Row
  <2> QED
    BY <2>2, <2>3, <2>4
<1>6. OneToken'
  BY <1>3 DEF OneToken
<1> QED
  BY <1>4, <1>5, <1>6 DEF LostLongAgo

THEOREM OwnerInvariance == Spec => []OwnerInv
<1>1. Init => OwnerInv
  BY OwnerInvInit
<1>2. TypeInv /\ OwnerInv /\ [Next]_vars => OwnerInv'
  BY StepKinds, OutsideStepEffect, OwnerInvOutside, OwnerInvFetch, OwnerInvBeats, OwnerInvLocal
<1> QED
  BY <1>1, <1>2, TypeInvariance, PTL DEF Spec

(* No two live attempts of a task carry the same start time, however many  *)
(* workers, crashes, time-outs and operators there are.                    *)
THEOREM OneOwnerCorrect == Spec => []OneOwner
<1>1. OwnerInv => OneOwner
  BY OwnerInvOneOwner
<1> QED
  BY <1>1, OwnerInvariance, PTL

-----------------------------------------------------------------------------
(* The heartbeat in memory and the heartbeat in the row.                   *)

(* The last heartbeat the attempt of w remembers, ensureNotStalled's       *)
(* measure.                                                                *)
Memory(w) == IF run[w].hb = Null THEN run[w].token ELSE run[w].hb

(* The attempt is in its user's code or persists what came out of it.      *)
AtWork(w) == IsLive(w) /\ run[w].pc # "failing"

(* Memory is behind the row by Lag at most, and ahead of it by the         *)
(* throttle window at most; a call that was decided on the deadline was    *)
(* decided by the memory.                                                  *)
(* (An attempt that fails makes no such decision any more: its heartbeat   *)
(* may have been written without an answer.)                               *)
HeartbeatInv ==
    \A w \in Workers : AtWork(w) =>
        /\ Memory(w) \in 0..now
        /\ run[w].pc \in {"pinging", "expired"} => run[w].at \in Memory(w)..now
        /\ run[w].pc = "pinging" => run[w].at - Memory(w) <= Timeout
        /\ run[w].pc = "expired" => run[w].at - Memory(w) > Timeout
        /\ HoldsRow(w) => /\ LastActivity(Row(w)) \in Nat
                          /\ LastActivity(Row(w)) <= Memory(w) + Lag
                          /\ Memory(w) <= LastActivity(Row(w)) + Throttle

LEMMA HeartbeatInvInit == Init => HeartbeatInv
BY DEF Init, HeartbeatInv, AtWork, Idle, IsLive, Live

(* An attempt the step does not concern keeps its part of the invariant.   *)
LEMMA HeartbeatInvBystander ==
    ASSUME TypeInv, HeartbeatInv, NEW w \in Workers, AtWork(w), run'[w] = run[w],
           now' \in Nat, now' >= now,
           HoldsRow(w)' => HoldsRow(w) /\ Row(w)'.hb = Row(w).hb
    PROVE  /\ (Memory(w) \in 0..now)'
           /\ (run[w].pc \in {"pinging", "expired"} => run[w].at \in Memory(w)..now)'
           /\ (run[w].pc = "pinging" => run[w].at - Memory(w) <= Timeout)'
           /\ (run[w].pc = "expired" => run[w].at - Memory(w) > Timeout)'
           /\ (HoldsRow(w) => /\ LastActivity(Row(w)) \in Nat
                              /\ LastActivity(Row(w)) <= Memory(w) + Lag
                              /\ Memory(w) <= LastActivity(Row(w)) + Throttle)'
<1>1. now \in Nat /\ Memory(w)' = Memory(w)
  BY QueueAssumption DEF TypeInv, TypeOK, Memory
<1>2. HoldsRow(w)' => LastActivity(Row(w))' = LastActivity(Row(w))
  BY DEF HoldsRow, LastActivity, Row
<1> QED
  BY <1>1, <1>2 DEF HeartbeatInv

LEMMA HeartbeatInvOutside ==
    ASSUME TypeInv, HeartbeatInv, OutsideEffect
    PROVE  HeartbeatInv'
<1>1. ASSUME NEW w \in Workers, AtWork(w)'
      PROVE  /\ AtWork(w) /\ run'[w] = run[w]
             /\ HoldsRow(w)' => HoldsRow(w) /\ Row(w)'.hb = Row(w).hb
  <2>1. AtWork(w) /\ run'[w] = run[w] /\ run[w].task \in TaskIds
    BY <1>1 DEF OutsideEffect, AtWork, IsLive, Live, TypeInv
  <2> QED
    BY <2>1 DEF OutsideEffect, NoNewAttempt, HoldsRow, Row
<1>2. now' \in Nat /\ now' >= now
  BY DEF OutsideEffect
<1> QED
  BY <1>1, <1>2, HeartbeatInvBystander DEF HeartbeatInv

LEMMA HeartbeatInvFetch ==
    ASSUME TypeInv, OwnerInv', HeartbeatInv, NEW w \in Workers, NEW t \in TaskIds, Fetch(w, t)
    PROVE  HeartbeatInv'
<1> USE TableAssumption, QueueAssumption
<1>0. /\ task \in [TaskIds -> Rows] /\ run \in [Workers -> Calls] /\ now \in Nat
      /\ \A v \in Workers : IsLive(v) => run[v].task \in TaskIds
  BY DEF TypeInv, TypeOK, Calls, IsLive, Live
<1>1. /\ now' = now /\ \A v \in Workers \ {w} : run'[v] = run[v]
      /\ run'[w].token = now /\ run'[w].task = t /\ run'[w].hb = Null
      /\ run'[w].pc \in {"processing", "resuming"}
      /\ \A s \in TaskIds \ {t} : task'[s] = task[s]
      /\ task'[t].started = now /\ task'[t].hb = Null
  BY <1>0 DEF Fetch, Taken, Rows
<1>2. ASSUME NEW v \in Workers \ {w}, AtWork(v)'
      PROVE  /\ AtWork(v) /\ run'[v] = run[v]
             /\ HoldsRow(v)' => HoldsRow(v) /\ Row(v)'.hb = Row(v).hb
  <2>1. AtWork(v) /\ run'[v] = run[v] /\ run[v].task \in TaskIds
    BY <1>0, <1>1, <1>2 DEF AtWork, IsLive
  <2>2. CASE run[v].task # t
    BY <1>1, <2>1, <2>2 DEF HoldsRow, Row
  <2>3. CASE run[v].task = t
    <3>1. run'[v].token # now
      BY <1>1, <1>2, <2>1, <2>3, OwnerInvOneOwnerPrimed DEF OneOwner, AtWork, IsLive, Live, Phases
    <3> QED
      BY <1>1, <2>1, <2>3, <3>1 DEF HoldsRow, Row
  <2> QED
    BY <2>1, <2>2, <2>3
<1>3. Memory(w)' = now /\ LastActivity(Row(w))' = now
  BY <1>1 DEF Memory, LastActivity, Row
<1>4. \A v \in Workers \ {w} : AtWork(v)' =>
        /\ (Memory(v) \in 0..now)'
        /\ (run[v].pc \in {"pinging", "expired"} => run[v].at \in Memory(v)..now)'
        /\ (run[v].pc = "pinging" => run[v].at - Memory(v) <= Timeout)'
        /\ (run[v].pc = "expired" => run[v].at - Memory(v) > Timeout)'
        /\ (HoldsRow(v) => /\ LastActivity(Row(v)) \in Nat
                           /\ LastActivity(Row(v)) <= Memory(v) + Lag
                           /\ Memory(v) <= LastActivity(Row(v)) + Throttle)'
  BY <1>0, <1>1, <1>2, HeartbeatInvBystander
<1> QED
  BY <1>0, <1>1, <1>3, <1>4 DEF HeartbeatInv

LEMMA HeartbeatInvBeats ==
    ASSUME TypeInv, OwnerInv, HeartbeatInv, NEW w \in Workers, Beats(w)
    PROVE  HeartbeatInv'
<1> USE TableAssumption, QueueAssumption
<1>0. /\ task \in [TaskIds -> Rows] /\ run \in [Workers -> Calls] /\ now \in Nat
      /\ \A v \in Workers : IsLive(v) => run[v].task \in TaskIds
  BY DEF TypeInv, TypeOK, Calls, IsLive, Live
<1>1. /\ now' = now /\ IsLive(w) /\ run[w].pc = "pinging" /\ run[w].task \in TaskIds
      /\ run'[w].token = run[w].token /\ run'[w].task = run[w].task
      /\ run'[w].pc \in {"processing", "failing"}
      /\ run[w].at \in Nat /\ \A v \in Workers \ {w} : run'[v] = run[v]
  BY BeatEffects
<1>2. PICK beat \in Nat, sent \in Nat :
        /\ run[w].at <= beat /\ beat <= sent /\ sent <= now /\ sent <= run[w].at + Lag
        /\ run'[w].pc = "processing" => Owns(w) /\ run'[w].hb = beat
        /\ task' = Pinged(w, sent)
        /\ \A t \in TaskIds :
             /\ task'[t].status = task[t].status /\ task'[t].started = task[t].started
             /\ task'[t].hb # task[t].hb => t = run[w].task /\ Owns(w)
  BY BeatEffects
<1>3. ASSUME NEW v \in Workers \ {w}, AtWork(v)'
      PROVE  /\ AtWork(v) /\ run'[v] = run[v]
             /\ HoldsRow(v)' => HoldsRow(v) /\ Row(v)'.hb = Row(v).hb
  <2>1. AtWork(v) /\ run'[v] = run[v] /\ run[v].task \in TaskIds
    BY <1>0, <1>1, <1>3 DEF AtWork, IsLive
  <2>2. HoldsRow(v)' => HoldsRow(v)
    BY <1>2, <2>1 DEF HoldsRow, Row
  <2>3. HoldsRow(v) => ~(run[v].task = run[w].task /\ Owns(w))
    BY <1>1, <2>1, OwnerInvOneOwner DEF OneOwner, AtWork, HoldsRow, Owns, OwnedBy, Row
  <2> QED
    BY <1>2, <2>1, <2>2, <2>3 DEF Row
<1>4. \A v \in Workers \ {w} : AtWork(v)' =>
        /\ (Memory(v) \in 0..now)'
        /\ (run[v].pc \in {"pinging", "expired"} => run[v].at \in Memory(v)..now)'
        /\ (run[v].pc = "pinging" => run[v].at - Memory(v) <= Timeout)'
        /\ (run[v].pc = "expired" => run[v].at - Memory(v) > Timeout)'
        /\ (HoldsRow(v) => /\ LastActivity(Row(v)) \in Nat
                           /\ LastActivity(Row(v)) <= Memory(v) + Lag
                           /\ Memory(v) <= LastActivity(Row(v)) + Throttle)'
  BY <1>0, <1>1, <1>3, HeartbeatInvBystander
<1>5. CASE run'[w].pc = "failing"
  BY <1>0, <1>1, <1>4, <1>5 DEF HeartbeatInv, AtWork
<1>6. CASE run'[w].pc = "processing"
  <2>0. AtWork(w) /\ Memory(w) \in 0..now /\ run[w].at \in Memory(w)..now /\ Owns(w)
    BY <1>1, <1>2, <1>6 DEF AtWork, HeartbeatInv
  <2>1. Memory(w)' = beat /\ Memory(w) <= beat /\ beat <= now /\ sent <= beat + Lag
    <3>1. beat # Null
      BY DEF Null
    <3> QED
      BY <1>0, <1>1, <1>2, <1>6, <2>0, <3>1 DEF Memory
  <2>2. Row(w) \in Rows /\ HoldsRow(w) /\ Memory(w) \in Nat
    BY <1>0, <1>1, <2>0 DEF Row, HoldsRow, Owns, OwnedBy
  <2>3. ASSUME LastActivity(Row(w))' \in Nat, LastActivity(Row(w))' <= beat + Lag,
               beat <= LastActivity(Row(w))' + Throttle
        PROVE  HeartbeatInv'
    BY <1>0, <1>1, <1>4, <1>6, <2>0, <2>1, <2>3 DEF HeartbeatInv
  <2>4. CASE Row(w).hb # Null /\ Row(w).hb >= sent - Throttle
    <3>1. task' = task /\ Row(w)' = Row(w)
      BY <1>1, <1>2, <2>0, <2>4 DEF Pinged, Row
    <3>2. LastActivity(Row(w))' = Row(w).hb /\ LastActivity(Row(w)) = Row(w).hb
      BY <2>4, <3>1 DEF LastActivity
    <3>3. Row(w).hb \in Nat /\ Row(w).hb <= Memory(w) + Lag
      BY <1>1, <2>0, <2>2, <3>2 DEF HeartbeatInv
    <3>4. Row(w).hb <= beat + Lag /\ beat <= Row(w).hb + Throttle
      BY <1>0, <1>2, <2>1, <2>2, <2>4, <3>3
    <3> QED
      BY <2>3, <3>2, <3>3, <3>4
  <2>5. CASE ~(Row(w).hb # Null /\ Row(w).hb >= sent - Throttle)
    <3>1. task' = [task EXCEPT ![run[w].task].hb = sent]
      BY <1>1, <1>2, <2>0, <2>5 DEF Pinged
    <3>2. Row(w)'.hb = sent /\ sent # Null
      BY <1>0, <1>1, <3>1 DEF Row, Rows, Null
    <3>3. LastActivity(Row(w))' = sent
      BY <3>2 DEF LastActivity
    <3>4. beat <= sent + Throttle
      BY <1>2
    <3> QED
      BY <2>1, <2>3, <3>3, <3>4
  <2> QED
    BY <2>4, <2>5
<1> QED
  BY <1>1, <1>5, <1>6

LEMMA HeartbeatInvLocal ==
    ASSUME TypeInv, OwnerInv, HeartbeatInv, NEW w \in Workers, LocalStep(w)
    PROVE  HeartbeatInv'
<1> USE TableAssumption, QueueAssumption
<1>0. /\ task \in [TaskIds -> Rows] /\ run \in [Workers -> Calls] /\ now \in Nat
      /\ \A v \in Workers : IsLive(v) => run[v].task \in TaskIds
  BY DEF TypeInv, TypeOK, Calls, IsLive, Live
<1>1. LocalEffect(w)
  BY LocalStepEffect
<1>2. ASSUME NEW v \in Workers \ {w}, AtWork(v)'
      PROVE  /\ AtWork(v) /\ run'[v] = run[v]
             /\ HoldsRow(v)' => HoldsRow(v) /\ Row(v)'.hb = Row(v).hb
  <2>1. AtWork(v) /\ run'[v] = run[v] /\ run[v].task \in TaskIds
    BY <1>0, <1>1, <1>2 DEF LocalEffect, AtWork, IsLive
  <2> QED
    BY <1>1, <2>1 DEF LocalEffect, NoNewAttempt, HoldsRow, Row
<1>3. \A v \in Workers \ {w} : AtWork(v)' =>
        /\ (Memory(v) \in 0..now)'
        /\ (run[v].pc \in {"pinging", "expired"} => run[v].at \in Memory(v)..now)'
        /\ (run[v].pc = "pinging" => run[v].at - Memory(v) <= Timeout)'
        /\ (run[v].pc = "expired" => run[v].at - Memory(v) > Timeout)'
        /\ (HoldsRow(v) => /\ LastActivity(Row(v)) \in Nat
                           /\ LastActivity(Row(v)) <= Memory(v) + Lag
                           /\ Memory(v) <= LastActivity(Row(v)) + Throttle)'
  BY <1>0, <1>1, <1>2, HeartbeatInvBystander DEF LocalEffect
<1>4. run[w].pc = "processing" /\ run'[w].pc \in {"pinging", "expired"} =>
        /\ run'[w].at = now
        /\ run'[w].pc = "pinging" => ~Lapsed(w)
        /\ run'[w].pc = "expired" => Lapsed(w)
  BY <1>0 DEF LocalStep, ReadChild, Ping, Return, Throw, FailIfStalled, Finish, SpawnAny, Spawn,
              SpawnLost, Fail, Wake, Crash, Rejected, LostAnswer, Unanswered, Throws,
              Expire, Goto, Done, Idle, Calls
<1>5. ASSUME AtWork(w)'
      PROVE  /\ (Memory(w) \in 0..now)'
             /\ (run[w].pc \in {"pinging", "expired"} => run[w].at \in Memory(w)..now)'
             /\ (run[w].pc = "pinging" => run[w].at - Memory(w) <= Timeout)'
             /\ (run[w].pc = "expired" => run[w].at - Memory(w) > Timeout)'
             /\ (HoldsRow(w) => /\ LastActivity(Row(w)) \in Nat
                                /\ LastActivity(Row(w)) <= Memory(w) + Lag
                                /\ Memory(w) <= LastActivity(Row(w)) + Throttle)'
  <2>1. /\ AtWork(w) /\ task' = task /\ now' = now
        /\ run'[w].task = run[w].task /\ run'[w].token = run[w].token /\ run'[w].hb = run[w].hb
        /\ run'[w].pc \in {"pinging", "expired"} => run[w].pc = "processing"
    BY <1>1, <1>5 DEF LocalEffect, AtWork, Engaged
  <2>2. Memory(w)' = Memory(w) /\ (HoldsRow(w)' <=> HoldsRow(w)) /\ Row(w)' = Row(w)
    BY <2>1 DEF Memory, HoldsRow, Row
  <2>3. Lapsed(w) <=> now - Memory(w) > Timeout
    BY DEF Lapsed, Memory
  <2>4. LastActivity(Row(w))' = LastActivity(Row(w))
    BY <2>2 DEF LastActivity
  <2> QED
    BY <1>0, <1>4, <2>1, <2>2, <2>3, <2>4 DEF HeartbeatInv
<1> QED
  BY <1>3, <1>5 DEF HeartbeatInv

THEOREM HeartbeatInvariance == Spec => []HeartbeatInv
<1>1. Init => HeartbeatInv
  BY HeartbeatInvInit
<1>2. TypeInv /\ OwnerInv /\ OwnerInv' /\ HeartbeatInv /\ [Next]_vars => HeartbeatInv'
  BY StepKinds, OutsideStepEffect, HeartbeatInvOutside, HeartbeatInvFetch,
     HeartbeatInvBeats, HeartbeatInvLocal
<1> QED
  BY <1>1, <1>2, TypeInvariance, OwnerInvariance, PTL DEF Spec

(* A heartbeat outlives the deadline the database would measure by the     *)
(* throttle window and the distance of the clock's reads at most.          *)
THEOREM RescueBoundedCorrect == Spec => RescueBounded
<1> USE TableAssumption, QueueAssumption
<1>1. ASSUME TypeInv, HeartbeatInv, [Next]_vars, NEW t \in TaskIds,
             task'[t].hb \notin {Null, task[t].hb}
      PROVE  task'[t].hb <= LastActivity(task[t]) + Timeout + Throttle + Lag
  <2>1. PICK w \in Workers : Beats(w)
    <3>1. ~NoNewAttempt
      BY <1>1 DEF NoNewAttempt
    <3>2. ~OutsideStep
      BY <1>1, <3>1, OutsideStepEffect DEF OutsideEffect
    <3>3. \A w \in Workers : ~LocalStep(w)
      BY <1>1, <3>1, LocalStepEffect DEF LocalEffect
    <3>4. \A w \in Workers, s \in TaskIds : Fetch(w, s) => task'[t].hb \in {Null, task[t].hb}
      BY <1>1 DEF Fetch, Taken, TypeInv, TypeOK, Rows
    <3> QED
      BY <1>1, <3>2, <3>3, <3>4, StepKinds
  <2>2. /\ task \in [TaskIds -> Rows] /\ run \in [Workers -> Calls] /\ run[w].task \in TaskIds
        /\ AtWork(w) /\ run[w].pc = "pinging" /\ now \in Nat
    BY <1>1, <2>1, BeatEffects DEF AtWork, TypeInv, TypeOK, Calls
  <2>3. /\ t = run[w].task /\ Owns(w) /\ run[w].at \in Nat
        /\ task'[t].hb \in Nat /\ task'[t].hb <= run[w].at + Lag
    BY <1>1, <2>1, BeatEffects
  <2>4. HoldsRow(w) /\ Row(w) = task[t]
    BY <2>3 DEF HoldsRow, Owns, OwnedBy, Row
  <2> QED
    BY <1>1, <2>2, <2>3, <2>4 DEF HeartbeatInv
<1>2. TypeInv /\ HeartbeatInv /\ [Next]_vars =>
        [\A t \in TaskIds :
           task'[t].hb \notin {Null, task[t].hb} =>
             task'[t].hb <= LastActivity(task[t]) + Timeout + Throttle + Lag]_vars
  BY <1>1
<1> QED
  BY <1>2, TypeInvariance, HeartbeatInvariance, PTL DEF Spec, RescueBounded

-----------------------------------------------------------------------------
(* No row in progress is abandoned for long.                               *)

(* While no process died, every row in progress has a live attempt that    *)
(* owns it, or is Lag short of being timed out at most: the deadline a     *)
(* worker computed in memory may make it give up a row that the database   *)
(* does not take from it yet, by as much as the memory is behind the row   *)
(* (HeartbeatInv).                                                         *)
THEOREM AbandonedIsOverdueCorrect == Spec => []AbandonedIsOverdue
<1> USE TableAssumption, QueueAssumption
<1> DEFINE Held(t) == \E w \in Workers : IsLive(w) /\ run[w].task = t /\ HoldsRow(w)
           Overdue(t) == LastActivity(task[t]) + Timeout < now + Lag
<1>1. Init => AbandonedIsOverdue
  BY DEF Init, AbandonedIsOverdue, NoRow
<1>2. ASSUME TypeInv, OwnerInv, HeartbeatInv, AbandonedIsOverdue, [Next]_vars
      PROVE  AbandonedIsOverdue'
  <2>0. /\ task \in [TaskIds -> Rows] /\ run \in [Workers -> Calls] /\ now \in Nat
        /\ crashes \in Nat
        /\ \A v \in Workers : IsLive(v) => run[v].task \in TaskIds
    BY <1>2 DEF TypeInv, TypeOK, Calls, IsLive, Live
  <2>1. crashes' = 0 => crashes = 0
    <3>1. \A w \in Workers : LocalStep(w) => (crashes' = 0 => crashes = 0)
      BY <1>2, LocalStepEffect DEF LocalEffect
    <3>2. OutsideStep => crashes' = crashes
      BY <1>2, OutsideStepEffect DEF OutsideEffect
    <3>3. \A w \in Workers, t \in TaskIds : Fetch(w, t) => crashes' = crashes
      BY DEF Fetch
    <3>4. \A w \in Workers : Beats(w) => crashes' = crashes
      BY <1>2, BeatEffects
    <3> QED
      BY <1>2, <3>1, <3>2, <3>3, <3>4, StepKinds
  <2> SUFFICES ASSUME crashes' = 0, NEW t \in TaskIds, task'[t].status = "in_progress"
               PROVE  Held(t)' \/ Overdue(t)'
    BY DEF AbandonedIsOverdue
  <2>2. ASSUME task[t].status = "in_progress"
        PROVE  Held(t) \/ Overdue(t)
    BY <1>2, <2>1, <2>2 DEF AbandonedIsOverdue
  <2>3. ASSUME task[t].status = "in_progress"
        PROVE  LastActivity(task[t]) \in Nat
    <3>1. task[t] \in Rows /\ task[t].started \in Nat
      BY <1>2, <2>0, <2>3 DEF OwnerInv, TimesInv
    <3> QED
      BY <3>1 DEF LastActivity, Rows
  <2>4. ASSUME task[t].status = "in_progress", Overdue(t), now' \in Nat, now' >= now,
               task'[t].started = task[t].started, task'[t].hb = task[t].hb
        PROVE  Overdue(t)'
    <3>1. LastActivity(task[t])' = LastActivity(task[t])
      BY <2>4 DEF LastActivity
    <3> QED
      BY <2>0, <2>3, <2>4, <3>1
  <2>5. CASE OutsideStep
    <3>1. /\ run' = run /\ now' \in Nat /\ now' >= now /\ task[t].status = "in_progress"
          /\ task'[t].started = task[t].started /\ task'[t].hb = task[t].hb
      BY <1>2, <2>5, OutsideStepEffect DEF OutsideEffect, NoNewAttempt
    <3>2. Held(t) => Held(t)'
      BY <3>1 DEF IsLive, HoldsRow, Row
    <3> QED
      BY <2>2, <2>4, <3>1, <3>2
  <2>6. ASSUME NEW w \in Workers, NEW s \in TaskIds, Fetch(w, s)
        PROVE  Held(t)' \/ Overdue(t)'
    <3>1. CASE t = s
      <4>1. (IsLive(w) /\ run[w].task = t /\ HoldsRow(w))'
        BY <2>0, <2>6, <3>1 DEF Fetch, Taken, Rows, IsLive, Live, Phases, HoldsRow, Row
      <4> QED
        BY <4>1
    <3>2. CASE t # s
      <4>1. /\ task'[t] = task[t] /\ ~IsLive(w) /\ \A v \in Workers \ {w} : run'[v] = run[v]
            /\ now' = now
        BY <2>0, <2>6, <3>2 DEF Fetch, IsLive, Live
      <4>2. Held(t) => Held(t)'
        BY <4>1 DEF IsLive, HoldsRow, Row
      <4> QED
        BY <2>0, <2>2, <2>4, <4>1, <4>2
    <3> QED
      BY <3>1, <3>2
  <2>7. ASSUME NEW w \in Workers, Beats(w)
        PROVE  Held(t)' \/ Overdue(t)'
    <3>1. /\ task'[t].status = task[t].status /\ task'[t].started = task[t].started
          /\ task'[t].hb # task[t].hb => t = run[w].task /\ Owns(w)
          /\ run'[w].task = run[w].task /\ run'[w].token = run[w].token /\ now' = now
          /\ IsLive(w) /\ IsLive(w)' /\ \A v \in Workers \ {w} : run'[v] = run[v]
      BY <1>2, <2>7, BeatEffects DEF IsLive, Live, Phases
    <3>2. Held(t) => Held(t)'
      BY <3>1 DEF IsLive, HoldsRow, Row
    <3>3. task'[t].hb # task[t].hb => Held(t)
      BY <3>1 DEF Owns, OwnedBy, HoldsRow, Row
    <3> QED
      BY <2>0, <2>2, <2>4, <3>1, <3>2, <3>3
  <2>8. ASSUME NEW w \in Workers, LocalStep(w)
        PROVE  Held(t)' \/ Overdue(t)'
    <3>1. LocalEffect(w)
      BY <1>2, <2>8, LocalStepEffect
    <3>2. /\ task[t].status = "in_progress" /\ task'[t].started = task[t].started
          /\ task'[t].hb = task[t].hb /\ now' = now
      BY <3>1 DEF LocalEffect, NoNewAttempt
    <3>3. ASSUME NEW v \in Workers, IsLive(v), run[v].task = t, HoldsRow(v)
          PROVE  Held(t)' \/ Overdue(t)
      <4>1. ASSUME IsLive(v)', run'[v].task = t, run'[v].token = run[v].token
            PROVE  Held(t)'
        BY <3>2, <3>3, <4>1 DEF HoldsRow, Row
      <4>2. CASE v # w
        BY <3>1, <3>3, <4>1, <4>2 DEF LocalEffect, IsLive
      <4>3. CASE v = w /\ IsLive(w)'
        BY <3>1, <3>3, <4>1, <4>3 DEF LocalEffect, Engaged, IsLive
      <4>4. CASE v = w /\ ~IsLive(w)'
        <5>1. Abandons(w)
          BY <3>1, <3>3, <4>4 DEF LocalEffect, IsLive, Owns, OwnedBy, HoldsRow
        <5>2. run[w].pc = "expired" /\ AtWork(w) /\ Row(w) = task[t]
          BY <3>3, <4>4, <5>1 DEF Abandons, AtWork, Row
        <5> QED
          BY <1>2, <2>0, <2>3, <3>2, <3>3, <4>4, <5>2 DEF HeartbeatInv
      <4> QED
        BY <4>2, <4>3, <4>4
    <3> QED
      BY <2>0, <2>2, <2>4, <3>2, <3>3
  <2> QED
    BY <1>2, <2>5, <2>6, <2>7, <2>8, StepKinds
<1> QED
  BY <1>1, <1>2, TypeInvariance, OwnerInvariance, HeartbeatInvariance, PTL DEF Spec

-----------------------------------------------------------------------------
(* An attempt that lost its row is inert. *)

(* No statement of an attempt that lost its row writes anything: not its   *)
(* heartbeat, nor its outcome, nor a child.  All that is left to it is the *)
(* wake-up of its task's parent, when that is blocked.                     *)
THEOREM StaleAttemptIsInertCorrect == Spec => StaleAttemptIsInert
<1>1. ASSUME TypeInv, [Next]_vars, NEW w \in Workers, run[w].pc # "idle", ~HoldsRow(w),
             run'[w] # run[w], NEW t \in TaskIds, task'[t] # task[t]
      PROVE  /\ ~IsLive(w)
             /\ t = Row(w).parent /\ task[t].status = "blocked"
             /\ task'[t].status = "pending"
  <2>0. task \in [TaskIds -> Rows] /\ run \in [Workers -> Calls] /\ ~Owns(w)
    BY <1>1 DEF TypeInv, TypeOK, Calls, HoldsRow, Owns, OwnedBy, Row
  <2>1. ~OutsideStep
    BY <1>1, OutsideStepEffect DEF OutsideEffect
  <2>2. ASSUME NEW v \in Workers, LocalStep(v)
        PROVE  ~IsLive(w) /\ task' = WakeParent(task, run[w].task, now)
    <3>1. v = w
      BY <1>1, <2>2, LocalStepEffect DEF LocalEffect
    <3>2. Expired(w) = task /\ Finished(w) = task /\ \A c, n : ~Spawned(w, c, n)
      BY <2>0 DEF Expired, Finished, Spawned
    <3>3. run[w].pc \in {"completing", "waking"} /\ task' = WakeParent(task, run[w].task, now)
      BY <1>1, <2>0, <2>2, <3>1, <3>2
         DEF LocalStep, ReadChild, Ping, Return, Throw, FailIfStalled, Finish, SpawnAny, Spawn,
             SpawnLost, Fail, Wake, Crash, Rejected, LostAnswer, Unanswered
    <3> QED
      BY <3>3 DEF IsLive, Live
  <2>3. ASSUME NEW v \in Workers, Beats(v)
        PROVE  FALSE
    <3>1. v = w /\ \E sent \in Nat : task' = Pinged(w, sent)
      BY <1>1, <2>3, BeatEffects
    <3> QED
      BY <1>1, <2>0, <3>1 DEF Pinged
  <2>4. ASSUME NEW v \in Workers, NEW s \in TaskIds, Fetch(v, s)
        PROVE  FALSE
    BY <1>1, <2>0, <2>4 DEF Fetch
  <2>5. ~IsLive(w) /\ task' = WakeParent(task, run[w].task, now)
    BY <1>1, <2>1, <2>2, <2>3, <2>4, StepKinds
  <2>6. t = Row(w).parent /\ task'[t] = Woken(task[t], now)
    BY <1>1, <2>5 DEF WakeParent, Row
  <2> QED
    BY <1>1, <2>0, <2>5, <2>6 DEF Woken, Rows
<1>2. TypeInv /\ [Next]_vars =>
        [\A w \in Workers :
           run[w].pc # "idle" /\ ~HoldsRow(w) /\ run'[w] # run[w] =>
               \A t \in TaskIds : task'[t] # task[t] =>
                   /\ ~IsLive(w)
                   /\ t = Row(w).parent /\ task[t].status = "blocked"
                   /\ task'[t].status = "pending"]_vars
  BY <1>1
<1> QED
  BY <1>2, TypeInvariance, PTL DEF Spec, StaleAttemptIsInert

-----------------------------------------------------------------------------
(* The retry budget. *)

(* RetryBudget for one row; restarting a failed task needs that the row    *)
(* was scheduled with an attempt to spend.                                 *)
InBudget(row) ==
    /\ Exists(row) => row.maxAttempts >= 1
    /\ row.status \in {"pending", "blocked"} => row.attempt < row.maxAttempts
    /\ row.status = "in_progress" => row.attempt \in 1..row.maxAttempts
    /\ row.status = "error" => row.attempt = row.maxAttempts

BudgetRows == {row \in Rows : InBudget(row)}

BudgetInv == task \in [TaskIds -> BudgetRows]

(* The writes of TaskTable keep a row in its budget. *)
LEMMA FailedInBudget ==
    ASSUME NEW row \in BudgetRows, NEW at, row.status = "in_progress"
    PROVE  InBudget(Failed(row, at))
BY TableAssumption DEF Failed, CanRetry, BudgetRows, InBudget, Exists, RowStatuses, Rows

LEMMA WokenInBudget ==
    ASSUME NEW row \in BudgetRows, NEW at
    PROVE  InBudget(Woken(row, at))
BY DEF Woken, BudgetRows, InBudget, Exists, RowStatuses, Rows

LEMMA TakenInBudget ==
    ASSUME NEW row \in BudgetRows, NEW at, row.status = "pending"
    PROVE  InBudget(Taken(row, at))
BY TableAssumption DEF Taken, BudgetRows, InBudget, Exists, RowStatuses, Rows

LEMMA BlockedInBudget ==
    ASSUME NEW row \in BudgetRows, NEW c, row.status = "in_progress"
    PROVE  InBudget(Blocked(row, c))
BY TableAssumption DEF Blocked, BudgetRows, InBudget, Exists, RowStatuses, Rows

LEMMA NewRowInBudget ==
    ASSUME NEW n \in 1..MaxAttempts, NEW p
    PROVE  InBudget(NewRow(p, n))
BY TableAssumption DEF InBudget, NewRow, NoRow, Exists, RowStatuses

(* So every statement on the table does. *)
LEMMA BudgetStep ==
    ASSUME TypeInv, TypeInv', BudgetInv, [Next]_vars, "update" \notin AdminOps
    PROVE  \A t \in TaskIds : InBudget(task'[t])
<1> USE TableAssumption, QueueAssumption
<1>0. /\ task \in [TaskIds -> Rows]
      /\ \A t \in TaskIds : task[t] \in BudgetRows /\ InBudget(task[t])
      /\ \A w \in Workers : run[w].pc # "idle" => run[w].task \in TaskIds
  BY DEF BudgetInv, BudgetRows, TypeInv, TypeOK
<1> SUFFICES ASSUME NEW t \in TaskIds, task'[t] # task[t]
             PROVE  InBudget(task'[t])
  BY <1>0
<1>1. ASSUME NEW s \in TaskIds, NEW n \in Retries, Schedule(s, n)
      PROVE  InBudget(task'[t])
  <2>1. task'[t] = NewRow(NoTask, n) /\ n \in 1..MaxAttempts
    BY <1>0, <1>1 DEF Schedule
  <2> QED
    BY <1>0, <2>1, NewRowInBudget
<1>2. ASSUME NEW w \in Workers, NEW s \in TaskIds, Fetch(w, s)
      PROVE  InBudget(task'[t])
  <2>1. task[t].status = "pending" /\ task'[t] = Taken(task[t], now)
    BY <1>0, <1>2 DEF Fetch, Due
  <2> QED
    BY <1>0, <2>1, TakenInBudget
<1>3. ASSUME NEW w \in Workers, NEW sent, task' = Pinged(w, sent)
      PROVE  InBudget(task'[t])
  <2>1. task'[t] = [task[t] EXCEPT !.hb = sent]
    BY <1>0, <1>3 DEF Pinged
  <2> QED
    BY <1>0, <2>1 DEF InBudget, Exists, Rows
<1>4. ASSUME NEW S, NEW at, \A s \in S \cap TaskIds : task[s].status = "in_progress",
             task' = TimeOut(task, S, at)
      PROVE  InBudget(task'[t])
  <2>1. \/ task'[t] = Failed(task[t], at) /\ t \in S
        \/ task'[t] = Woken(task[t], at)
    BY <1>4 DEF TimeOut
  <2> QED
    BY <1>0, <1>4, <2>1, FailedInBudget, WokenInBudget
<1>5. ASSUME NEW w \in Workers, task' = Expired(w)
      PROVE  InBudget(task'[t])
  <2>1. /\ task' = TimeOut(task, {run[w].task}, run[w].at)
        /\ task[run[w].task].status = "in_progress"
    BY <1>0, <1>5 DEF Expired, Owns, OwnedBy, Row
  <2>2. \A s \in {run[w].task} \cap TaskIds : task[s].status = "in_progress"
    BY <2>1
  <2> QED
    BY <1>4, <2>1, <2>2
<1>6. ASSUME NEW w \in Workers, run[w].pc # "idle", task' = Finished(w)
      PROVE  InBudget(task'[t])
  <2>1. /\ task[t].status = "in_progress"
        /\ task'[t] = [task[t] EXCEPT !.status = "finished", !.activeChild = NoTask]
    BY <1>0, <1>6 DEF Finished, Owns, OwnedBy, Row
  <2> QED
    BY <1>0, <2>1 DEF InBudget, Exists, RowStatuses, Rows
<1>7. ASSUME NEW w \in Workers, NEW c \in TaskIds, NEW n \in ChildRetries,
             run[w].pc # "idle", Spawned(w, c, n)
      PROVE  InBudget(task'[t])
  <2>1. n \in 1..MaxAttempts /\ run[w].task \in TaskIds /\ task[run[w].task].status = "in_progress"
    BY <1>0, <1>7 DEF Spawned, Owns, OwnedBy, Row
  <2>2. \/ task'[t] = NewRow(run[w].task, n)
        \/ task[t].status = "in_progress" /\ task'[t] = Blocked(task[t], c)
    <3>1. task' = [task EXCEPT ![run[w].task] = Blocked(task[run[w].task], c),
                               ![c] = NewRow(run[w].task, n)]
      BY <1>7 DEF Spawned
    <3>2. CASE t = c
      BY <1>0, <3>1, <3>2
    <3>3. CASE t # c
      <4>1. t = run[w].task
        BY <1>0, <2>1, <3>1, <3>3
      <4> QED
        BY <1>0, <2>1, <3>1, <3>3, <4>1
    <3> QED
      BY <3>2, <3>3
  <2> QED
    BY <1>0, <2>1, <2>2, NewRowInBudget, BlockedInBudget
<1>8. ASSUME NEW w \in Workers, Fail(w)
      PROVE  InBudget(task'[t])
  <2>1. task[t].status = "in_progress" /\ task'[t] = Failed(task[t], now)
    BY <1>0, <1>8 DEF Fail, Owns, OwnedBy, Row
  <2> QED
    BY <1>0, <2>1, FailedInBudget
<1>9. ASSUME NEW w \in Workers, task' = WakeParent(task, run[w].task, now)
      PROVE  InBudget(task'[t])
  <2>1. task'[t] = Woken(task[t], now)
    BY <1>0, <1>9 DEF WakeParent
  <2> QED
    BY <1>0, <2>1, WokenInBudget
<1>10. CASE FailStalled
  <2> DEFINE stalled == {s \in TaskIds : Stalled(task[s], now)}
  <2>1. \A s \in stalled \cap TaskIds : task[s].status = "in_progress"
    BY DEF Stalled
  <2>2. task' = TimeOut(task, stalled, now)
    BY <1>10 DEF FailStalled
  <2> HIDE DEF stalled
  <2> QED
    BY <1>4, <2>1, <2>2
<1>11. ~ResetFailed
  <2>1. \A s \in TaskIds : ~Retryable(s)
    BY <1>0 DEF Retryable, CanRetry, InBudget, Rows
  <2> QED
    BY <1>0, <2>1 DEF ResetFailed
<1>12. ASSUME NEW S, task' = Without(task, S)
       PROVE  InBudget(task'[t])
  <2>1. task'[t] \in {NoRow("deleted"), [task[t] EXCEPT !.parent = NoTask]}
    BY <1>12 DEF Without
  <2> QED
    BY <1>0, <2>1 DEF InBudget, Exists, RowStatuses, Rows, NoRow
<1>13. ASSUME NEW S, RestartFailed(S)
       PROVE  InBudget(task'[t])
  <2>1. task[t].status = "error" /\ task'[t] = [task[t] EXCEPT !.status = "pending", !.attempt = 0]
    BY <1>13 DEF RestartFailed
  <2> QED
    BY <1>0, <2>1 DEF InBudget, Exists, RowStatuses, Rows
<1>14. ASSUME NEW s \in TaskIds, NEW n \in Retries, NEW at \in {Null, now},
              UpdatePendingTask(s, n, at)
       PROVE  FALSE
  BY <1>14 DEF UpdatePendingTask
<1>15. task' # task
  OBVIOUS
<1>16. CASE UNCHANGED task
  BY <1>15, <1>16
<1>17. ASSUME NEW w \in Workers,
              PingAnswer(w) \/ FailIfStalled(w) \/ Finish(w) \/ SpawnAny(w) \/ Fail(w) \/ Wake(w)
       PROVE  InBudget(task'[t])
  BY <1>3, <1>5, <1>6, <1>7, <1>8, <1>9, <1>17
     DEF PingAnswer, FailIfStalled, Finish, SpawnAny, Spawn, Wake
<1>18. ASSUME NEW w \in Workers, Unanswered(w)
       PROVE  InBudget(task'[t])
  BY <1>3, <1>5, <1>6, <1>7, <1>9, <1>18 DEF Unanswered
<1> QED
  BY <1>1, <1>2, <1>10, <1>11, <1>12, <1>13, <1>14, <1>16, <1>17, <1>18
     DEF Next, WorkerStep, vars, Tick, ReadChild, Ping, Return, Throw, SpawnLost, Rejected, Crash,
         ClearFinished, ClearFailed, DeleteTask

(* As long as no operator lowers max_attempts of a pending task, attempts  *)
(* are accounted for exactly.                                              *)
THEOREM RetryBudgetCorrect ==
    ASSUME "update" \notin AdminOps
    PROVE  Spec => []RetryBudget
<1>1. Init => BudgetInv
  BY TypeInvInit DEF Init, BudgetInv, BudgetRows, InBudget, NoRow, Exists, RowStatuses, TypeInv, TypeOK
<1>2. TypeInv /\ TypeInv' /\ BudgetInv /\ [Next]_vars => BudgetInv'
  BY BudgetStep DEF BudgetInv, BudgetRows, TypeInv, TypeOK
<1>3. BudgetInv => RetryBudget
  BY DEF BudgetInv, BudgetRows, InBudget, RetryBudget
<1> QED
  BY <1>1, <1>2, <1>3, TypeInvariance, PTL DEF Spec
=============================================================================
