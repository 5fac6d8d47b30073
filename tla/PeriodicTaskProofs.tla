------------------------- MODULE PeriodicTaskProofs -------------------------
(***************************************************************************)
(* Theorems about PeriodicTask, for every number of worker slots, every    *)
(* set of periods and retries, any timeout and backoff.                    *)
(***************************************************************************)
EXTENDS PeriodicTask, TaskTableProofs, TLAPS

(* Types, with what types do not say: a row in progress was counted and    *)
(* has a start time, a row that was scheduled has a schedule and a slot to *)
(* count from, and a row in error waits for nothing.                       *)
Columns == [ status : {"unused", "pending", "in_progress", "error"},
             attempt : 0..MaxAttempts, maxAttempts : 0..MaxAttempts,
             started : Times, hb : {Null}, startAfter : Times,
             initialStart : Times, schedule : Schedules \cup {NoSchedule} ]

SeriesRows ==
    { row \in Columns :
        /\ row.status = "in_progress" => row.attempt >= 1 /\ row.started \in Nat
        /\ row.status # "unused" => row.initialStart \in Nat /\ row.schedule \in Schedules
        /\ row.status = "error" => row.startAfter = Null }

GoodCalls ==
    { r \in [pc : Phases, token : Times, at : Times] :
        /\ r.pc # "idle" => r.token \in Nat
        /\ r.pc \in {"expired", "rescheduling"} => r.at \in Nat }

TypeInv ==
    /\ now \in Origin..MaxTime
    /\ series \in SeriesRows
    /\ run \in [Workers -> GoodCalls]
    /\ lastDone \in Times /\ slot \in Times

LEMMA IntervalType ==
    ASSUME NEW s \in Schedules \cup {NoSchedule}
    PROVE  s.interval \in Nat \ {0}
<1>1. CASE s \in Schedules
  BY <1>1, PeriodicAssumption DEF Schedules
<1>2. CASE s = NoSchedule
  BY <1>2 DEF NoSchedule
<1> QED
  BY <1>1, <1>2

(* The rounding of the slots: the first multiple of a period after an      *)
(* instant is after it, by a period at most.                               *)
LEMMA SlotBounds ==
    ASSUME NEW x \in Int, NEW every \in Nat \ {0}
    PROVE  LET next == (x \div every + 1) * every
           IN  next \in Int /\ x < next /\ next <= x + every /\ (x \in Nat => next \in Nat)
<1>1. x \div every \in Int /\ (x \div every) * every <= x /\ x < (x \div every) * every + every
  OBVIOUS
<1>2. (x \div every + 1) * every = (x \div every) * every + every
  BY <1>1
<1>3. (x \div every) * every \in Int
  BY <1>1
<1> QED
  BY <1>1, <1>2, <1>3

LEMMA SlotAligned ==
    ASSUME NEW x \in Int, NEW every \in Nat \ {0}
    PROVE  ((x \div every + 1) * every) % every = 0
<1>1. x \div every + 1 \in Int
  OBVIOUS
<1>2. \A n \in Int : (n * every) % every = 0
  OBVIOUS
<1> QED
  BY <1>1, <1>2

(* A tick after an instant that is not before its origin. *)
LEMMA TickAfterType ==
    ASSUME NEW origin \in Nat, NEW every \in Nat \ {0}, NEW base \in Nat \cup {Null},
           base >= origin \/ origin = 0
    PROVE  TickAfter(origin, every, base) \in Nat
<1>1. base - origin \in Int /\ base - origin >= -1
  BY DEF Null
<1>2. (((base - origin) \div every) + 1) * every \in Int
  BY <1>1, SlotBounds
<1>3. base - origin < (((base - origin) \div every) + 1) * every
  BY <1>1, SlotBounds
<1> QED
  BY <1>1, <1>2, <1>3 DEF TickAfter

LEMMA NextStartType ==
    ASSUME NEW row \in SeriesRows, row.status = "in_progress", NEW at \in Nat
    PROVE  NextStart(row, at) \in Nat
<1>1. /\ row.initialStart \in Nat /\ row.startAfter \in Nat \cup {Null}
      /\ row.schedule \in [ repeatType : RepeatTypes, interval : Intervals, strategy : Strategies ]
  BY DEF SeriesRows, Columns, Schedules, Times
<1>2. row.schedule.interval \in Nat \ {0} /\ row.schedule.repeatType \in RepeatTypes
      /\ row.schedule.strategy \in Strategies
  BY <1>1, PeriodicAssumption
<1>3. StartDate(row) \in Nat
  BY <1>1 DEF StartDate, Epoch
<1>4. NextSlot(row, at) \in Nat
  <2>1. CASE at < row.initialStart
    BY <1>1, <1>2, <2>1 DEF NextSlot
  <2>2. CASE at >= row.initialStart
    BY <1>1, <1>2, <2>2, TickAfterType DEF NextSlot
  <2> QED
    BY <1>1, <2>1, <2>2
<1>5. TickAfter(Epoch, row.schedule.interval,
                IF row.schedule.strategy = "catch_up" THEN StartDate(row) ELSE at) \in Nat
  BY <1>2, <1>3, TickAfterType DEF Epoch
<1> QED
  BY <1>2, <1>3, <1>4, <1>5 DEF NextStart, RepeatTypes, Strategies

LEMMA SlotAfterType ==
    ASSUME NEW row \in SeriesRows, row.status = "in_progress", slot \in Times, now \in Nat,
           NEW next \in Nat
    PROVE  SlotAfter(row, next) \in Nat
<1>1. row.schedule \in [ repeatType : RepeatTypes, interval : Intervals, strategy : Strategies ]
  BY DEF SeriesRows, Columns, Schedules
<1>2. row.schedule.interval \in Nat \ {0}
  BY <1>1, PeriodicAssumption
<1>3. TickAfter(Epoch, row.schedule.interval, slot) \in Nat
  BY <1>2, TickAfterType DEF Epoch, Times
<1> QED
  BY <1>2, <1>3 DEF SlotAfter, Times, Null

(* A failure leaves a row, and one that is not yet regular: it was counted *)
(* if it is pending, and waits for nothing if it is in error.              *)
LEMMA FailedSeries ==
    ASSUME NEW row \in SeriesRows, row.status = "in_progress", NEW at \in Nat
    PROVE  /\ Failed(row, at) \in SeriesRows
           /\ Failed(row, at).status \in {"pending", "error"}
           /\ Failed(row, at).attempt >= 1
           /\ Failed(row, at).schedule = row.schedule
<1>1. row.attempt \in 1..MaxAttempts
  BY TableAssumption DEF SeriesRows, Columns
<1>2. at + RetryDelay(row.attempt) \in Nat
  BY <1>1, RetryDelayType
<1> QED
  BY <1>1, <1>2 DEF Failed, SeriesRows, Columns, Times, Null

(* So do a restart, a reschedule and a fetch. *)
LEMMA SeriesWrites ==
    ASSUME NEW row \in SeriesRows, row.status # "unused", NEW t \in Nat
    PROVE  /\ [row EXCEPT !.status = "pending", !.attempt = 0] \in SeriesRows
           /\ [row EXCEPT !.status = "pending", !.attempt = 0, !.startAfter = t] \in SeriesRows
           /\ CanRetry(row) => Taken(row, t) \in SeriesRows
<1>1. row \in Columns /\ 0 \in 0..MaxAttempts
  BY TableAssumption DEF SeriesRows
<1>2. [row EXCEPT !.status = "pending", !.attempt = 0] \in Columns
  BY <1>1 DEF Columns
<1>3. [row EXCEPT !.status = "pending", !.attempt = 0, !.startAfter = t] \in Columns
  BY <1>1 DEF Columns, Times
<1>4. ASSUME CanRetry(row)
      PROVE  Taken(row, t) \in SeriesRows
  <2>1. row.attempt + 1 \in 1..MaxAttempts /\ 1..MaxAttempts \subseteq 0..MaxAttempts
    BY <1>1, <1>4, TableAssumption DEF CanRetry, Columns
  <2>2. Taken(row, t) = [row EXCEPT !.status = "in_progress", !.started = t, !.hb = Null,
                                    !.attempt = row.attempt + 1]
    BY <1>1 DEF Taken, Columns
  <2>3. Taken(row, t) \in Columns
    BY <1>1, <2>1, <2>2 DEF Columns, Times
  <2>4. /\ Taken(row, t).status = "in_progress" /\ Taken(row, t).started = t
        /\ Taken(row, t).attempt >= 1
        /\ Taken(row, t).initialStart = row.initialStart /\ Taken(row, t).schedule = row.schedule
    BY <1>1, <2>1, <2>2 DEF Columns
  <2> QED
    BY <2>3, <2>4 DEF SeriesRows
<1> QED
  BY <1>1, <1>2, <1>3, <1>4 DEF SeriesRows, Columns

LEMMA TypeInvNext == TypeInv /\ [Next]_vars => TypeInv'
<1> SUFFICES ASSUME TypeInv, [Next]_vars
             PROVE  TypeInv'
  OBVIOUS
<1> USE DEF TypeInv
<1>0. now \in Nat /\ Idle \in GoodCalls
  BY PeriodicAssumption DEF GoodCalls, Idle, Phases, Times, Null
<1>1. CASE UNCHANGED vars
  BY <1>1 DEF vars
<1>2. CASE Tick
  BY <1>2, PeriodicAssumption DEF Tick
<1>3. ASSUME NEW s \in Schedules, NEW start \in {now, now + 1}, NEW n \in Retries,
             NEW r \in BOOLEAN, SchedulePeriodic(s, start, n, r)
      PROVE  TypeInv'
  <2>1. Scheduled(s, start, n) \in SeriesRows /\ Scheduled(s, start, n).startAfter \in Times
    BY <1>0, PeriodicAssumption, TableAssumption DEF Scheduled, SeriesRows, Columns, Times
  <2> QED
    BY <1>3, <2>1 DEF SchedulePeriodic, Redefine, Times
<1>4. ASSUME NEW s \in Schedules, NEW start \in {now, now + 1}, NEW initial \in {now, now + 1},
             UpdatePendingPeriodicSchedule(s, start, initial)
      PROVE  TypeInv'
  <2>1. series' \in SeriesRows /\ slot' \in Times
    <3>1. /\ series.status = "pending" /\ slot' = series'.startAfter
          /\ series' = [series EXCEPT !.startAfter = start, !.initialStart = initial, !.schedule = s]
      BY <1>4 DEF UpdatePendingPeriodicSchedule, Redefine
    <3>2. start \in Nat /\ initial \in Nat
      BY <1>0
    <3>3. series' \in Columns
      BY <3>1, <3>2 DEF SeriesRows, Columns, Times
    <3> QED
      BY <3>1, <3>2, <3>3 DEF SeriesRows, Columns, Times
  <2> QED
    BY <1>4, <2>1 DEF UpdatePendingPeriodicSchedule, Redefine, Times
<1>5. CASE RestartFailed
  BY <1>0, <1>5, SeriesWrites DEF RestartFailed
<1>6. ASSUME NEW w \in Workers, Fetch(w)
      PROVE  TypeInv'
  <2>1. Taken(series, now) \in SeriesRows
    BY <1>0, <1>6, SeriesWrites DEF Fetch, Due, CanRetry
  <2>2. [pc |-> "processing", token |-> now, at |-> Null] \in GoodCalls
    BY <1>0 DEF GoodCalls, Phases, Times
  <2> QED
    BY <1>6, <2>1, <2>2 DEF Fetch
<1>7. ASSUME NEW w \in Workers, Return(w)
      PROVE  TypeInv'
  <2>1. [run[w] EXCEPT !.at = now, !.pc = IF now - run[w].token > Timeout THEN "expired"
                                                                         ELSE "rescheduling"] \in GoodCalls
    BY <1>0, <1>7 DEF Return, GoodCalls, Phases, Times
  <2> QED
    BY <1>7, <2>1 DEF Return
<1>8. ASSUME NEW w \in Workers, Throw(w)
      PROVE  TypeInv'
  <2>1. [run[w] EXCEPT !.pc = "failing"] \in GoodCalls
    BY <1>8 DEF Throw, GoodCalls, Phases
  <2> QED
    BY <1>8, <2>1 DEF Throw
<1>9. ASSUME NEW w \in Workers, Reschedule(w)
      PROVE  TypeInv'
  <2>1. run' \in [Workers -> GoodCalls] /\ now' = now
    BY <1>0, <1>9 DEF Reschedule, Done
  <2>2. CASE ~Owns(w)
    BY <1>9, <2>1, <2>2 DEF Reschedule
  <2>3. CASE Owns(w)
    <3> DEFINE next == NextStart(series, run[w].at)
    <3>1. series.status = "in_progress" /\ run[w].at \in Nat
      BY <1>9, <2>3 DEF Owns, OwnedBy, Reschedule, GoodCalls
    <3>2. next \in Nat
      BY <3>1, NextStartType
    <3>3. SlotAfter(series, next) \in Nat
      BY <1>0, <3>1, <3>2, SlotAfterType
    <3> HIDE DEF next
    <3>4. [series EXCEPT !.status = "pending", !.attempt = 0, !.startAfter = next] \in SeriesRows
      BY <3>1, <3>2, SeriesWrites
    <3>5. /\ series' = [series EXCEPT !.status = "pending", !.attempt = 0, !.startAfter = next]
          /\ lastDone' = run[w].at /\ slot' = SlotAfter(series, next)
      BY <1>9, <2>3 DEF Reschedule, next
    <3> QED
      BY <2>1, <3>1, <3>3, <3>4, <3>5 DEF Times
  <2> QED
    BY <2>2, <2>3
<1>10. ASSUME NEW w \in Workers, Fail(w) \/ FailIfStalled(w)
       PROVE  TypeInv'
  <2>1. series' = series \/ \E at \in Nat : series.status = "in_progress" /\ series' = Failed(series, at)
    BY <1>0, <1>10 DEF Fail, FailIfStalled, Owns, OwnedBy, GoodCalls
  <2>2. series' \in SeriesRows
    BY <2>1, FailedSeries
  <2> QED
    BY <1>0, <1>10, <2>2 DEF Fail, FailIfStalled, Done
<1>11. ASSUME NEW w \in Workers, Crash(w)
       PROVE  TypeInv'
  BY <1>0, <1>11 DEF Crash, Done
<1>12. CASE FailStalled
  BY <1>0, <1>12, FailedSeries DEF FailStalled, Stalled
<1> QED
  BY <1>1, <1>2, <1>3, <1>4, <1>5, <1>6, <1>7, <1>8, <1>9, <1>10, <1>11, <1>12 DEF Next, WorkerStep

THEOREM TypeInvariance == Spec => []TypeInv
<1>1. Init => TypeInv
  <2> SUFFICES ASSUME Init
               PROVE  TypeInv
    OBVIOUS
  <2>1. series \in SeriesRows
    BY TableAssumption DEF Init, SeriesRows, Columns, Times
  <2>2. Idle \in GoodCalls /\ Null \in Times
    BY DEF Idle, GoodCalls, Phases, Times
  <2> QED
    BY <2>1, <2>2, PeriodicAssumption DEF Init, TypeInv
<1> QED
  BY <1>1, TypeInvNext, PTL DEF Spec

(* Every column stays in its domain: the computed dates of all types of    *)
(* schedules and strategies are dates.                                     *)
THEOREM TypeCorrect == Spec => []TypeOK
<1>1. TypeInv => TypeOK
  BY DEF TypeInv, TypeOK, SeriesRows, Columns, GoodCalls
<1> QED
  BY <1>1, TypeInvariance, PTL

-----------------------------------------------------------------------------
(* Whose row it is *)

(* A live attempt that lost the row started before now, so that no two     *)
(* live attempts have the same start time, the token of the guards.        *)
OwnerInv ==
    /\ \A w \in Workers : run[w].pc # "idle" =>
         run[w].token <= now /\ (Holds(w) \/ run[w].token < now)
    /\ \A v, w \in Workers : run[v].pc # "idle" /\ run[w].pc # "idle" /\ v # w
                               => run[v].token # run[w].token

(* What a row in progress goes through: only its owner, or a time-out,     *)
(* changes it.                                                             *)
LEMMA InProgressChanges ==
    ASSUME TypeInv, Next, series.status = "in_progress", series' # series
    PROVE  \/ Stalled(series, now) /\ run' = run
           \/ \E w \in Workers : Owns(w) /\ run[w].pc # "idle" /\ run' = [run EXCEPT ![w] = Idle]
<1>1. CASE Tick
  BY <1>1 DEF Tick
<1>2. ASSUME NEW s \in Schedules, NEW start, NEW n, NEW r, SchedulePeriodic(s, start, n, r)
      PROVE  FALSE
  BY <1>2 DEF SchedulePeriodic
<1>3. ASSUME NEW s \in Schedules, NEW start, NEW initial,
             UpdatePendingPeriodicSchedule(s, start, initial)
      PROVE  FALSE
  BY <1>3 DEF UpdatePendingPeriodicSchedule
<1>4. CASE RestartFailed
  BY <1>4 DEF RestartFailed
<1>5. ASSUME NEW w \in Workers, WorkerStep(w)
      PROVE  Owns(w) /\ run[w].pc # "idle" /\ run' = [run EXCEPT ![w] = Idle]
  BY <1>5 DEF WorkerStep, Fetch, Due, Return, Throw, Reschedule, Fail, FailIfStalled, Crash, Done
<1>6. CASE FailStalled
  BY <1>6 DEF FailStalled
<1> QED
  BY <1>1, <1>2, <1>3, <1>4, <1>5, <1>6 DEF Next

(* What a step does to the attempts: nothing, or one of them goes on with  *)
(* the token it has, or ends, or takes the row.                            *)
LEMMA RunChanges ==
    ASSUME TypeInv, [Next]_vars
    PROVE  \/ run' = run
           \/ \E w \in Workers :
                 /\ run[w].pc # "idle"
                 /\ run' = [run EXCEPT ![w] = run'[w]]
                 /\ run'[w].token = run[w].token \/ run'[w] = Idle
                 /\ now' = now
           \/ \E w \in Workers :
                 /\ run[w].pc = "idle" /\ now' = now
                 /\ series.status = "pending" /\ series'.status = "in_progress"
                 /\ series'.started = now
                 /\ run' = [run EXCEPT ![w] = run'[w]] /\ run'[w].token = now
                 /\ run'[w].pc # "idle"
<1> run \in [Workers -> GoodCalls] /\ series \in Columns
  BY DEF TypeInv, SeriesRows
<1>1. ASSUME NEW w \in Workers, Fetch(w)
      PROVE  /\ run[w].pc = "idle" /\ now' = now
             /\ series.status = "pending" /\ series'.status = "in_progress"
             /\ series'.started = now
             /\ run' = [run EXCEPT ![w] = run'[w]] /\ run'[w].token = now
             /\ run'[w].pc # "idle"
  BY <1>1 DEF Fetch, Due, Taken, Columns
<1>2. ASSUME NEW w \in Workers, Return(w) \/ Throw(w)
      PROVE  /\ run[w].pc # "idle" /\ run' = [run EXCEPT ![w] = run'[w]]
             /\ run'[w].token = run[w].token /\ now' = now
  BY <1>2 DEF Return, Throw, GoodCalls
<1>3. ASSUME NEW w \in Workers, Reschedule(w) \/ Fail(w) \/ FailIfStalled(w) \/ Crash(w)
      PROVE  /\ run[w].pc # "idle" /\ run' = [run EXCEPT ![w] = run'[w]]
             /\ run'[w] = Idle /\ now' = now
  BY <1>3 DEF Reschedule, Fail, FailIfStalled, Crash, Done
<1>4. ASSUME ~ \E w \in Workers : WorkerStep(w)
      PROVE  run' = run
  BY <1>4 DEF Next, vars, Tick, SchedulePeriodic, UpdatePendingPeriodicSchedule, Redefine,
              RestartFailed, FailStalled
<1> QED
  BY <1>1, <1>2, <1>3, <1>4 DEF WorkerStep

LEMMA OwnerInvNext == TypeInv /\ OwnerInv /\ [Next]_vars => OwnerInv'
<1> SUFFICES ASSUME TypeInv, OwnerInv, [Next]_vars
             PROVE  OwnerInv'
  OBVIOUS
<1>1. run \in [Workers -> GoodCalls] /\ now \in Nat
  BY PeriodicAssumption DEF TypeInv
<1>2. now' = now \/ now' = now + 1
  BY DEF Next, vars, Tick, SchedulePeriodic, UpdatePendingPeriodicSchedule, Redefine,
         RestartFailed, FailStalled, WorkerStep, Fetch, Return, Throw, Reschedule, Fail,
         FailIfStalled, Crash
<1>3. ASSUME NEW w \in Workers, run[w].pc # "idle"
      PROVE  run[w].token \in Nat /\ run[w].token <= now /\ (Holds(w) \/ run[w].token < now)
  BY <1>1, <1>3 DEF OwnerInv, GoodCalls
<1>4. ASSUME NEW w \in Workers, run[w].pc # "idle", Holds(w)
      PROVE  \/ run'[w] = Idle \/ run[w].token < now
             \/ series'.status = "in_progress" /\ series'.started = run[w].token
  <2>1. CASE series' = series
    BY <1>4, <2>1 DEF Holds
  <2>2. CASE Stalled(series, now)
    <3>1. series.hb = Null /\ series.started = run[w].token /\ Timeout \in Nat
      BY <1>4, TableAssumption DEF TypeInv, SeriesRows, Columns, Holds
    <3> QED
      BY <1>1, <1>3, <1>4, <2>2, <3>1 DEF Stalled, LastActivity
  <2>3. CASE series' # series /\ ~Stalled(series, now)
    <3>1. Next
      BY <2>3 DEF vars
    <3>2. PICK v \in Workers : Owns(v) /\ run[v].pc # "idle" /\ run' = [run EXCEPT ![v] = Idle]
      BY <1>4, <2>3, <3>1, InProgressChanges DEF Holds
    <3>3. v = w
      BY <1>4, <3>2 DEF OwnerInv, Holds, Owns, OwnedBy
    <3> QED
      BY <1>1, <3>2, <3>3
  <2> QED
    BY <2>1, <2>2, <2>3
<1>5. ASSUME NEW w \in Workers, run'[w].pc # "idle"
      PROVE  \/ run[w].pc # "idle" /\ run'[w].token = run[w].token
             \/ /\ run[w].pc = "idle" /\ run'[w].token = now /\ now' = now
                /\ series.status = "pending"
                /\ series'.status = "in_progress" /\ series'.started = now
                /\ \A v \in Workers \ {w} : run'[v] = run[v]
  BY <1>1, <1>5, RunChanges DEF Idle
<1>6. ASSUME NEW w \in Workers, run'[w].pc # "idle"
      PROVE  run'[w].token <= now' /\ (Holds(w)' \/ run'[w].token < now')
  <2>1. CASE run[w].pc # "idle" /\ run'[w].token = run[w].token
    BY <1>1, <1>2, <1>3, <1>4, <1>6, <2>1 DEF Holds, Idle
  <2>2. CASE run'[w].token = now /\ now' = now /\ series'.status = "in_progress" /\ series'.started = now
    BY <1>1, <1>6, <2>2 DEF Holds
  <2> QED
    BY <1>5, <1>6, <2>1, <2>2
<1>7. ASSUME NEW v \in Workers, NEW w \in Workers, v # w,
             run'[v].pc # "idle", run'[w].pc # "idle", run[v].pc # "idle"
      PROVE  run'[v].token # run'[w].token
  <2>1. run'[v].token = run[v].token
    BY <1>5, <1>7
  <2>2. CASE run[w].pc # "idle" /\ run'[w].token = run[w].token
    BY <1>7, <2>1, <2>2 DEF OwnerInv
  <2>3. CASE run'[w].token = now /\ series.status = "pending"
    BY <1>1, <1>3, <1>7, <2>1, <2>3 DEF Holds
  <2> QED
    BY <1>5, <1>7, <2>2, <2>3
<1>8. ASSUME NEW v \in Workers, NEW w \in Workers, v # w,
             run'[v].pc # "idle", run'[w].pc # "idle", run[v].pc = "idle"
      PROVE  run'[v].token # run'[w].token
  <2>1. run[w].pc # "idle"
    BY <1>5, <1>8
  <2> QED
    BY <1>7, <1>8, <2>1
<1> QED
  BY <1>6, <1>7, <1>8 DEF OwnerInv

LEMMA Ownership == Spec => []OwnerInv
<1>1. Init => OwnerInv
  BY DEF Init, OwnerInv, Idle
<1> QED
  BY <1>1, OwnerInvNext, TypeInvariance, PTL DEF Spec

(* Only the attempt that owns the row changes it, whatever the user's code *)
(* of an older one does and however late its statements are.               *)
THEOREM StaleAttemptKeepsTimerCorrect == Spec => StaleAttemptKeepsTimer
<1>1. ASSUME TypeInv, [Next]_vars, NEW w \in Workers, run[w].pc # "idle", ~Holds(w),
             run'[w] # run[w]
      PROVE  series' = series
  <2>1. CASE series.status = "in_progress"
    <3>1. SUFFICES ASSUME series' # series
                   PROVE  FALSE
      OBVIOUS
    <3>2. PICK v \in Workers : Owns(v) /\ run[v].pc # "idle" /\ run' = [run EXCEPT ![v] = Idle]
      BY <1>1, <2>1, <3>1, InProgressChanges DEF vars
    <3> QED
      BY <1>1, <3>2 DEF TypeInv, Owns, OwnedBy, Holds
  <2>2. CASE series.status # "in_progress"
    <3>1. PICK v \in Workers : WorkerStep(v)
      BY <1>1 DEF Next, vars, Tick, SchedulePeriodic, UpdatePendingPeriodicSchedule, Redefine,
                  RestartFailed, FailStalled
    <3>2. v = w
      BY <1>1, <3>1 DEF TypeInv, WorkerStep, Fetch, Return, Throw, Reschedule, Fail,
                        FailIfStalled, Crash, Done
    <3> QED
      BY <1>1, <2>2, <3>1, <3>2 DEF WorkerStep, Fetch, Return, Throw, Reschedule, Fail,
                                     FailIfStalled, Crash, Owns, OwnedBy
  <2> QED
    BY <2>1, <2>2
<1>2. TypeInv /\ [Next]_vars =>
        [\A w \in Workers : run[w].pc # "idle" /\ ~Holds(w) /\ run'[w] # run[w]
                             => series' = series]_vars
  BY <1>1
<1> QED
  BY <1>2, TypeInvariance, PTL DEF Spec, StaleAttemptKeepsTimer

(* Two attempts never have the same token, so that what one of them ends   *)
(* is never the attempt of the other; the other statements leave a row in  *)
(* progress alone.                                                         *)
THEOREM RunningAttemptUndisturbedCorrect == Spec => RunningAttemptUndisturbed
<1>1. ASSUME TypeInv, OwnerInv, [Next]_vars, NEW w \in Workers, Holds(w), run'[w] = run[w],
             series' # series
      PROVE  Stalled(series, now)
  <2>1. SUFFICES ASSUME ~Stalled(series, now)
                 PROVE  FALSE
    OBVIOUS
  <2>2. PICK v \in Workers : Owns(v) /\ run[v].pc # "idle" /\ run' = [run EXCEPT ![v] = Idle]
    BY <1>1, <2>1, InProgressChanges DEF vars, Holds
  <2>3. v = w
    BY <1>1, <2>2 DEF OwnerInv, Holds, Owns, OwnedBy
  <2> QED
    BY <1>1, <2>2, <2>3 DEF TypeInv, Idle, Holds
<1>2. TypeInv /\ OwnerInv /\ [Next]_vars =>
        [\A w \in Workers : Holds(w) /\ run'[w] = run[w] /\ series' # series
                             => Stalled(series, now)]_vars
  BY <1>1
<1> QED
  BY <1>2, TypeInvariance, Ownership, PTL DEF Spec, RunningAttemptUndisturbed

-----------------------------------------------------------------------------
(* When the next run may start *)

(* Until the delay is over, the row waits for its end: there is no retry   *)
(* and no restart before it.                                               *)
DelayInv ==
    series.schedule.repeatType = "fixed_delay" /\ lastDone # Null =>
        \/ now >= lastDone + series.schedule.interval
        \/ /\ series.status = "pending" /\ series.startAfter \in Nat
           /\ series.startAfter >= lastDone + series.schedule.interval

(* The three ways a step treats the schedule: it defines it anew, it       *)
(* completes a run, or it keeps it.                                        *)
Completes(w) ==
    /\ run[w].at \in Nat /\ series.status = "in_progress"
    /\ NextStart(series, run[w].at) \in Nat
    /\ lastDone' = run[w].at /\ now' = now
    /\ series' = [series EXCEPT !.status = "pending", !.attempt = 0,
                                !.startAfter = NextStart(series, run[w].at)]

KeepsSchedule ==
    /\ lastDone' = lastDone /\ now' >= now
    /\ series'.schedule = series.schedule /\ series'.initialStart = series.initialStart
    /\ \/ series'.status = series.status /\ series'.attempt = series.attempt
           /\ series'.startAfter = series.startAfter
       \/ series.status = "in_progress" /\ series'.attempt >= 1
       \/ series.status = "error" /\ series'.startAfter = Null
       \/ Due(series, now) /\ series'.status = "in_progress" /\ now' = now

LEMMA ScheduleChanges ==
    ASSUME TypeInv, [Next]_vars
    PROVE  \/ lastDone' = Null
           \/ \E w \in Workers : Completes(w)
           \/ KeepsSchedule
<1> now \in Nat /\ series \in SeriesRows /\ series \in Columns
  BY PeriodicAssumption DEF TypeInv, SeriesRows
<1>1. CASE UNCHANGED vars
  BY <1>1 DEF vars, KeepsSchedule
<1>2. CASE Tick
  BY <1>2 DEF Tick, KeepsSchedule
<1>3. ASSUME NEW s \in Schedules, NEW start, NEW n, NEW r, SchedulePeriodic(s, start, n, r)
      PROVE  lastDone' = Null
  BY <1>3 DEF SchedulePeriodic, Redefine
<1>4. ASSUME NEW s \in Schedules, NEW start, NEW initial,
             UpdatePendingPeriodicSchedule(s, start, initial)
      PROVE  lastDone' = Null
  BY <1>4 DEF UpdatePendingPeriodicSchedule, Redefine
<1>5. ASSUME RestartFailed
      PROVE  KeepsSchedule
  <2>1. series.status = "error" /\ series.startAfter = Null
    BY <1>5 DEF RestartFailed, SeriesRows
  <2>2. series'.startAfter = Null /\ series'.schedule = series.schedule
        /\ series'.initialStart = series.initialStart
    BY <1>5, <2>1 DEF RestartFailed, Columns
  <2> QED
    BY <1>5, <2>1, <2>2 DEF RestartFailed, KeepsSchedule
<1>6. ASSUME NEW w \in Workers, Fetch(w)
      PROVE  KeepsSchedule
  <2>1. /\ series'.schedule = series.schedule /\ series'.initialStart = series.initialStart
        /\ series'.status = "in_progress"
    BY <1>6 DEF Fetch, Taken, Columns
  <2> QED
    BY <1>6, <2>1 DEF Fetch, KeepsSchedule
<1>7. ASSUME NEW w \in Workers, Return(w) \/ Throw(w) \/ Crash(w)
      PROVE  KeepsSchedule
  BY <1>7 DEF Return, Throw, Crash, KeepsSchedule
<1>8. ASSUME NEW at \in Nat, series.status = "in_progress", series' = Failed(series, at),
             lastDone' = lastDone, now' = now
      PROVE  KeepsSchedule
  <2>1. Failed(series, at).initialStart = series.initialStart
    BY DEF Failed, Columns
  <2> QED
    BY <1>8, <2>1, FailedSeries DEF KeepsSchedule
<1>9. ASSUME NEW w \in Workers, Fail(w) \/ FailIfStalled(w)
      PROVE  KeepsSchedule
  <2>1. /\ lastDone' = lastDone /\ now' = now
        /\ \/ series' = series
           \/ series.status = "in_progress" /\ \E at \in Nat : series' = Failed(series, at)
    BY <1>9 DEF Fail, FailIfStalled, Owns, OwnedBy, TypeInv, GoodCalls
  <2> QED
    BY <1>8, <2>1 DEF KeepsSchedule
<1>10. ASSUME FailStalled
       PROVE  KeepsSchedule
  BY <1>10, <1>8 DEF FailStalled, Stalled
<1>11. ASSUME NEW w \in Workers, Reschedule(w), ~Owns(w)
       PROVE  KeepsSchedule
  BY <1>11 DEF Reschedule, KeepsSchedule
<1>12. ASSUME NEW w \in Workers, Reschedule(w), Owns(w)
       PROVE  Completes(w)
  <2>1. run[w].at \in Nat /\ series.status = "in_progress"
    BY <1>12 DEF Reschedule, Owns, OwnedBy, TypeInv, GoodCalls
  <2>2. NextStart(series, run[w].at) \in Nat
    BY <2>1, NextStartType
  <2> QED
    BY <1>12, <2>1, <2>2 DEF Reschedule, Completes
<1> QED
  BY <1>1, <1>2, <1>3, <1>4, <1>5, <1>6, <1>7, <1>9, <1>10, <1>11, <1>12 DEF Next, WorkerStep

LEMMA DelayInvNext == TypeInv /\ DelayInv /\ [Next]_vars => DelayInv'
<1> SUFFICES ASSUME TypeInv, DelayInv, [Next]_vars
             PROVE  DelayInv'
  OBVIOUS
<1>1. /\ now \in Nat /\ now' \in Nat /\ lastDone \in Times /\ series \in Columns
      /\ series' \in Columns
  BY TypeInvNext, PeriodicAssumption DEF TypeInv, SeriesRows
<1>2. CASE lastDone' = Null
  BY <1>2 DEF DelayInv
<1>3. ASSUME NEW w \in Workers, Completes(w), series.schedule.repeatType = "fixed_delay"
      PROVE  DelayInv'
  <2>1. NextStart(series, run[w].at) = run[w].at + series.schedule.interval
    BY <1>3 DEF NextStart
  <2>2. series.status = "in_progress" /\ series \in SeriesRows
    BY <1>3 DEF Completes, TypeInv
  <2>3. series.schedule.interval \in Nat
    BY <2>2, PeriodicAssumption DEF SeriesRows, Schedules
  <2>4. /\ series'.status = "pending" /\ series'.startAfter = run[w].at + series.schedule.interval
        /\ series'.schedule = series.schedule /\ lastDone' = run[w].at /\ run[w].at \in Nat
    BY <1>1, <1>3, <2>1 DEF Completes, Columns
  <2> QED
    BY <2>3, <2>4 DEF DelayInv
<1>4. ASSUME NEW w \in Workers, Completes(w), series.schedule.repeatType # "fixed_delay"
      PROVE  DelayInv'
  <2>1. series'.schedule = series.schedule
    BY <1>1, <1>4 DEF Completes, Columns
  <2> QED
    BY <1>4, <2>1 DEF DelayInv
<1>5. CASE KeepsSchedule /\ lastDone # Null /\ series.schedule.repeatType = "fixed_delay"
  <2>1. series.schedule.interval \in Nat /\ lastDone \in Nat
    BY <1>1, <1>5, IntervalType DEF Columns, Times
  <2>2. CASE now >= lastDone + series.schedule.interval
    BY <1>1, <1>5, <2>1, <2>2 DEF KeepsSchedule, DelayInv
  <2>3. CASE /\ series.status = "pending" /\ series.startAfter \in Nat
             /\ series.startAfter >= lastDone + series.schedule.interval
    BY <1>1, <1>5, <2>1, <2>3 DEF KeepsSchedule, DelayInv, Due, Null
  <2> QED
    BY <1>5, <2>2, <2>3 DEF DelayInv
<1>6. CASE KeepsSchedule /\ ~(lastDone # Null /\ series.schedule.repeatType = "fixed_delay")
  BY <1>6 DEF KeepsSchedule, DelayInv
<1> QED
  BY <1>2, <1>3, <1>4, <1>5, <1>6, ScheduleChanges

(* A fixed delay is kept whatever happens to the row between two runs.     *)
THEOREM DelayRespectedCorrect == Spec => DelayRespected
<1>1. Init => DelayInv
  BY DEF Init, DelayInv
<1>2. ASSUME TypeInv, DelayInv, [Next]_vars, series.schedule.repeatType = "fixed_delay",
             lastDone # Null, series.status # "in_progress", series'.status = "in_progress"
      PROVE  now >= lastDone + series.schedule.interval
  <2>0. series \in Columns /\ series' # series
    BY <1>2 DEF TypeInv, SeriesRows
  <2>1. \E w \in Workers : Fetch(w)
    <3>1. ASSUME NEW s \in Schedules, NEW start, NEW n, NEW r, SchedulePeriodic(s, start, n, r)
          PROVE  FALSE
      BY <1>2, <3>1 DEF SchedulePeriodic, Redefine, Scheduled
    <3>2. ASSUME NEW s \in Schedules, NEW start, NEW initial,
                 UpdatePendingPeriodicSchedule(s, start, initial)
          PROVE  FALSE
      <4>1. series' = [series EXCEPT !.startAfter = start, !.initialStart = initial, !.schedule = s]
        BY <3>2 DEF UpdatePendingPeriodicSchedule, Redefine
      <4> QED
        BY <1>2, <2>0, <4>1 DEF Columns
    <3>3. ~RestartFailed
      BY <1>2, <2>0 DEF RestartFailed, Columns
    <3>4. ASSUME NEW w \in Workers, WorkerStep(w)
          PROVE  Fetch(w)
      BY <1>2, <2>0, <3>4 DEF WorkerStep, Return, Throw, Reschedule, Fail, FailIfStalled, Crash,
                              Owns, OwnedBy
    <3>5. ~Tick /\ ~FailStalled /\ ~UNCHANGED vars
      BY <1>2, <2>0 DEF Tick, FailStalled, Stalled, vars
    <3> QED
      BY <1>2, <3>1, <3>2, <3>3, <3>4, <3>5 DEF Next
  <2>2. Due(series, now)
    BY <2>1 DEF Fetch
  <2>3. series.startAfter \in Times /\ now \in Nat /\ lastDone \in Times
        /\ series.schedule.interval \in Nat
    BY <1>2, IntervalType, PeriodicAssumption DEF TypeInv, SeriesRows, Columns
  <2> QED
    BY <1>2, <2>2, <2>3 DEF DelayInv, Due, Null, Times
<1>3. TypeInv /\ DelayInv /\ [Next]_vars =>
        [(/\ series.schedule.repeatType = "fixed_delay" /\ lastDone # Null
          /\ series.status # "in_progress" /\ series'.status = "in_progress")
            => now >= lastDone + series.schedule.interval]_vars
  BY <1>2
<1> QED
  BY <1>1, <1>3, DelayInvNext, TypeInvariance, PTL DEF Spec, DelayRespected

LEMMA CadenceNext == TypeInv /\ SkipMissedOnCadence /\ [Next]_vars => SkipMissedOnCadence'
<1> SUFFICES ASSUME TypeInv, SkipMissedOnCadence, [Next]_vars
             PROVE  SkipMissedOnCadence'
  OBVIOUS
<1>1. series \in Columns /\ series \in SeriesRows /\ series' \in Columns
  BY TypeInvNext DEF TypeInv, SeriesRows
<1>2. CASE lastDone' = Null
  BY <1>2 DEF SkipMissedOnCadence
<1>3. ASSUME NEW w \in Workers, Completes(w), IsOf("fixed_rate", "skip_missed")
      PROVE  SkipMissedOnCadence'
  <2> DEFINE at == run[w].at
             first == series.initialStart
             every == series.schedule.interval
             next == NextStart(series, at)
  <2>1. /\ at \in Nat /\ series.status = "in_progress" /\ next \in Nat
        /\ lastDone' = at
        /\ series' = [series EXCEPT !.status = "pending", !.attempt = 0, !.startAfter = next]
    BY <1>3 DEF Completes
  <2>2. first \in Nat /\ every \in Nat \ {0}
    BY <1>1, <2>1, PeriodicAssumption DEF SeriesRows, Schedules
  <2>3. next = NextSlot(series, at)
    BY <1>3 DEF NextStart, IsOf
  <2>4. /\ series'.startAfter = next /\ series'.initialStart = first
        /\ series'.schedule.interval = every
    BY <1>1, <2>1 DEF Columns
  <2>5. CASE at < first
    <3>1. next = first + every
      BY <2>3, <2>5 DEF NextSlot
    <3>2. next - first = every /\ next > at
      BY <2>1, <2>2, <2>5, <3>1
    <3>3. every % every = 0
      BY <2>2
    <3>4. lastDone' < series'.initialStart /\ series'.startAfter > lastDone'
          /\ (series'.startAfter - series'.initialStart) % series'.schedule.interval = 0
      BY <2>1, <2>4, <2>5, <3>2, <3>3
    <3> HIDE DEF next, at, first, every
    <3> QED
      BY <2>1, <2>2, <2>4, <2>5, <3>4 DEF SkipMissedOnCadence
  <2>6. CASE at >= first
    <3>1. at - first \in Int
      BY <2>1, <2>2
    <3> DEFINE step == ((at - first) \div every + 1) * every
    <3>2. next = first + step
      BY <2>1, <2>2, <2>3, <2>6 DEF NextSlot, TickAfter
    <3>3. step \in Int /\ at - first < step /\ step <= at - first + every /\ step % every = 0
      BY <2>2, <3>1, SlotBounds, SlotAligned
    <3> HIDE DEF step
    <3>4. next - first = step /\ next > at /\ next <= at + every
      BY <2>1, <2>2, <3>2, <3>3
    <3> QED
      BY <2>1, <2>4, <3>3, <3>4 DEF SkipMissedOnCadence
  <2> QED
    BY <2>1, <2>2, <2>5, <2>6
<1>4. ASSUME NEW w \in Workers, Completes(w), ~IsOf("fixed_rate", "skip_missed")
      PROVE  SkipMissedOnCadence'
  <2>1. series'.schedule = series.schedule
    BY <1>1, <1>4 DEF Completes, Columns
  <2> QED
    BY <1>4, <2>1 DEF SkipMissedOnCadence, IsOf
<1>5. CASE KeepsSchedule
  BY <1>1, <1>5 DEF KeepsSchedule, SkipMissedOnCadence, AwaitsRun, IsOf, Columns
<1> QED
  BY <1>2, <1>3, <1>4, <1>5, ScheduleChanges

(* A fixed rate that skips missed runs keeps its cadence, also across the  *)
(* failures, the time-outs and the restarts between two completed runs.    *)
THEOREM SkipMissedOnCadenceCorrect == Spec => []SkipMissedOnCadence
<1>1. Init => SkipMissedOnCadence
  BY DEF Init, SkipMissedOnCadence, AwaitsRun
<1> QED
  BY <1>1, CadenceNext, TypeInvariance, PTL DEF Spec
=============================================================================
