---------------------------- MODULE PeriodicTask ----------------------------
(***************************************************************************)
(* A periodic task: the one row a name stands for (the column name is      *)
(* unique), scheduled by every instance of the application that starts,    *)
(* run by worker slots, rescheduled by the attempt that completes and      *)
(* edited by operators.                                                    *)
(*                                                                         *)
(* The row has the columns of TaskTable and those of the schedule, and the *)
(* operators of TaskTable apply to it.  A cron expression is abstracted to *)
(* a tick every so many units of time.  Heartbeats, children and several   *)
(* tasks at a time are the subject of TasksQueue and left out here; so is  *)
(* updatePendingTask, with which an operator may move start_after off the  *)
(* schedule.                                                               *)
(***************************************************************************)
EXTENDS TaskTable

CONSTANTS
    Workers,   \* worker slots
    Intervals, \* periods, and distances of cron ticks, a schedule may have
    Retries,   \* values of max_attempts
    Origin,    \* when the first instance starts; JavaScript's epoch is 0
    MaxTime    \* the clock stops here (a bound)

RepeatTypes == {"fixed_rate", "fixed_delay", "cron"}
Strategies  == {"skip_missed", "catch_up"}

ASSUME PeriodicAssumption ==
    /\ Intervals \subseteq Nat \ {0} /\ Retries \subseteq 1..MaxAttempts
    /\ Origin \in Nat \ {0} /\ MaxTime \in Nat /\ Origin <= MaxTime

(* new Date(null): a start_after of NULL read back as a date. *)
Epoch == 0

VARIABLES
    now,      \* the clock
    series,   \* the row
    run,      \* what each worker slot is doing
    lastDone, \* when the task was last completed under its present schedule
    slot      \* the scheduled time the next run is for

vars == <<now, series, run, lastDone, slot>>

Times  == Nat \cup {Null}
Phases == {"idle", "processing", "expired", "rescheduling", "failing"}
Idle   == [pc |-> "idle", token |-> Null, at |-> Null]

Schedules == [ repeatType : RepeatTypes, interval : Intervals, strategy : Strategies ]
NoSchedule == [ repeatType |-> "cron", interval |-> 1, strategy |-> "skip_missed" ]

TypeOK ==
    /\ now \in Origin..MaxTime
    /\ series \in [ status : {"unused", "pending", "in_progress", "error"},
                    attempt : 0..MaxAttempts, maxAttempts : 0..MaxAttempts,
                    started : Times, hb : {Null}, startAfter : Times,
                    initialStart : Times,
                    schedule : Schedules \cup {NoSchedule} ]
    /\ run \in [Workers -> [pc : Phases, token : Times, at : Times]]
    /\ lastDone \in Times /\ slot \in Times

Init ==
    /\ now = Origin
    /\ series = [ status |-> "unused", attempt |-> 0, maxAttempts |-> 0,
                  started |-> Null, hb |-> Null, startAfter |-> Null,
                  initialStart |-> Null, schedule |-> NoSchedule ]
    /\ run = [w \in Workers |-> Idle]
    /\ lastDone = Null /\ slot = Null

Tick ==
    /\ now < MaxTime
    /\ now' = now + 1
    /\ UNCHANGED <<series, run, lastDone, slot>>

Done(w) == run' = [run EXCEPT ![w] = Idle]
Owns(w) == OwnedBy(series, run[w].token)

-----------------------------------------------------------------------------
(* The next start (PeriodicScheduleUtils) *)

(* The first of the instants origin, origin + every, ... after base. *)
TickAfter(origin, every, base) == origin + ((base - origin) \div every + 1) * every

NextSlotUnfloored(row, at) ==
    LET periods == (at - row.initialStart + row.schedule.interval - 1) \div row.schedule.interval
    IN  row.initialStart + (IF periods > 1 THEN periods ELSE 1) * row.schedule.interval

(* calculateFixedRateSkipMissedNextStartAfter: the first slot after at; at  *)
(* least one interval is added, also when the first slot is still to come. *)
NextSlot(row, at) ==
    IF at < row.initialStart THEN row.initialStart + row.schedule.interval
    ELSE TickAfter(row.initialStart, row.schedule.interval, at)

(* The date the row's start_after is read as. *)
StartDate(row) == IF row.startAfter = Null THEN Epoch ELSE row.startAfter

NextStartFromSlot(row, at) == StartDate(row) + row.schedule.interval

(* calculateNextStartAfter *)
NextStart(row, at) ==
    LET s == row.schedule
    IN  CASE s.repeatType = "fixed_delay" -> at + s.interval
          [] s.repeatType = "fixed_rate" /\ s.strategy = "catch_up" ->
                StartDate(row) + s.interval
          [] s.repeatType = "fixed_rate" /\ s.strategy = "skip_missed" ->
                NextSlot(row, at)
          [] s.repeatType = "cron" ->
                TickAfter(Epoch, s.interval,
                          IF s.strategy = "catch_up" THEN StartDate(row) ELSE at)

-----------------------------------------------------------------------------
(* Instances and operators *)

Scheduled(s, start, retries) ==
    [ status |-> "pending", attempt |-> 0, maxAttempts |-> retries,
      started |-> Null, hb |-> Null, startAfter |-> start,
      initialStart |-> start, schedule |-> s ]

Redefine(row) ==
    /\ series' = row
    /\ lastDone' = Null
    /\ slot' = row.startAfter
    /\ UNCHANGED <<now, run>>

ScheduleAnyway(s, start, retries, replaceExisting) ==
    /\ series.status = "unused" \/ replaceExisting
    /\ Redefine(Scheduled(s, start, retries))

(* schedulePeriodic: insert, and on a conflict of names do nothing, or     *)
(* with replaceExisting reset the row provided it is pending.              *)
SchedulePeriodic(s, start, retries, replaceExisting) ==
    /\ series.status = "unused" \/ (replaceExisting /\ series.status = "pending")
    /\ Redefine(Scheduled(s, start, retries))

UpdatePendingPeriodicSchedule(s, start, initialStart) ==
    /\ series.status = "pending"
    /\ Redefine([series EXCEPT !.startAfter = start, !.initialStart = initialStart,
                               !.schedule = s])

(* restartFailedTask *)
RestartFailed ==
    /\ series.status = "error"
    /\ series' = [series EXCEPT !.status = "pending", !.attempt = 0]
    /\ UNCHANGED <<now, run, lastDone, slot>>

-----------------------------------------------------------------------------
(* A worker slot *)

Fetch(w) ==
    /\ run[w].pc = "idle"
    /\ Due(series, now)
    /\ series' = Taken(series, now)
    /\ run' = [run EXCEPT ![w] = [pc |-> "processing", token |-> now, at |-> Null]]
    /\ UNCHANGED <<now, lastDone, slot>>

(* The user's code returned and persistSuccessfulOutcome compares the      *)
(* deadline, then asks for the reschedule with the time it reads. (Its two  *)
(* reads of the clock are one here: a millisecond apart, they would let an *)
(* attempt reschedule that is late by as much, and every interval below    *)
(* counts from the later one.)                                             *)
Return(w) ==
    /\ run[w].pc = "processing"
    /\ run' = [run EXCEPT ![w].at = now,
                 ![w].pc = IF now - run[w].token > Timeout THEN "expired" ELSE "rescheduling"]
    /\ UNCHANGED <<now, series, lastDone, slot>>

(* The user's code throws, or returns with a spawned child, which a        *)
(* periodic task must not have.                                            *)
Throw(w) ==
    /\ run[w].pc = "processing"
    /\ run' = [run EXCEPT ![w].pc = "failing"]
    /\ UNCHANGED <<now, series, lastDone, slot>>

(* The scheduled time after the one the completed run was for: with        *)
(* catch_up the slot after it (once slots are ahead of the clock they are  *)
(* no longer counted: a bound), else the next start.                       *)
SlotAfter(row, next) ==
    LET s == row.schedule
    IN  IF s.strategy = "skip_missed" \/ s.repeatType = "fixed_delay" THEN next
        ELSE IF slot > now THEN slot
        ELSE IF s.repeatType = "fixed_rate" THEN slot + s.interval
        ELSE TickAfter(Epoch, s.interval, slot)

(* rescheduleIfPeriodic *)
Reschedule(w) ==
    LET next == NextStart(series, run[w].at)
    IN  /\ run[w].pc = "rescheduling"
        /\ IF Owns(w)
             THEN /\ series' = [series EXCEPT !.status = "pending", !.attempt = 0,
                                              !.startAfter = next]
                  /\ lastDone' = run[w].at
                  /\ slot' = SlotAfter(series, next)
             ELSE UNCHANGED <<series, lastDone, slot>>
        /\ Done(w)
        /\ UNCHANGED now

(* dao.fail *)
Fail(w) ==
    /\ run[w].pc = "failing"
    /\ series' = IF Owns(w) THEN Failed(series, now) ELSE series
    /\ Done(w)
    /\ UNCHANGED <<now, lastDone, slot>>

(* dao.failIfStalled *)
FailIfStalled(w) ==
    /\ run[w].pc = "expired"
    /\ series' = IF Owns(w) /\ Stalled(series, run[w].at) THEN Failed(series, run[w].at)
                                                         ELSE series
    /\ Done(w)
    /\ UNCHANGED <<now, lastDone, slot>>

Crash(w) ==
    /\ run[w].pc # "idle"
    /\ Done(w)
    /\ UNCHANGED <<now, series, lastDone, slot>>

(* failStalled of the maintenance loop *)
FailStalled ==
    /\ Stalled(series, now)
    /\ series' = Failed(series, now)
    /\ UNCHANGED <<now, run, lastDone, slot>>

WorkerStep(w) ==
    \/ Fetch(w)
    \/ Return(w)
    \/ Throw(w)
    \/ Reschedule(w)
    \/ Fail(w)
    \/ FailIfStalled(w)
    \/ Crash(w)

Next ==
    \/ Tick
    \/ \E s \in Schedules, start \in {now, now + 1}, n \in Retries, r \in BOOLEAN :
         SchedulePeriodic(s, start, n, r)
    \/ \E s \in Schedules, start, initial \in {now, now + 1} :
         UpdatePendingPeriodicSchedule(s, start, initial)
    \/ RestartFailed
    \/ \E w \in Workers : WorkerStep(w)
    \/ FailStalled

Spec == Init /\ [][Next]_vars

-----------------------------------------------------------------------------
(* Properties *)

(* The row waits for its next regular run, not for a retry. *)
AwaitsRun == series.status = "pending" /\ series.attempt = 0 /\ series.startAfter # Null

IsOf(type, strategy) ==
    series.schedule.repeatType = type /\ series.schedule.strategy = strategy

(* README.md:361 and 405, a fixed rate that skips missed runs stays        *)
(* aligned to its cadence: whatever failures, time-outs and backoffs came  *)
(* between, the run after a completed one is at the first slot after the   *)
(* completion.                                                             *)
SkipMissedOnCadence ==
    AwaitsRun /\ lastDone # Null /\ IsOf("fixed_rate", "skip_missed") =>
        /\ (series.startAfter - series.initialStart) % series.schedule.interval = 0
        /\ series.startAfter > lastDone
        /\ lastDone >= series.initialStart => series.startAfter <= lastDone + series.schedule.interval

(* README.md:377, a fixed delay starts no run earlier than the delay after *)
(* the completion of the one before, retries and restarts included.        *)
DelayRespected ==
    [][(/\ series.schedule.repeatType = "fixed_delay" /\ lastDone # Null
        /\ series.status # "in_progress" /\ series'.status = "in_progress")
          => now >= lastDone + series.schedule.interval]_vars

Holds(w) == run[w].pc # "idle" /\ series.status = "in_progress" /\ series.started = run[w].token

(* README.md:440, "A stale older attempt cannot shift the timer": an       *)
(* attempt that lost the row to a retry, or to a row of the same name      *)
(* defined anew, leaves it as it is.                                       *)
StaleAttemptKeepsTimer ==
    [][\A w \in Workers :
         run[w].pc # "idle" /\ ~Holds(w) /\ run'[w] # run[w] => series' = series]_vars

(* README.md:428, "replace mode updates only pending periodic rows":       *)
(* instances that provision the name and operators who edit the schedule   *)
(* never take the row from the attempt that runs; only its own outcome and *)
(* its time-out do.                                                        *)
RunningAttemptUndisturbed ==
    [][\A w \in Workers :
         Holds(w) /\ run'[w] = run[w] /\ series' # series => Stalled(series, now)]_vars

(* tasks-model.ts:160, catch_up runs "the task once for every missed       *)
(* interval since the original schedule": each run is for the slot after   *)
(* the one before.  (Not so: see the findings.)                            *)
CatchUpRunsEach ==
    AwaitsRun /\ IsOf("fixed_rate", "catch_up") => series.startAfter = slot
=============================================================================
