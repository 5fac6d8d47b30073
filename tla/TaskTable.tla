------------------------------ MODULE TaskTable ------------------------------
(***************************************************************************)
(* The table tasks_queue (migration.sql) and what one SQL statement or     *)
(* transaction of TasksQueueDao does to it, as operators from the table    *)
(* before to the table after.  Nothing here is a step: TasksQueue says who *)
(* issues which statement and when.                                        *)
(*                                                                         *)
(* Time is an integer.  NULL in a time column is Null and NULL in a        *)
(* reference column is NoTask.  Columns no property reads (queue, error,   *)
(* result, finished, the user's payload) are left out; of the payload the  *)
(* row keeps activeChild, the one part the library itself reads back.      *)
(***************************************************************************)
EXTENDS Integers, FiniteSets

CONSTANTS
    NumTasks,    \* how many ids the serial column may hand out (a bound)
    MaxAttempts, \* the largest max_attempts a client asks for (a bound)
    Timeout,     \* timeout of every task
    BackoffType, \* backoff_type of every task
    Backoff      \* backoff of every task

TaskIds == 1..NumTasks
Null    == -1
NoTask  == 0

ASSUME TableAssumption ==
    /\ NumTasks \in Nat /\ MaxAttempts \in Nat \ {0}
    /\ Timeout \in Nat \ {0} /\ Backoff \in Nat
    /\ BackoffType \in {"constant", "linear", "exponential"}

(* tlapm does not know that a power of two is a natural number. *)
ASSUME PowersAssumption == \A n \in 0..MaxAttempts : 2^n \in Nat

(* An id that was never handed out is "unused", a row that was removed is  *)
(* "deleted": a serial column hands out no id twice.                       *)
RowStatuses == {"pending", "in_progress", "blocked", "finished", "error"}
Statuses    == RowStatuses \cup {"unused", "deleted"}

Rows == [ status      : Statuses,
          parent      : TaskIds \cup {NoTask},
          attempt     : 0..MaxAttempts,
          maxAttempts : 0..MaxAttempts,
          started     : Nat \cup {Null},
          hb          : Nat \cup {Null},
          startAfter  : Nat \cup {Null},
          activeChild : TaskIds \cup {NoTask} ]

NoRow(s) == [ status |-> s, parent |-> NoTask, attempt |-> 0, maxAttempts |-> 0,
              started |-> Null, hb |-> Null, startAfter |-> Null,
              activeChild |-> NoTask ]

Exists(row)   == row.status \in RowStatuses
Terminal(row) == row.status \in {"finished", "error"}
(* Mutated forms: each is what a plausible slip would make of the          *)
(* definition after it; no action uses them.                               *)
CanRetryOnceMore(row) == row.attempt <= row.maxAttempts
CanRetry(row) == row.attempt < row.maxAttempts

-----------------------------------------------------------------------------
(* Guards of the WHERE clauses *)

OwnedByStatus(row, token) == row.status = "in_progress"

(* status = in_progress and started = expected: the attempt that was       *)
(* handed out with this start time still owns the row.                     *)
OwnedBy(row, token) == row.status = "in_progress" /\ row.started = token

DueUnbudgeted(row, at) ==
    row.status \in {"pending", "error"} /\ (row.startAfter = Null \/ row.startAfter <= at)

Due(row, at) ==
    /\ row.status = "pending"
    /\ row.attempt < row.maxAttempts
    /\ row.startAfter = Null \/ row.startAfter <= at

LastActivity(row) == IF row.hb = Null THEN row.started ELSE row.hb

Stalled(row, at) ==
    /\ row.status = "in_progress"
    /\ LastActivity(row) + Timeout < at

-----------------------------------------------------------------------------
(* What the statements write *)

RetryDelay(n) ==
    CASE BackoffType = "constant"    -> Backoff
      [] BackoffType = "linear"      -> Backoff * n
      [] BackoffType = "exponential" -> Backoff * 2^(n - 1)

(* insertOneTimeTask *)
NewRow(parent, maxAttempts) ==
    [ NoRow("pending") EXCEPT !.parent = parent, !.maxAttempts = maxAttempts ]

TakenKeepingStart(row, at) ==
    [ row EXCEPT !.status = "in_progress", !.hb = Null, !.attempt = @ + 1,
                 !.started = IF @ = Null THEN at ELSE @ ]

(* nextPending *)
Taken(row, at) ==
    [ row EXCEPT !.status = "in_progress", !.started = at, !.hb = Null,
                 !.attempt = @ + 1 ]

(* blockParentAndScheduleChild, on the parent: the attempt is given back.   *)
Blocked(row, child) ==
    [ row EXCEPT !.status = "blocked", !.started = Null, !.hb = Null,
                 !.attempt = IF @ > 0 THEN @ - 1 ELSE 0,
                 !.activeChild = child ]

(* The transition fail, failStalled and failIfStalled share: back to       *)
(* pending after the backoff while attempts remain, else terminal error.   *)
Failed(row, at) ==
    IF CanRetry(row)
      THEN [ row EXCEPT !.status = "pending",
                        !.startAfter = at + RetryDelay(row.attempt) ]
      ELSE [ row EXCEPT !.status = "error", !.startAfter = Null ]

WokenAlways(row, at) == [ row EXCEPT !.status = "pending", !.startAfter = at ]

(* A blocked parent goes back to pending; any other parent is left alone. *)
Woken(row, at) ==
    IF row.status = "blocked"
      THEN [ row EXCEPT !.status = "pending", !.startAfter = at ]
      ELSE row

(* wakeParentOnChildTerminal: parent_id is read from the child's row, so a *)
(* child that is gone wakes nobody.                                        *)
WakeParent(tab, child, at) ==
    [ t \in TaskIds |-> IF t = tab[child].parent THEN Woken(tab[t], at)
                                                 ELSE tab[t] ]

TimeOutQuietly(tab, S, at) ==
    [ t \in TaskIds |-> IF t \in S THEN Failed(tab[t], at) ELSE tab[t] ]

(* failStalled on the rows of S, and failIfStalled on one of them: the     *)
(* parents of the rows that become terminal are woken in the same          *)
(* transaction.                                                            *)
TimeOut(tab, S, at) ==
    LET exhausted == { t \in S : ~CanRetry(tab[t]) }
        orphaned  == { tab[t].parent : t \in exhausted }
    IN  [ t \in TaskIds |-> IF t \in S THEN Failed(tab[t], at)
                            ELSE IF t \in orphaned THEN Woken(tab[t], at)
                            ELSE tab[t] ]

(* Deleting rows: parent_id ... on delete set null. *)
Without(tab, S) ==
    [ t \in TaskIds |->
        IF t \in S THEN NoRow("deleted")
        ELSE IF tab[t].parent \in S THEN [ tab[t] EXCEPT !.parent = NoTask ]
        ELSE tab[t] ]

NoAncestorCheck(tab, t) == FALSE

(* The recursive query "ancestors" of clearFinished and deleteTask: the     *)
(* least set of rows with the parent of t and the parents of its members.  *)
Ancestors(tab, t) ==
    LET closed == { A \in SUBSET TaskIds :
                      \A s \in A \cup {t} : tab[s].parent \in A \cup {NoTask} }
    IN  { a \in TaskIds : \A A \in closed : a \in A }

HasUnfinishedAncestor(tab, t) ==
    \E a \in Ancestors(tab, t) : tab[a].status # "finished"
=============================================================================
