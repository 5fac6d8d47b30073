---------------------------- MODULE TaskLifecycle ----------------------------
(***************************************************************************)
(* What the queue promises about a one-time task, without its table, its   *)
(* clock and its statements.                                               *)
(*                                                                         *)
(* A task is executed under exclusive ownership.  Only its owner can       *)
(* finish it, fail it or make it wait for a child, and each of these ends  *)
(* the ownership.  Starting a task costs one of the attempts it has left,  *)
(* waiting for a child gives it back, and a task that fails goes back to   *)
(* pending exactly when it has attempts left.  The system may revoke an    *)
(* ownership at any time, which counts as a failure of the task, and an    *)
(* owner may vanish.  A task somebody owns or that waits is never removed. *)
(*                                                                         *)
(* Why an ownership is revoked and when a waiting task resumes is left     *)
(* open here; TasksQueue says both.                                        *)
(***************************************************************************)
EXTENDS Integers

CONSTANTS Tasks, Owners, NoOwner,
          MaxBudget   \* the largest number of attempts a task may have (a bound)

VARIABLES
    status,  \* of every task
    left,    \* attempts it has left
    owner    \* who executes it, or NoOwner

lifecycleVars == <<status, left, owner>>

Init ==
    /\ status = [t \in Tasks |-> "unused"]
    /\ left = [t \in Tasks |-> 0]
    /\ owner = [t \in Tasks |-> NoOwner]

Create(t, n) ==
    /\ status[t] = "unused"
    /\ status' = [status EXCEPT ![t] = "pending"]
    /\ left' = [left EXCEPT ![t] = n]
    /\ UNCHANGED owner

Start(w, t) ==
    /\ status[t] = "pending" /\ left[t] > 0
    /\ \A s \in Tasks : owner[s] # w
    /\ status' = [status EXCEPT ![t] = "in_progress"]
    /\ left' = [left EXCEPT ![t] = @ - 1]
    /\ owner' = [owner EXCEPT ![t] = w]

Finish(w, t) ==
    /\ owner[t] = w
    /\ status' = [status EXCEPT ![t] = "finished"]
    /\ owner' = [owner EXCEPT ![t] = NoOwner]
    /\ UNCHANGED left

(* The task waits for the child c it creates. *)
Await(w, t, c, n) ==
    /\ owner[t] = w /\ status[c] = "unused"
    /\ status' = [status EXCEPT ![t] = "blocked", ![c] = "pending"]
    /\ left' = [left EXCEPT ![t] = @ + 1, ![c] = n]
    /\ owner' = [owner EXCEPT ![t] = NoOwner]

Resume(t) ==
    /\ status[t] = "blocked"
    /\ status' = [status EXCEPT ![t] = "pending"]
    /\ UNCHANGED <<left, owner>>

AfterFailure(t) == IF left[t] > 0 THEN "pending" ELSE "error"

Fail(w, t) ==
    /\ owner[t] = w
    /\ status' = [status EXCEPT ![t] = AfterFailure(t)]
    /\ owner' = [owner EXCEPT ![t] = NoOwner]
    /\ UNCHANGED left

(* The tasks of S are taken from their owners, those of R, which waited    *)
(* for some of S, resume.                                                  *)
Revoke(S, R) ==
    /\ \A t \in S : status[t] = "in_progress"
    /\ \A t \in R : status[t] = "blocked"
    /\ R # {} => \E t \in S : AfterFailure(t) = "error"
    /\ status' = [t \in Tasks |-> IF t \in S THEN AfterFailure(t)
                                  ELSE IF t \in R THEN "pending" ELSE status[t]]
    /\ owner' = [t \in Tasks |-> IF t \in S THEN NoOwner ELSE owner[t]]
    /\ UNCHANGED left

Vanish(w, t) ==
    /\ owner[t] = w
    /\ owner' = [owner EXCEPT ![t] = NoOwner]
    /\ UNCHANGED <<status, left>>

(* Operators reopen failed tasks, edit pending ones and remove tasks. *)
Reopen(S) ==
    /\ \A t \in S : status[t] = "error"
    /\ status' = [t \in Tasks |-> IF t \in S THEN "pending" ELSE status[t]]
    /\ left' \in [Tasks -> -MaxBudget..MaxBudget]
    /\ \A t \in Tasks \ S : left'[t] = left[t]
    /\ UNCHANGED owner

Edit(t, n) ==
    /\ status[t] = "pending"
    /\ left' = [left EXCEPT ![t] = n]
    /\ UNCHANGED <<status, owner>>

Remove(S) ==
    /\ \A t \in S : status[t] \in {"pending", "finished", "error"}
    /\ status' = [t \in Tasks |-> IF t \in S THEN "deleted" ELSE status[t]]
    /\ left' = [t \in Tasks |-> IF t \in S THEN 0 ELSE left[t]]
    /\ UNCHANGED owner

Next ==
    \/ \E t \in Tasks, n \in 1..MaxBudget : Create(t, n)
    \/ \E w \in Owners, t \in Tasks : Start(w, t) \/ Finish(w, t) \/ Fail(w, t) \/ Vanish(w, t)
    \/ \E w \in Owners, t, c \in Tasks, n \in 1..MaxBudget : Await(w, t, c, n)
    \/ \E t \in Tasks : Resume(t)
    \/ \E S, R \in SUBSET Tasks : Revoke(S, R)
    \/ \E S \in SUBSET Tasks : Reopen(S) \/ Remove(S)
    \/ \E t \in Tasks, n \in -MaxBudget..MaxBudget : Edit(t, n)

Spec == Init /\ [][Next]_lifecycleVars
=============================================================================
