------------------------- MODULE MultiStepWorkflow -------------------------
(***************************************************************************)
(* One parent task whose worker is a SequentialTask, a list of steps each  *)
(* of which may spawn a child the workflow waits for, or a                 *)
(* ManagedWorkflowTask, whose every run spawns a child or submits the      *)
(* result.  The attempts of the parent carry the payload envelope          *)
(* (MultiStepPayload) from the row through the steps and back into the     *)
(* row; what the row holds when an attempt is lost is where the next one   *)
(* goes on.                                                                *)
(*                                                                         *)
(* The protocol of parent and children is that of TasksQueue, seen from    *)
(* the parent: without a clock (an attempt may time out whenever it is     *)
(* under way, a backoff ends at some time) and with a wake-up whenever the *)
(* parent is blocked, since late attempts of a child and children that     *)
(* were restarted wake it too early.  Start times are numbers of attempts. *)
(*                                                                         *)
(* Only the two classes write the envelope here.  Two statements can write *)
(* anything in its place and are left out: dao.fail for a step that throws *)
(* TaskFailed, with the payload of the exception, and updatePendingTask    *)
(* for an operator.                                                        *)
(***************************************************************************)
EXTENDS TaskTable

CONSTANTS
    Workers,  \* slots that run attempts of the parent
    Kinds,    \* which of the two classes the worker may extend
    NumSteps, \* how many steps the list has, and maxRuns
    Retries,  \* values of max_attempts of the parent
    MaxTakes  \* how often the parent is handed out (a bound)

ASSUME WorkflowAssumption ==
    /\ Kinds \subseteq {"sequential", "managed"}
    /\ NumSteps \in Nat \ {0} /\ MaxTakes \in Nat
    /\ Retries \subseteq 1..MaxAttempts

Steps  == 1..NumSteps
NoStep == 0

VARIABLES
    kind,    \* the class of the parent's worker; it never changes
    parent,  \* the row of the parent, its payload in the field payload
    child,   \* the rows of the children
    run,     \* what each slot is doing
    takes,   \* how often the parent was handed out
    ran,     \* the steps whose handler returned in some attempt
    settled  \* the children that ended well, or badly where that is allowed

vars == <<kind, parent, child, run, takes, ran, settled>>

(* MultiStepPayload and ActiveChildState: workflowPayload.step, or for a   *)
(* managed workflow runCount, missing in a fresh one; the active child and *)
(* whether it may fail.                                                    *)
Payloads == [ step : Steps \cup {NoStep}, activeChild : TaskIds \cup {NoTask},
              allowFailure : BOOLEAN ]

Fresh == [ step |-> NoStep, activeChild |-> NoTask, allowFailure |-> FALSE ]

Phases == {"idle", "resuming", "running", "finishing", "spawning", "failing"}
Idle   == [ pc |-> "idle", token |-> Null, payload |-> Fresh ]

TypeOK ==
    /\ kind \in Kinds
    /\ parent \in [ status : {"pending", "in_progress", "blocked", "finished", "error"},
                    attempt : 0..MaxAttempts, maxAttempts : 1..MaxAttempts,
                    started : Nat \cup {Null}, hb : {Null},
                    startAfter : Nat \cup {Null}, payload : Payloads ]
    /\ child \in [TaskIds -> [ status : {"unused", "pending", "finished", "error", "deleted"},
                               step : Steps \cup {NoStep}, allowFailure : BOOLEAN ]]
    /\ run \in [Workers -> [ pc : Phases, token : Nat \cup {Null}, payload : Payloads ]]
    /\ takes \in 0..MaxTakes
    /\ ran \subseteq Steps /\ settled \subseteq TaskIds

Init ==
    /\ kind \in Kinds
    /\ \E n \in Retries :
         parent = [ status |-> "pending", attempt |-> 0, maxAttempts |-> n,
                    started |-> Null, hb |-> Null, startAfter |-> Null,
                    payload |-> Fresh ]
    /\ child = [c \in TaskIds |-> [status |-> "unused", step |-> NoStep, allowFailure |-> FALSE]]
    /\ run = [w \in Workers |-> Idle]
    /\ takes = 0
    /\ ran = {} /\ settled = {}

Owns(w) == OwnedBy(parent, run[w].token)
Done(w) == run' = [run EXCEPT ![w] = Idle]

-----------------------------------------------------------------------------
(* What the worker goes on with *)

(* currentStep: a payload without a step stands at the first one. *)
CurrentStep(payload) == IF payload.step = NoStep THEN 1 ELSE payload.step

AtStep(payload, s) == [payload EXCEPT !.step = s]

WithoutChild(payload) == [payload EXCEPT !.activeChild = NoTask, !.allowFailure = FALSE]

Skipping(w, payload) ==
    LET s == CurrentStep(payload)
    IN  run' = [run EXCEPT ![w].pc = IF s + 2 <= NumSteps THEN "running" ELSE "finishing",
                           ![w].payload = AtStep(payload, IF s + 2 <= NumSteps THEN s + 2 ELSE s)]

(* continueToNextStep: the attempt goes on with the next step, or returns  *)
(* when there is none.                                                     *)
ContinueToNextStep(w, payload) ==
    LET s == CurrentStep(payload)
    IN  run' = [run EXCEPT ![w].pc = IF s < NumSteps THEN "running" ELSE "finishing",
                           ![w].payload = IF s < NumSteps THEN AtStep(payload, s + 1) ELSE payload]

(* processNext of a sequential task: it runs the step it stands at. *)
RunCurrentStep(w, payload) ==
    /\ kind = "sequential"
    /\ run' = [run EXCEPT ![w].pc = "running",
                          ![w].payload = AtStep(payload, CurrentStep(payload))]

(* processNext of a managed one: it counts one more run, and throws beyond *)
(* maxRuns.                                                                *)
CountRun(w, payload) ==
    /\ kind = "managed"
    /\ run' = IF payload.step < NumSteps
                 THEN [run EXCEPT ![w].pc = "running",
                                  ![w].payload = AtStep(payload, payload.step + 1)]
                 ELSE [run EXCEPT ![w].pc = "failing"]

ProcessNext(w, payload) == RunCurrentStep(w, payload) \/ CountRun(w, payload)

-----------------------------------------------------------------------------
(* An attempt of the parent *)

(* nextPending, then MultiStepTask.process: an active child is looked up   *)
(* first.                                                                  *)
Fetch(w) ==
    /\ run[w].pc = "idle"
    /\ parent.status = "pending" /\ CanRetry(parent)
    /\ takes < MaxTakes
    /\ takes' = takes + 1
    /\ parent' = Taken(parent, takes')
    /\ run' = [run EXCEPT ![w] = [ pc |-> "resuming", token |-> takes',
                                   payload |-> parent.payload ]]
    /\ UNCHANGED <<kind, child, ran, settled>>

(* process without an active child. *)
Begin(w) ==
    /\ run[w].pc = "resuming"
    /\ run[w].payload.activeChild = NoTask
    /\ ProcessNext(w, run[w].payload)
    /\ UNCHANGED <<kind, parent, child, takes, ran, settled>>

MayGoOnRegardless(payload, row) == row.status \in {"finished", "error"}

(* handleResolvedChild with the hooks of the two classes: a finished child *)
(* leads on, and in a sequential task so does a failed one that was        *)
(* allowed to fail.                                                        *)
MayGoOn(payload, row) ==
    \/ row.status = "finished"
    \/ row.status = "error" /\ kind = "sequential" /\ payload.allowFailure

(* childFinished and childFailed once they go on: a sequential task moves  *)
(* to the next step, a managed one runs again.                             *)
GoOn(w, payload) ==
    \/ kind = "sequential" /\ ContinueToNextStep(w, payload)
    \/ CountRun(w, payload)

(* Any other child, and one that is not found, makes the attempt throw.    *)
Resume(w) ==
    LET c == run[w].payload.activeChild
    IN  /\ run[w].pc = "resuming" /\ c # NoTask
        /\ \/ /\ ~MayGoOn(run[w].payload, child[c])
              /\ run' = [run EXCEPT ![w].pc = "failing"]
           \/ /\ MayGoOn(run[w].payload, child[c])
              /\ GoOn(w, WithoutChild(run[w].payload))
        /\ UNCHANGED <<kind, parent, child, takes, ran, settled>>

(* runStep, and the call of run: the handler returns, with a child to      *)
(* spawn or without. Without a child a sequential task continues at once;  *)
(* a managed one has submitted its result, or the attempt throws.          *)
RunStep(w) ==
    /\ run[w].pc = "running"
    /\ ran' = ran \cup {run[w].payload.step}
    /\ \/ kind = "sequential" /\ ContinueToNextStep(w, run[w].payload)
       \/ kind = "managed" /\ run' = [run EXCEPT ![w].pc = "finishing"]
       \/ \E allow \in BOOLEAN :
            run' = [run EXCEPT ![w].pc = "spawning", ![w].payload.allowFailure = allow]
    /\ UNCHANGED <<kind, parent, child, takes, settled>>

(* The handler throws, or a managed one neither spawned nor submitted.     *)
StepThrows(w) ==
    /\ run[w].pc = "running"
    /\ run' = [run EXCEPT ![w].pc = "failing"]
    /\ UNCHANGED <<kind, parent, child, takes, ran, settled>>

Finish(w) ==
    /\ run[w].pc = "finishing"
    /\ parent' = IF Owns(w) THEN [parent EXCEPT !.status = "finished", !.payload = run[w].payload]
                            ELSE parent
    /\ Done(w)
    /\ UNCHANGED <<kind, child, takes, ran, settled>>

IsNextId(c) == child[c].status = "unused" /\ \A d \in 1..(c - 1) : child[d].status # "unused"

SpawnKeepingPayload(w, c) ==
    /\ run[w].pc = "spawning" /\ Owns(w) /\ IsNextId(c)
    /\ parent' = [parent EXCEPT !.status = "blocked", !.attempt = @ - 1, !.started = Null,
                                !.payload = [@ EXCEPT !.activeChild = c]]
    /\ child' = [child EXCEPT ![c] = [ status |-> "pending", step |-> run[w].payload.step,
                                       allowFailure |-> run[w].payload.allowFailure ]]
    /\ Done(w)
    /\ UNCHANGED <<kind, takes, ran, settled>>

(* blockParentAndScheduleChild with the payload of the context. *)
Spawn(w, c) ==
    /\ run[w].pc = "spawning" /\ Owns(w) /\ IsNextId(c)
    /\ parent' = [parent EXCEPT !.status = "blocked", !.attempt = @ - 1, !.started = Null,
                                !.payload = [run[w].payload EXCEPT !.activeChild = c]]
    /\ child' = [child EXCEPT ![c] = [ status |-> "pending", step |-> run[w].payload.step,
                                       allowFailure |-> run[w].payload.allowFailure ]]
    /\ Done(w)
    /\ UNCHANGED <<kind, takes, ran, settled>>

SpawnLost(w) ==
    /\ run[w].pc = "spawning" /\ ~Owns(w)
    /\ Done(w)
    /\ UNCHANGED <<kind, parent, child, takes, ran, settled>>

(* dao.fail for an error other than TaskFailed: the payload the task was   *)
(* fetched with is written back.                                           *)
Fail(w) ==
    /\ run[w].pc = "failing"
    /\ parent' = IF Owns(w) THEN Failed(parent, 0) ELSE parent
    /\ Done(w)
    /\ UNCHANGED <<kind, child, takes, ran, settled>>

Crash(w) ==
    /\ run[w].pc # "idle"
    /\ Done(w)
    /\ UNCHANGED <<kind, parent, child, takes, ran, settled>>

(* failStalled, or failIfStalled of the attempt itself. *)
TimesOut ==
    /\ parent.status = "in_progress"
    /\ parent' = Failed(parent, 0)
    /\ UNCHANGED <<kind, child, run, takes, ran, settled>>

-----------------------------------------------------------------------------
(* The children and the operators *)

ChildEnds(c) ==
    /\ child[c].status = "pending"
    /\ \E s \in {"finished", "error"} :
         /\ child' = [child EXCEPT ![c].status = s]
         /\ settled' = IF s = "finished" \/ (kind = "sequential" /\ child[c].allowFailure)
                         THEN settled \cup {c} ELSE settled
    /\ UNCHANGED <<kind, parent, run, takes, ran>>

Wake ==
    /\ parent.status = "blocked"
    /\ parent' = Woken(parent, 0)
    /\ UNCHANGED <<kind, child, run, takes, ran, settled>>

(* restartFailedTask on a child. *)
RestartChild(c) ==
    /\ child[c].status = "error"
    /\ child' = [child EXCEPT ![c].status = "pending"]
    /\ UNCHANGED <<kind, parent, run, takes, ran, settled>>

(* clearFailed *)
ClearFailedChild(c) ==
    /\ child[c].status = "error"
    /\ child' = [child EXCEPT ![c].status = "deleted"]
    /\ UNCHANGED <<kind, parent, run, takes, ran, settled>>

(* restartFailedTask on the parent. *)
RestartParent ==
    /\ parent.status = "error"
    /\ parent' = [parent EXCEPT !.status = "pending", !.attempt = 0]
    /\ UNCHANGED <<kind, child, run, takes, ran, settled>>

WorkerStep(w) ==
    \/ Fetch(w)
    \/ Begin(w)
    \/ Resume(w)
    \/ RunStep(w)
    \/ StepThrows(w)
    \/ Finish(w)
    \/ \E c \in TaskIds : Spawn(w, c)
    \/ SpawnLost(w)
    \/ Fail(w)
    \/ Crash(w)

Next ==
    \/ \E w \in Workers : WorkerStep(w)
    \/ TimesOut
    \/ \E c \in TaskIds : ChildEnds(c)
    \/ Wake
    \/ \E c \in TaskIds : RestartChild(c)
    \/ \E c \in TaskIds : ClearFailedChild(c)
    \/ RestartParent

Spec == Init /\ [][Next]_vars

-----------------------------------------------------------------------------
(* Properties *)

SpawnedFor(s) == {c \in TaskIds : child[c].step = s}

(* However often the parent is retried, timed out, woken too early or      *)
(* restarted, and whatever late attempts do, no step gets a second child:  *)
(* the step and its child are persisted together, and an attempt that      *)
(* finds the child never runs its step again.                              *)
OneChildPerStep ==
    \A s \in Steps : Cardinality(SpawnedFor(s)) <= 1

(* docs/multi-steps-tasks.md:156, "steps have a fixed order": an attempt   *)
(* runs a step only when every earlier step was run, and as long as it     *)
(* owns the parent only when the children of all earlier steps ended well  *)
(* or were allowed to fail.  (A late attempt may be ahead of a child that  *)
(* its successor spawned for a step it passed without one.)                *)
StepsInOrder ==
    \A w \in Workers : run[w].pc = "running" =>
        \A s \in 1..(run[w].payload.step - 1) :
            s \in ran /\ (Owns(w) => SpawnedFor(s) \subseteq settled)

(* sequential-task.ts:44, "complete all configured steps or fail the       *)
(* parent task": a finished parent ran every step (a managed one as many   *)
(* runs as it counted), and no child of any is left open or failed against *)
(* the rules.                                                              *)
FinishedIsComplete ==
    parent.status = "finished" =>
        /\ kind = "sequential" => ran = Steps
        /\ kind = "managed" => ran = 1..parent.payload.step
        /\ \A s \in Steps : SpawnedFor(s) \subseteq settled

(* The step the row stands at never moves back as long as only the two     *)
(* classes write the envelope: a late attempt, a retry after a plain error *)
(* or a restart cannot undo the progress that was persisted.               *)
ProgressKept == [][parent'.payload.step >= parent.payload.step]_vars
=============================================================================
