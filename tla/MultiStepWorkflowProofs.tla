----------------------- MODULE MultiStepWorkflowProofs -----------------------
(***************************************************************************)
(* Theorems about MultiStepWorkflow, for every number of steps, children,  *)
(* worker slots and attempts, with late attempts, crashes, time-outs and   *)
(* restarts of the parent and its children.                                *)
(***************************************************************************)
EXTENDS MultiStepWorkflow, TaskTableProofs, FiniteSetTheorems, TLAPS

ParentRows == [ status : {"pending", "in_progress", "blocked", "finished", "error"},
                attempt : 0..MaxAttempts, maxAttempts : 1..MaxAttempts,
                started : Nat \cup {Null}, hb : {Null},
                startAfter : Nat \cup {Null}, payload : Payloads ]

ChildRows == [ status : {"unused", "pending", "finished", "error", "deleted"},
               step : Steps \cup {NoStep}, allowFailure : BOOLEAN ]

Calls == [ pc : Phases, token : Nat \cup {Null}, payload : Payloads ]

(* Types, and who owns the row: the start time of an attempt is the number *)
(* of the hand-out, that of the row in progress is the last one.           *)
TypeInv ==
    /\ kind \in Kinds
    /\ parent \in ParentRows
    /\ child \in [TaskIds -> ChildRows]
    /\ run \in [Workers -> Calls]
    /\ takes \in 0..MaxTakes
    /\ ran \subseteq Steps /\ settled \subseteq TaskIds
    /\ parent.status = "in_progress" => parent.attempt >= 1 /\ parent.started = takes
    /\ \A w \in Workers :
         /\ run[w].pc # "idle" => run[w].token \in 1..takes
         /\ run[w].pc \in {"running", "spawning"} => run[w].payload.step \in Steps

-----------------------------------------------------------------------------
(* What the statements and the payload operations return.                  *)

LEMMA PayloadOperations ==
    ASSUME NEW p \in Payloads
    PROVE  /\ \A s \in Steps : /\ AtStep(p, s) \in Payloads /\ AtStep(p, s).step = s
                               /\ AtStep(p, s).activeChild = p.activeChild
           /\ WithoutChild(p) \in Payloads /\ WithoutChild(p).step = p.step
           /\ \A b \in BOOLEAN : /\ [p EXCEPT !.allowFailure = b] \in Payloads
                                 /\ [p EXCEPT !.allowFailure = b].step = p.step
           /\ \A c \in TaskIds : /\ [p EXCEPT !.activeChild = c] \in Payloads
                                 /\ [p EXCEPT !.activeChild = c].step = p.step
                                 /\ [p EXCEPT !.activeChild = c].activeChild = c
                                 /\ [p EXCEPT !.activeChild = c].allowFailure = p.allowFailure
BY DEF Payloads, AtStep, WithoutChild

LEMMA CurrentStepType ==
    ASSUME NEW p \in Payloads
    PROVE  /\ CurrentStep(p) \in Steps
           /\ CurrentStep(p) + 1 \in Steps \/ CurrentStep(p) = NumSteps
           /\ p.step \in Steps => CurrentStep(p) = p.step
           /\ p.step = NoStep => CurrentStep(p) = 1
           /\ p.step < NumSteps => p.step + 1 \in Steps
BY WorkflowAssumption DEF CurrentStep, Payloads, Steps, NoStep

LEMMA TakenParent ==
    ASSUME NEW row \in ParentRows, CanRetry(row), NEW at \in Nat
    PROVE  /\ Taken(row, at) \in ParentRows /\ Taken(row, at).status = "in_progress"
           /\ Taken(row, at).started = at /\ Taken(row, at).attempt >= 1
           /\ Taken(row, at).payload = row.payload
<1>1. row.attempt + 1 \in 1..MaxAttempts /\ 1..MaxAttempts \subseteq 0..MaxAttempts
  BY TableAssumption DEF CanRetry, ParentRows
<1>2. Taken(row, at) = [row EXCEPT !.status = "in_progress", !.started = at, !.hb = Null,
                                   !.attempt = row.attempt + 1]
  BY DEF Taken, ParentRows
<1>3. Taken(row, at) \in ParentRows
  BY <1>1, <1>2 DEF ParentRows
<1>4. /\ Taken(row, at).status = "in_progress" /\ Taken(row, at).started = at
      /\ Taken(row, at).attempt >= 1 /\ Taken(row, at).payload = row.payload
  BY <1>1, <1>2 DEF ParentRows
<1> QED
  BY <1>3, <1>4

LEMMA FailedParent ==
    ASSUME NEW row \in ParentRows, row.attempt >= 1
    PROVE  /\ Failed(row, 0) \in ParentRows /\ Failed(row, 0).status \in {"pending", "error"}
           /\ Failed(row, 0).payload = row.payload
<1>1. row.attempt \in 1..MaxAttempts
  BY TableAssumption DEF ParentRows
<1>2. 0 + RetryDelay(row.attempt) \in Nat
  BY <1>1, RetryDelayType
<1> QED
  BY <1>2 DEF Failed, ParentRows, Null

LEMMA OtherParentWrites ==
    ASSUME NEW row \in ParentRows
    PROVE  /\ row.status = "blocked" => /\ Woken(row, 0) \in ParentRows
                                        /\ Woken(row, 0).status = "pending"
                                        /\ Woken(row, 0).payload = row.payload
           /\ LET restarted == [row EXCEPT !.status = "pending", !.attempt = 0]
              IN  /\ restarted \in ParentRows /\ restarted.status = "pending"
                  /\ restarted.payload = row.payload
<1>1. 0 \in 0..MaxAttempts /\ 0 \in Nat \cup {Null}
  BY TableAssumption
<1> QED
  BY <1>1 DEF Woken, ParentRows

(* The writes of the owner. *)
LEMMA FinishWrites ==
    ASSUME TypeInv, NEW w \in Workers, Finish(w), Owns(w)
    PROVE  /\ parent' \in ParentRows /\ parent'.status = "finished"
           /\ parent'.payload = run[w].payload
<1> DEFINE p == run[w].payload
<1>1. p \in Payloads /\ parent \in ParentRows
  BY DEF TypeInv, Calls
<1>2. parent' = [parent EXCEPT !.status = "finished", !.payload = p]
  BY DEF Finish
<1> HIDE DEF p
<1>3. parent' \in ParentRows /\ parent'.status = "finished" /\ parent'.payload = p
  BY <1>1, <1>2 DEF ParentRows
<1> QED
  BY <1>3 DEF p

LEMMA SpawnWrites ==
    ASSUME TypeInv, NEW w \in Workers, NEW c \in TaskIds, Spawn(w, c)
    PROVE  /\ parent' \in ParentRows /\ parent'.status = "blocked"
           /\ parent'.payload = [run[w].payload EXCEPT !.activeChild = c]
           /\ run[w].payload \in Payloads
<1> DEFINE p == [run[w].payload EXCEPT !.activeChild = c]
<1>1. run[w].payload \in Payloads /\ parent \in ParentRows /\ parent.attempt >= 1
  BY DEF TypeInv, Calls, Spawn, Owns, OwnedBy
<1>2. p \in Payloads
  BY <1>1, PayloadOperations
<1>3. parent' = [parent EXCEPT !.status = "blocked", !.attempt = @ - 1, !.started = Null,
                               !.payload = p]
  BY DEF Spawn
<1> HIDE DEF p
<1>4. parent.attempt - 1 \in 0..MaxAttempts
  BY <1>1, TableAssumption DEF ParentRows
<1>5. parent' \in ParentRows /\ parent'.status = "blocked" /\ parent'.payload = p
  BY <1>1, <1>2, <1>3, <1>4 DEF ParentRows
<1> QED
  BY <1>1, <1>5 DEF p

-----------------------------------------------------------------------------
(* Every step is a step of one attempt, a write of the parent's row by its *)
(* owner or by a time-out, a wake-up or a restart, or a step of a child.   *)

(* The attempt w goes on at pc with payload p. *)
Moves(w, pc, p) ==
    /\ run' \in [Workers -> Calls]
    /\ run'[w].pc = pc /\ run'[w].payload = p /\ run'[w].token = run[w].token
    /\ \A v \in Workers \ {w} : run'[v] = run[v]

LEMMA MovesWritten ==
    ASSUME NEW w \in Workers, run \in [Workers -> Calls], NEW pc \in Phases, NEW p \in Payloads
    PROVE  /\ run' = [run EXCEPT ![w].pc = pc, ![w].payload = p] => Moves(w, pc, p)
           /\ run' = [run EXCEPT ![w].pc = pc] => Moves(w, pc, run[w].payload)
<1>1. run[w] \in Calls
  OBVIOUS
<1>2. ASSUME run' = [run EXCEPT ![w].pc = pc, ![w].payload = p]
      PROVE  Moves(w, pc, p)
  <2>1. run'[w] = [[run[w] EXCEPT !.pc = pc] EXCEPT !.payload = p]
    BY <1>2
  <2>2. run'[w] \in Calls /\ run'[w].pc = pc /\ run'[w].payload = p /\ run'[w].token = run[w].token
    BY <1>1, <2>1 DEF Calls
  <2>3. \A v \in Workers \ {w} : run'[v] = run[v]
    BY <1>2
  <2>4. run' \in [Workers -> Calls]
    BY <1>2, <2>2, <2>3
  <2> QED
    BY <2>2, <2>3, <2>4 DEF Moves
<1>3. ASSUME run' = [run EXCEPT ![w].pc = pc]
      PROVE  Moves(w, pc, run[w].payload)
  <2>1. run'[w] = [run[w] EXCEPT !.pc = pc]
    BY <1>3
  <2>2. run'[w] \in Calls /\ run'[w].pc = pc /\ run'[w].payload = run[w].payload
        /\ run'[w].token = run[w].token
    BY <1>1, <2>1 DEF Calls
  <2> QED
    BY <1>3, <2>2 DEF Moves
<1> QED
  BY <1>2, <1>3

LEMMA ContinueMoves ==
    ASSUME NEW w \in Workers, run \in [Workers -> Calls], NEW p \in Payloads,
           ContinueToNextStep(w, p)
    PROVE  LET s == CurrentStep(p)
           IN  \/ s < NumSteps /\ s + 1 \in Steps /\ Moves(w, "running", AtStep(p, s + 1))
               \/ s = NumSteps /\ Moves(w, "finishing", p)
<1> DEFINE s == CurrentStep(p)
<1>1. s \in Steps /\ NumSteps \in Nat /\ s \in Nat /\ s <= NumSteps
  BY CurrentStepType, WorkflowAssumption DEF Steps
<1>2. {"running", "finishing"} \subseteq Phases
  BY DEF Phases
<1>3. CASE s < NumSteps
  <2>1. s + 1 \in Steps
    BY <1>1, <1>3 DEF Steps
  <2>2. AtStep(p, s + 1) \in Payloads
    BY <2>1, PayloadOperations
  <2>3. run' = [run EXCEPT ![w].pc = "running", ![w].payload = AtStep(p, s + 1)]
    BY <1>3 DEF ContinueToNextStep
  <2> QED
    BY <1>2, <1>3, <2>1, <2>2, <2>3, MovesWritten
<1>4. CASE s = NumSteps
  <2>0. ~(s < NumSteps)
    BY <1>1, <1>4
  <2>1. run' = [run EXCEPT ![w].pc = "finishing", ![w].payload = p]
    BY <2>0 DEF ContinueToNextStep
  <2> QED
    BY <1>2, <1>4, <2>1, MovesWritten
<1> QED
  BY <1>1, <1>3, <1>4

LEMMA CountRunMoves ==
    ASSUME NEW w \in Workers, run \in [Workers -> Calls], NEW p \in Payloads, CountRun(w, p)
    PROVE  /\ kind = "managed"
           /\ \/ /\ p.step < NumSteps /\ p.step + 1 \in Steps
                 /\ Moves(w, "running", AtStep(p, p.step + 1))
              \/ Moves(w, "failing", run[w].payload)
<1>1. {"running", "failing"} \subseteq Phases
  BY DEF Phases
<1>2. CASE p.step < NumSteps
  <2>1. p.step + 1 \in Steps
    BY <1>2, CurrentStepType
  <2>2. AtStep(p, p.step + 1) \in Payloads
    BY <2>1, PayloadOperations
  <2>3. run' = [run EXCEPT ![w].pc = "running", ![w].payload = AtStep(p, p.step + 1)]
    BY <1>2 DEF CountRun
  <2> QED
    BY <1>1, <1>2, <2>1, <2>2, <2>3, MovesWritten DEF CountRun
<1>3. CASE ~(p.step < NumSteps)
  <2>1. run' = [run EXCEPT ![w].pc = "failing"]
    BY <1>3 DEF CountRun
  <2> QED
    BY <1>1, <2>1, MovesWritten DEF CountRun
<1> QED
  BY <1>2, <1>3

LEMMA BeginMoves ==
    ASSUME TypeInv, NEW w \in Workers, Begin(w)
    PROVE  LET p == run[w].payload
           IN  \/ Moves(w, "failing", p)
               \/ kind = "sequential" /\ Moves(w, "running", AtStep(p, CurrentStep(p)))
               \/ /\ kind = "managed" /\ p.step < NumSteps /\ p.step + 1 \in Steps
                  /\ Moves(w, "running", AtStep(p, p.step + 1))
<1> DEFINE p == run[w].payload
<1>1. p \in Payloads /\ run \in [Workers -> Calls]
  BY DEF TypeInv, Calls
<1>2. CASE RunCurrentStep(w, p)
  <2>1. CurrentStep(p) \in Steps /\ AtStep(p, CurrentStep(p)) \in Payloads /\ "running" \in Phases
    BY <1>1, CurrentStepType, PayloadOperations DEF Phases
  <2>2. kind = "sequential"
        /\ run' = [run EXCEPT ![w].pc = "running", ![w].payload = AtStep(p, CurrentStep(p))]
    BY <1>2 DEF RunCurrentStep
  <2> QED
    BY <1>1, <2>1, <2>2, MovesWritten
<1>3. CASE CountRun(w, p)
  BY <1>1, <1>3, CountRunMoves
<1> QED
  BY <1>2, <1>3 DEF Begin, ProcessNext

(* A resumed attempt without its child settled fails, the others go on.    *)
LEMMA ResumeMoves ==
    ASSUME TypeInv, NEW w \in Workers, Resume(w)
    PROVE  LET p == run[w].payload
               q == WithoutChild(p)
               s == CurrentStep(q)
           IN  \/ Moves(w, "failing", p)
               \/ /\ MayGoOn(p, child[p.activeChild])
                  /\ \/ /\ kind = "sequential" /\ s < NumSteps /\ s + 1 \in Steps
                        /\ Moves(w, "running", AtStep(q, s + 1))
                     \/ kind = "sequential" /\ s = NumSteps /\ Moves(w, "finishing", q)
                     \/ /\ kind = "managed" /\ q.step < NumSteps /\ q.step + 1 \in Steps
                        /\ Moves(w, "running", AtStep(q, q.step + 1))
<1> DEFINE p == run[w].payload
           q == WithoutChild(p)
<1>1. p \in Payloads /\ q \in Payloads /\ run \in [Workers -> Calls] /\ "failing" \in Phases
  BY PayloadOperations DEF TypeInv, Calls, Phases
<1>2. CASE run' = [run EXCEPT ![w].pc = "failing"]
  BY <1>1, <1>2, MovesWritten
<1>3. CASE MayGoOn(p, child[p.activeChild]) /\ kind = "sequential" /\ ContinueToNextStep(w, q)
  BY <1>1, <1>3, ContinueMoves
<1>4. CASE MayGoOn(p, child[p.activeChild]) /\ CountRun(w, q)
  BY <1>1, <1>4, CountRunMoves
<1> QED
  BY <1>2, <1>3, <1>4 DEF Resume, GoOn

LEMMA RunStepMoves ==
    ASSUME TypeInv, NEW w \in Workers, RunStep(w)
    PROVE  LET p == run[w].payload
               s == CurrentStep(p)
           IN  \/ /\ kind = "sequential" /\ s < NumSteps /\ s + 1 \in Steps
                  /\ Moves(w, "running", AtStep(p, s + 1))
               \/ kind = "sequential" /\ s = NumSteps /\ Moves(w, "finishing", p)
               \/ kind = "managed" /\ Moves(w, "finishing", p)
               \/ \E q \in Payloads : q.step = p.step /\ Moves(w, "spawning", q)
<1> DEFINE p == run[w].payload
<1>1. p \in Payloads /\ run \in [Workers -> Calls] /\ {"spawning", "finishing"} \subseteq Phases
  BY DEF TypeInv, Calls, Phases
<1>2. CASE kind = "sequential" /\ ContinueToNextStep(w, p)
  BY <1>1, <1>2, ContinueMoves
<1>3. CASE kind = "managed" /\ run' = [run EXCEPT ![w].pc = "finishing"]
  BY <1>1, <1>3, MovesWritten
<1>4. ASSUME NEW allow \in BOOLEAN,
             run' = [run EXCEPT ![w].pc = "spawning", ![w].payload.allowFailure = allow]
      PROVE  \E q \in Payloads : q.step = p.step /\ Moves(w, "spawning", q)
  <2> DEFINE q == [p EXCEPT !.allowFailure = allow]
  <2>1. q \in Payloads /\ q.step = p.step
    BY <1>1, PayloadOperations
  <2>2. run[w] \in Calls
    BY <1>1
  <2>3. run'[w] = [[run[w] EXCEPT !.pc = "spawning"] EXCEPT
                     !.payload = q]
    BY <1>1, <1>4, <2>2 DEF Calls
  <2>4. /\ run'[w] \in Calls /\ run'[w].pc = "spawning" /\ run'[w].token = run[w].token
        /\ run'[w].payload = q
    BY <1>1, <2>1, <2>2, <2>3 DEF Calls
  <2>5. \A v \in Workers \ {w} : run'[v] = run[v]
    BY <1>1, <1>4
  <2>6. run' \in [Workers -> Calls]
    BY <1>1, <1>4, <2>4, <2>5
  <2>7. Moves(w, "spawning", q)
    BY <2>4, <2>5, <2>6 DEF Moves
  <2> HIDE DEF q
  <2> QED
    BY <2>1, <2>7
<1> QED
  BY <1>2, <1>3, <1>4 DEF RunStep

(* The steps of an attempt that stay in the process. *)
LocalStep(w) == Begin(w) \/ Resume(w) \/ RunStep(w) \/ StepThrows(w)

LEMMA LocalMoves ==
    ASSUME TypeInv, NEW w \in Workers, LocalStep(w)
    PROVE  /\ run[w].pc # "idle" /\ UNCHANGED <<kind, parent, child, takes, settled>>
           /\ \E pc \in Phases, p \in Payloads :
                 Moves(w, pc, p) /\ (pc \in {"running", "spawning"} => p.step \in Steps)
           /\ ran' \subseteq Steps
<1> DEFINE p0 == run[w].payload
           q0 == WithoutChild(p0)
<1>0. p0 \in Payloads /\ q0 \in Payloads
  BY PayloadOperations DEF TypeInv, Calls
<1>1. run[w].pc # "idle" /\ UNCHANGED <<kind, parent, child, takes, settled>>
  BY DEF LocalStep, Begin, Resume, RunStep, StepThrows
<1>2. \E pc, p : Moves(w, pc, p) /\ (pc \in {"running", "spawning"} => p.step \in Steps)
  <2> HIDE DEF p0, q0
  <2>1. CASE StepThrows(w)
    <3>1. "failing" \in Phases /\ run \in [Workers -> Calls] /\ run[w].payload \in Payloads
      BY DEF Phases, TypeInv, Calls
    <3>2. run' = [run EXCEPT ![w].pc = "failing"]
      BY <2>1 DEF StepThrows
    <3>3. Moves(w, "failing", run[w].payload)
      BY <3>1, <3>2, MovesWritten
    <3> QED
      BY <3>3
  <2>2. CASE Begin(w)
    <3>1. \/ Moves(w, "failing", p0)
          \/ Moves(w, "running", AtStep(p0, CurrentStep(p0)))
          \/ p0.step + 1 \in Steps /\ Moves(w, "running", AtStep(p0, p0.step + 1))
      BY <2>2, BeginMoves DEF p0
    <3>2. CurrentStep(p0) \in Steps /\ \A s \in Steps : AtStep(p0, s).step = s
      BY <1>0, PayloadOperations, CurrentStepType
    <3> QED
      BY <3>1, <3>2
  <2>3. CASE Resume(w)
    <3>1. \/ Moves(w, "failing", p0)
          \/ Moves(w, "finishing", q0)
          \/ \E s \in Steps : Moves(w, "running", AtStep(q0, s))
      BY <2>3, ResumeMoves DEF p0, q0
    <3>2. \A s \in Steps : AtStep(q0, s).step = s
      BY <1>0, PayloadOperations
    <3> QED
      BY <3>1, <3>2
  <2>4. CASE RunStep(w)
    <3>1. \/ Moves(w, "finishing", p0)
          \/ \E s \in Steps : Moves(w, "running", AtStep(p0, s))
          \/ \E q \in Payloads : q.step = p0.step /\ Moves(w, "spawning", q)
      BY <2>4, RunStepMoves DEF p0
    <3>2. p0.step \in Steps /\ \A s \in Steps : AtStep(p0, s).step = s
      BY <1>0, <2>4, PayloadOperations DEF RunStep, TypeInv, p0
    <3> QED
      BY <3>1, <3>2
  <2> QED
    BY <2>1, <2>2, <2>3, <2>4 DEF LocalStep
<1>3. \A pc, p : Moves(w, pc, p) => pc \in Phases /\ p \in Payloads
  BY DEF Moves, Calls
<1>4. ran' \subseteq Steps
  BY DEF LocalStep, Begin, Resume, RunStep, StepThrows, TypeInv
<1> QED
  BY <1>1, <1>2, <1>3, <1>4

LEMMA DoneType ==
    ASSUME NEW w \in Workers, run \in [Workers -> Calls], Done(w)
    PROVE  /\ run' \in [Workers -> Calls] /\ run'[w].pc = "idle"
           /\ \A v \in Workers \ {w} : run'[v] = run[v]
<1>1. Idle \in Calls /\ Idle.pc = "idle"
  BY DEF Idle, Calls, Phases, Fresh, Payloads, Null
<1> QED
  BY <1>1 DEF Done

LEMMA TypeInvNext == TypeInv /\ [Next]_vars => TypeInv'
<1> SUFFICES ASSUME TypeInv, [Next]_vars
             PROVE  TypeInv'
  OBVIOUS
<1>0. /\ takes \in Nat /\ run \in [Workers -> Calls] /\ parent \in ParentRows
      /\ \A n \in Nat : 1..n \subseteq 1..(n + 1)
  BY DEF TypeInv
<1>1. CASE UNCHANGED vars
  BY <1>1 DEF vars, TypeInv, Owns
<1>2. ASSUME NEW w \in Workers, LocalStep(w)
      PROVE  TypeInv'
  <2>1. PICK pc \in Phases, p \in Payloads :
              Moves(w, pc, p) /\ (pc \in {"running", "spawning"} => p.step \in Steps)
    BY <1>2, LocalMoves
  <2>2. run[w].pc # "idle" /\ UNCHANGED <<kind, parent, child, takes, settled>> /\ ran' \subseteq Steps
    BY <1>2, LocalMoves
  <2> QED
    BY <2>1, <2>2 DEF TypeInv, Moves
<1>3. ASSUME NEW w \in Workers, Fetch(w)
      PROVE  TypeInv'
  <2>1. /\ takes' = takes + 1 /\ takes' \in Nat /\ takes' \in 0..MaxTakes
        /\ parent' = Taken(parent, takes') /\ CanRetry(parent)
    BY <1>0, <1>3, WorkflowAssumption DEF Fetch, TypeInv
  <2>2. /\ parent' \in ParentRows /\ parent'.status = "in_progress"
        /\ parent'.started = takes' /\ parent'.attempt >= 1
    BY <1>0, <2>1, TakenParent
  <2>3. run' = [run EXCEPT ![w] = [ pc |-> "resuming", token |-> takes', payload |-> parent.payload ]]
    BY <1>3 DEF Fetch
  <2>4. [ pc |-> "resuming", token |-> takes', payload |-> parent.payload ] \in Calls
    BY <1>0, <2>1 DEF Calls, Phases, ParentRows
  <2>5. run' \in [Workers -> Calls]
    BY <1>0, <2>3, <2>4
  <2>6. ASSUME NEW v \in Workers
        PROVE  /\ run'[v].pc # "idle" => run'[v].token \in 1..takes'
               /\ run'[v].pc \in {"running", "spawning"} => run'[v].payload.step \in Steps
    BY <1>0, <2>1, <2>3 DEF TypeInv
  <2> QED
    BY <1>3, <2>1, <2>2, <2>5, <2>6 DEF Fetch, TypeInv
<1>4. ASSUME NEW w \in Workers, Done(w), UNCHANGED <<kind, takes, ran, settled>>,
             parent' \in ParentRows,
             parent'.status = "in_progress" => parent' = parent,
             child' \in [TaskIds -> ChildRows]
      PROVE  TypeInv'
  BY <1>0, <1>4, DoneType DEF TypeInv
<1>5. ASSUME NEW w \in Workers, Finish(w)
      PROVE  TypeInv'
  <2>1. parent' \in ParentRows /\ (parent'.status = "in_progress" => parent' = parent)
    BY <1>0, <1>5, FinishWrites DEF Finish
  <2> QED
    BY <1>4, <1>5, <2>1 DEF Finish, TypeInv
<1>6. ASSUME NEW w \in Workers, NEW c \in TaskIds, Spawn(w, c)
      PROVE  TypeInv'
  <2>1. run[w].payload \in Payloads
    BY <1>6, SpawnWrites
  <2>3. parent' \in ParentRows /\ parent'.status = "blocked"
    BY <1>6, SpawnWrites
  <2>4. [ status |-> "pending", step |-> run[w].payload.step,
          allowFailure |-> run[w].payload.allowFailure ] \in ChildRows
    BY <2>1 DEF ChildRows, Payloads
  <2>5. child' \in [TaskIds -> ChildRows]
    BY <1>6, <2>4 DEF Spawn, TypeInv
  <2> QED
    BY <1>4, <1>6, <2>3, <2>5 DEF Spawn
<1>7. ASSUME NEW w \in Workers, SpawnLost(w) \/ Crash(w)
      PROVE  TypeInv'
  BY <1>4, <1>7 DEF SpawnLost, Crash, TypeInv
<1>8. ASSUME NEW w \in Workers, Fail(w)
      PROVE  TypeInv'
  <2>1. parent' \in ParentRows /\ (parent'.status = "in_progress" => parent' = parent)
    BY <1>0, <1>8, FailedParent DEF Fail, Owns, OwnedBy, TypeInv
  <2> QED
    BY <1>4, <1>8, <2>1 DEF Fail, TypeInv
<1>9. ASSUME UNCHANGED <<kind, child, run, takes, ran, settled>>, parent' \in ParentRows,
             parent'.status # "in_progress"
      PROVE  TypeInv'
  BY <1>9 DEF TypeInv
<1>10. CASE TimesOut
  <2>1. parent' \in ParentRows /\ parent'.status # "in_progress"
    BY <1>0, <1>10, FailedParent DEF TimesOut, TypeInv
  <2> QED
    BY <1>9, <1>10, <2>1 DEF TimesOut
<1>11. CASE Wake \/ RestartParent
  <2>1. parent' \in ParentRows /\ parent'.status # "in_progress"
    BY <1>0, <1>11, OtherParentWrites DEF Wake, RestartParent
  <2> QED
    BY <1>9, <1>11, <2>1 DEF Wake, RestartParent
<1>12. ASSUME NEW c \in TaskIds, ChildEnds(c) \/ RestartChild(c) \/ ClearFailedChild(c)
       PROVE  TypeInv'
  <2>1. PICK s \in {"finished", "error", "pending", "deleted"} : child' = [child EXCEPT ![c].status = s]
    BY <1>12 DEF ChildEnds, RestartChild, ClearFailedChild
  <2>2. child' \in [TaskIds -> ChildRows]
    BY <2>1 DEF TypeInv, ChildRows
  <2>3. settled' \subseteq TaskIds /\ UNCHANGED <<kind, parent, run, takes, ran>>
    BY <1>12 DEF ChildEnds, RestartChild, ClearFailedChild, TypeInv
  <2> QED
    BY <2>2, <2>3 DEF TypeInv
<1> QED
  BY <1>1, <1>2, <1>3, <1>5, <1>6, <1>7, <1>8, <1>10, <1>11, <1>12
     DEF Next, WorkerStep, LocalStep

THEOREM TypeInvariance == Spec => []TypeInv
<1>1. Init => TypeInv
  <2> SUFFICES ASSUME Init
               PROVE  TypeInv
    OBVIOUS
  <2>1. Fresh \in Payloads
    BY DEF Fresh, Payloads
  <2>2. parent \in ParentRows /\ parent.status = "pending"
    BY <2>1, TableAssumption, WorkflowAssumption DEF Init, ParentRows
  <2>3. child \in [TaskIds -> ChildRows]
    BY DEF Init, ChildRows
  <2>4. run \in [Workers -> Calls] /\ \A w \in Workers : run[w].pc = "idle"
    BY <2>1 DEF Init, Idle, Calls, Phases
  <2>5. /\ kind \in Kinds /\ takes \in 0..MaxTakes
        /\ ran \subseteq Steps /\ settled \subseteq TaskIds
    BY WorkflowAssumption DEF Init
  <2> QED
    BY <2>2, <2>3, <2>4, <2>5 DEF TypeInv
<1> QED
  BY <1>1, TypeInvNext, PTL DEF Spec

(* Every payload the parent is handed out with or writes back stands at a  *)
(* step of the list, and every column stays in its domain.                 *)
THEOREM TypeCorrect == Spec => []TypeOK
<1>1. TypeInv => TypeOK
  BY DEF TypeInv, TypeOK, ParentRows, ChildRows, Calls
<1> QED
  BY <1>1, TypeInvariance, PTL

-----------------------------------------------------------------------------
(* The inductive invariant: how the children, the payload in the row, the  *)
(* payloads of the attempts and the steps that ran stand to each other.    *)

Used       == { c \in TaskIds : child[c].step # NoStep }
AllSettled == Used \subseteq settled

(* No step gets a second child, and a task that is a child was spawned for *)
(* a step.                                                                 *)
OneEach ==
    /\ \A c \in TaskIds : child[c].status = "unused" <=> child[c].step = NoStep
    /\ \A c, d \in Used : child[c].step = child[d].step => c = d

(* The row stands at the step of its last child, those of earlier steps    *)
(* are settled.                                                            *)
BehindParent ==
    \A c \in Used : /\ child[c].step <= parent.payload.step
                    /\ child[c].step < parent.payload.step => c \in settled

WellEnded ==
    \A c \in TaskIds :
        \/ child[c].status = "finished"
        \/ child[c].status = "error" /\ kind = "sequential" /\ child[c].allowFailure
        => c \in settled

(* A payload an attempt can be handed out with: one of a fresh task, or    *)
(* one that waits for a child.                                             *)
Stands(p) == p = Fresh \/ (p.activeChild # NoTask /\ p.step \in Steps)

ParentStands ==
    /\ parent.status = "finished" => AllSettled
    /\ parent.status # "finished" =>
         /\ Stands(parent.payload)
         /\ parent.payload.activeChild # NoTask =>
              LET c == child[parent.payload.activeChild]
              IN  c.step = parent.payload.step /\ c.allowFailure = parent.payload.allowFailure

ChildInv == OneEach /\ BehindParent /\ WellEnded /\ ParentStands

(* How far a managed workflow counted: one run is ahead of the row.        *)
Bound == IF parent.status = "finished" THEN parent.payload.step ELSE parent.payload.step + 1

(* An attempt ran, itself or in a former one, what is behind its payload;  *)
(* one that owns the row goes on only when every child is settled, and its *)
(* step is then one no child was spawned for.                              *)
AttemptInv(w) ==
    LET p  == run[w].payload
        pc == run[w].pc
    IN  /\ pc = "resuming" => /\ 1..p.step \subseteq ran /\ Stands(p)
                              /\ Owns(w) => p = parent.payload
        /\ pc = "running" => p.step \in Steps /\ 1..(p.step - 1) \subseteq ran
        /\ pc \in {"spawning", "finishing"} => p.step \in Steps /\ 1..p.step \subseteq ran
        /\ pc = "finishing" /\ kind = "sequential" => p.step = NumSteps
        /\ Owns(w) /\ pc \in {"running", "spawning"} => AllSettled /\ parent.payload.step < p.step
        /\ Owns(w) /\ pc = "finishing" => AllSettled /\ parent.payload.step <= p.step
        /\ kind = "managed" =>
             /\ pc = "resuming" => p.step < Bound
             /\ pc \in {"running", "spawning", "finishing"} =>
                  p.step <= Bound /\ (Owns(w) => p.step = parent.payload.step + 1)

RanInv ==
    /\ 1..parent.payload.step \subseteq ran
    /\ kind = "managed" => ran \subseteq 1..Bound
    /\ parent.status = "finished" /\ kind = "sequential" => ran = Steps

WorkflowInv == ChildInv /\ RanInv /\ \A w \in Workers : AttemptInv(w)

(* An attempt that did not move, after a step that left it the row as it   *)
(* was or took it from it.                                                 *)
LEMMA AttemptKept ==
    ASSUME TypeInv, TypeInv', NEW w \in Workers, AttemptInv(w), run'[w] = run[w],
           ran \subseteq ran', kind' = kind, Bound <= Bound',
           Owns(w)' => Owns(w) /\ parent'.payload = parent.payload /\ (AllSettled => AllSettled')
    PROVE  AttemptInv(w)'
<1>1. run[w].payload.step \in Nat /\ Bound \in Nat /\ Bound' \in Nat
  BY WorkflowAssumption DEF TypeInv, Calls, ParentRows, Payloads, Bound, Steps, NoStep
<1> QED
  BY <1>1 DEF AttemptInv

LEMMA AttemptOver ==
    ASSUME NEW w \in Workers, run'[w].pc \in {"idle", "failing"}
    PROVE  AttemptInv(w)'
BY DEF AttemptInv

LEMMA BoundType == TypeInv => Bound \in Nat /\ parent.payload.step \in 0..NumSteps
BY WorkflowAssumption DEF TypeInv, ParentRows, Payloads, Bound, Steps, NoStep

(* A step that leaves the row to nobody, or as it was, and the payload in  *)
(* it untouched: failures, time-outs, wake-ups, restarts and crashes.      *)
LEMMA RowKept ==
    ASSUME TypeInv, TypeInv', WorkflowInv,
           UNCHANGED <<kind, child, takes, ran, settled>>,
           parent' = parent \/ /\ parent'.payload = parent.payload
                               /\ parent.status # "finished"
                               /\ parent'.status \notin {"finished", "in_progress"},
           run' = run \/ \E w \in Workers : Done(w)
    PROVE  WorkflowInv'
<1>1. Bound' = Bound /\ (parent'.status = "finished" <=> parent.status = "finished")
      /\ parent'.payload = parent.payload
  BY DEF Bound
<1>2. Used' = Used /\ (AllSettled' <=> AllSettled)
  BY DEF Used, AllSettled
<1>3. ChildInv'
  BY <1>1, <1>2 DEF WorkflowInv, ChildInv, OneEach, BehindParent, WellEnded, ParentStands
<1>4. RanInv'
  BY <1>1 DEF WorkflowInv, RanInv
<1>5. ASSUME NEW w \in Workers
      PROVE  AttemptInv(w)'
  <2>1. CASE run'[w] = run[w]
    <3>1. Owns(w)' => Owns(w)
      BY <2>1 DEF Owns, OwnedBy
    <3> QED
      BY <1>1, <1>2, <2>1, <3>1, AttemptKept, BoundType DEF WorkflowInv
  <2>2. CASE run'[w] # run[w]
    <3>1. run'[w].pc = "idle"
      BY <2>2, DoneType DEF TypeInv
    <3> QED
      BY <3>1, AttemptOver
  <2> QED
    BY <2>1, <2>2
<1> QED
  BY <1>3, <1>4, <1>5 DEF WorkflowInv

(* A child that lets the attempt that owns the row go on leaves no child   *)
(* unsettled.                                                              *)
LEMMA ResumedSettled ==
    ASSUME TypeInv, WorkflowInv, NEW w \in Workers, run[w].pc = "resuming", Owns(w),
           run[w].payload.activeChild # NoTask,
           MayGoOn(run[w].payload, child[run[w].payload.activeChild])
    PROVE  AllSettled
<1> DEFINE p == run[w].payload
           c == p.activeChild
<1>1. p = parent.payload /\ parent.status # "finished" /\ p \in Payloads
  BY DEF WorkflowInv, AttemptInv, Owns, OwnedBy, TypeInv, Calls
<1>2. c \in TaskIds /\ child[c].step = p.step /\ child[c].allowFailure = p.allowFailure
      /\ p.step \in Steps
  BY <1>1 DEF WorkflowInv, ChildInv, ParentStands, Stands, Payloads, Fresh
<1>3. c \in settled
  BY <1>2 DEF MayGoOn, WorkflowInv, ChildInv, WellEnded
<1>4. c \in Used
  BY <1>2, WorkflowAssumption DEF Used, Steps, NoStep
<1>5. ASSUME NEW d \in Used, d # c
      PROVE  d \in settled
  <2>1. child[d].step <= p.step /\ child[d].step # p.step
    BY <1>1, <1>2, <1>4, <1>5 DEF WorkflowInv, ChildInv, BehindParent, OneEach
  <2>2. child[d].step \in Nat /\ p.step \in Nat
    BY <1>1 DEF Used, TypeInv, ChildRows, Payloads, Steps, NoStep
  <2> QED
    BY <1>1, <2>1, <2>2 DEF WorkflowInv, ChildInv, BehindParent
<1> QED
  BY <1>3, <1>5 DEF AllSettled

(* Where the attempt w is after a step of its own.                         *)
LEMMA Moved ==
    ASSUME TypeInv, NEW w \in Workers, NEW pc, NEW q \in Payloads, Moves(w, pc, q),
           UNCHANGED <<kind, parent, child, takes, settled>>,
           \/ pc = "failing"
           \/ /\ pc = "running" /\ q.step \in Steps /\ 1..(q.step - 1) \subseteq ran'
              /\ Owns(w) => AllSettled /\ parent.payload.step < q.step
           \/ /\ pc \in {"spawning", "finishing"} /\ q.step \in Steps /\ 1..q.step \subseteq ran'
              /\ Owns(w) => /\ AllSettled /\ parent.payload.step <= q.step
                            /\ pc = "spawning" => parent.payload.step < q.step
              /\ pc = "finishing" /\ kind = "sequential" => q.step = NumSteps,
           kind = "managed" /\ pc # "failing" =>
               q.step <= Bound /\ (Owns(w) => q.step = parent.payload.step + 1)
    PROVE  AttemptInv(w)'
<1>1. run'[w].pc = pc /\ run'[w].payload = q /\ (Owns(w)' <=> Owns(w)) /\ Bound' = Bound
  BY DEF Moves, Owns, OwnedBy, Bound
<1>2. (AllSettled' <=> AllSettled) /\ parent' = parent /\ kind' = kind
  BY DEF AllSettled, Used
<1> QED
  BY <1>1, <1>2 DEF AttemptInv

LEMMA BeginKeeps ==
    ASSUME TypeInv, WorkflowInv, NEW w \in Workers, Begin(w)
    PROVE  AttemptInv(w)'
<1> DEFINE p == run[w].payload
<1>0. /\ run[w].pc = "resuming" /\ p.activeChild = NoTask /\ p \in Payloads
      /\ UNCHANGED <<kind, parent, child, takes, settled>>
  BY DEF Begin, TypeInv, Calls
<1>1. p = Fresh /\ p.step = 0 /\ CurrentStep(p) = 1 /\ 1 \in Steps
  <2>1. p = Fresh
    BY <1>0 DEF WorkflowInv, AttemptInv, Stands
  <2>2. p.step = 0
    BY <2>1 DEF Fresh, NoStep
  <2> QED
    BY <2>1, <2>2, WorkflowAssumption DEF CurrentStep, NoStep, Steps
<1>2. /\ AtStep(p, 1) \in Payloads /\ AtStep(p, 1).step = 1
  BY <1>0, <1>1, PayloadOperations
<1>3. ASSUME Owns(w)
      PROVE  AllSettled /\ parent.payload.step = 0
  <2>1. parent.payload.step = 0
    BY <1>0, <1>1, <1>3 DEF WorkflowInv, AttemptInv
  <2>2. Used = {}
    BY <2>1 DEF Used, WorkflowInv, ChildInv, BehindParent, TypeInv, ChildRows, Steps, NoStep
  <2> QED
    BY <2>1, <2>2 DEF AllSettled
<1>4. kind = "managed" => 1 <= Bound
  BY <1>0, <1>1, BoundType DEF WorkflowInv, AttemptInv
<1>5. Moves(w, "failing", p) \/ Moves(w, "running", AtStep(p, 1))
  BY <1>1, BeginMoves
<1>6. 1..(1 - 1) \subseteq ran'
  OBVIOUS
<1> HIDE DEF p
<1>7. CASE Moves(w, "failing", p)
  BY <1>0, <1>7, Moved
<1>8. CASE Moves(w, "running", AtStep(p, 1))
  BY <1>0, <1>1, <1>2, <1>3, <1>4, <1>6, <1>8, Moved
<1> QED
  BY <1>5, <1>7, <1>8

LEMMA ResumeKeeps ==
    ASSUME TypeInv, WorkflowInv, NEW w \in Workers, Resume(w)
    PROVE  AttemptInv(w)'
<1> DEFINE p == run[w].payload
           q == WithoutChild(p)
<1>0. /\ run[w].pc = "resuming" /\ p.activeChild # NoTask /\ p \in Payloads
      /\ UNCHANGED <<kind, parent, child, takes, settled, ran>>
  BY DEF Resume, TypeInv, Calls
<1>1. q \in Payloads /\ q.step = p.step
  BY <1>0, PayloadOperations
<1>2. p.step \in Steps /\ 1..p.step \subseteq ran
  BY <1>0 DEF WorkflowInv, AttemptInv, Stands, Fresh
<1>3. CurrentStep(q) = q.step
  BY <1>1, <1>2, CurrentStepType
<1>4. MayGoOn(p, child[p.activeChild]) /\ Owns(w) => AllSettled
  BY <1>0, ResumedSettled
<1>5. Owns(w) => parent.payload.step = q.step
  BY <1>0, <1>1 DEF WorkflowInv, AttemptInv
<1>6. kind = "managed" => q.step + 1 <= Bound
  BY <1>0, <1>1, <1>2, BoundType DEF WorkflowInv, AttemptInv, Steps
<1>7. \/ Moves(w, "failing", p)
      \/ MayGoOn(p, child[p.activeChild]) /\ q.step + 1 \in Steps /\ Moves(w, "running", AtStep(q, q.step + 1))
      \/ /\ MayGoOn(p, child[p.activeChild]) /\ kind = "sequential" /\ q.step = NumSteps
         /\ Moves(w, "finishing", q)
  BY <1>3, ResumeMoves
<1>8. q.step \in Nat /\ q.step + 1 - 1 = q.step
  BY <1>1, <1>2 DEF Steps
<1> HIDE DEF p, q
<1>9. CASE Moves(w, "failing", p)
  BY <1>0, <1>9, Moved
<1>10. CASE /\ MayGoOn(p, child[p.activeChild]) /\ q.step + 1 \in Steps
            /\ Moves(w, "running", AtStep(q, q.step + 1))
  <2>1. AtStep(q, q.step + 1) \in Payloads /\ AtStep(q, q.step + 1).step = q.step + 1
    BY <1>1, <1>10, PayloadOperations
  <2> DEFINE r == AtStep(q, q.step + 1)
  <2>2. r.step - 1 = q.step /\ 1..(r.step - 1) \subseteq ran'
    BY <1>0, <1>1, <1>2, <1>8, <2>1
  <2>3. Owns(w) => AllSettled /\ parent.payload.step < r.step /\ r.step = parent.payload.step + 1
    BY <1>4, <1>5, <1>8, <1>10, <2>1
  <2> HIDE DEF r
  <2>4. r \in Payloads /\ r.step \in Steps /\ Moves(w, "running", r) /\ (kind = "managed" => r.step <= Bound)
    BY <1>6, <1>10, <2>1 DEF r
  <2> QED
    BY <1>0, <2>2, <2>3, <2>4, Moved
<1>11. CASE /\ MayGoOn(p, child[p.activeChild]) /\ kind = "sequential" /\ q.step = NumSteps
            /\ Moves(w, "finishing", q)
  BY <1>0, <1>1, <1>2, <1>4, <1>5, <1>8, <1>11, Moved
<1> QED
  BY <1>7, <1>9, <1>10, <1>11

LEMMA RunStepKeeps ==
    ASSUME TypeInv, WorkflowInv, NEW w \in Workers, RunStep(w)
    PROVE  AttemptInv(w)'
<1> DEFINE p == run[w].payload
<1>0. /\ run[w].pc = "running" /\ p \in Payloads /\ ran' = ran \cup {p.step}
      /\ UNCHANGED <<kind, parent, child, takes, settled>>
  BY DEF RunStep, TypeInv, Calls
<1>1. p.step \in Steps /\ 1..(p.step - 1) \subseteq ran /\ p.step \in Nat
  BY <1>0 DEF WorkflowInv, AttemptInv, Steps
<1>2. 1..p.step \subseteq ran'
  BY <1>0, <1>1
<1>3. Owns(w) => AllSettled /\ parent.payload.step < p.step
  BY <1>0 DEF WorkflowInv, AttemptInv
<1>4. kind = "managed" => p.step <= Bound /\ (Owns(w) => p.step = parent.payload.step + 1)
  BY <1>0 DEF WorkflowInv, AttemptInv
<1>5. CurrentStep(p) = p.step
  BY <1>0, <1>1, CurrentStepType
<1>6. \/ /\ kind = "sequential" /\ p.step + 1 \in Steps
         /\ Moves(w, "running", AtStep(p, p.step + 1))
      \/ (kind = "sequential" => p.step = NumSteps) /\ Moves(w, "finishing", p)
      \/ \E q \in Payloads : q.step = p.step /\ Moves(w, "spawning", q)
  BY <1>5, RunStepMoves
<1>7. parent.payload.step \in Nat
  BY BoundType
<1> HIDE DEF p
<1>8. CASE /\ kind = "sequential" /\ p.step + 1 \in Steps
           /\ Moves(w, "running", AtStep(p, p.step + 1))
  <2> DEFINE r == AtStep(p, p.step + 1)
  <2>1. r \in Payloads /\ r.step = p.step + 1
    BY <1>0, <1>8, PayloadOperations
  <2>2. r.step - 1 = p.step /\ (Owns(w) => AllSettled /\ parent.payload.step < r.step)
    BY <1>1, <1>3, <1>7, <2>1
  <2>3. Moves(w, "running", r) /\ r.step \in Steps
    BY <1>8, <2>1
  <2> HIDE DEF r
  <2> QED
    BY <1>0, <1>2, <1>8, <2>1, <2>2, <2>3, Moved
<1>9. CASE (kind = "sequential" => p.step = NumSteps) /\ Moves(w, "finishing", p)
  BY <1>0, <1>1, <1>2, <1>3, <1>4, <1>7, <1>9, Moved
<1>10. ASSUME NEW q \in Payloads, q.step = p.step, Moves(w, "spawning", q)
       PROVE  AttemptInv(w)'
  BY <1>0, <1>1, <1>2, <1>3, <1>4, <1>7, <1>10, Moved
<1> QED
  BY <1>6, <1>8, <1>9, <1>10

LEMMA LocalKeeps ==
    ASSUME TypeInv, TypeInv', WorkflowInv, NEW w \in Workers, LocalStep(w)
    PROVE  WorkflowInv'
<1>1. UNCHANGED <<kind, parent, child, takes, settled>> /\ Bound' = Bound
      /\ (AllSettled' <=> AllSettled) /\ Used' = Used
  BY LocalMoves DEF Bound, AllSettled, Used
<1>2. ran \subseteq ran' /\ ran' \subseteq Steps /\ ran' \subseteq ran \cup {run[w].payload.step}
      /\ (ran' = ran \/ RunStep(w))
  BY DEF LocalStep, Begin, Resume, RunStep, StepThrows, TypeInv
<1>3. ChildInv'
  BY <1>1 DEF WorkflowInv, ChildInv, OneEach, BehindParent, WellEnded, ParentStands
<1>4. RanInv'
  <2>1. ASSUME kind = "managed", RunStep(w)
        PROVE  run[w].payload.step \in 1..Bound
    BY <2>1, BoundType DEF RunStep, WorkflowInv, AttemptInv, Steps
  <2> QED
    BY <1>1, <1>2, <2>1 DEF WorkflowInv, RanInv
<1>5. ASSUME NEW v \in Workers, v # w
      PROVE  AttemptInv(v)'
  <2>1. run'[v] = run[v]
    BY <1>5, LocalMoves DEF Moves
  <2>2. Owns(v)' => Owns(v)
    BY <1>1, <2>1 DEF Owns, OwnedBy
  <2> QED
    BY <1>1, <1>2, <2>1, <2>2, AttemptKept, BoundType DEF WorkflowInv
<1>6. AttemptInv(w)'
  <2>1. CASE StepThrows(w)
    <3>1. run'[w].pc = "failing"
      BY <2>1 DEF StepThrows, TypeInv, Calls
    <3> QED
      BY <3>1, AttemptOver
  <2> QED
    BY <2>1, BeginKeeps, ResumeKeeps, RunStepKeeps DEF LocalStep
<1> QED
  BY <1>3, <1>4, <1>5, <1>6 DEF WorkflowInv

(* A hand-out gives the row to an attempt that stands where the row does   *)
(* and leaves no other attempt an owner.                                   *)
LEMMA FetchKeeps ==
    ASSUME TypeInv, TypeInv', WorkflowInv, NEW w \in Workers, Fetch(w)
    PROVE  WorkflowInv'
<1>1. /\ takes' = takes + 1 /\ takes \in Nat /\ takes' \in Nat
      /\ parent' = Taken(parent, takes') /\ CanRetry(parent) /\ parent.status = "pending"
      /\ UNCHANGED <<kind, child, ran, settled>>
  BY DEF Fetch, TypeInv
<1>2. parent'.status = "in_progress" /\ parent'.started = takes' /\ parent'.payload = parent.payload
  BY <1>1, TakenParent DEF TypeInv
<1>3. Bound' = Bound /\ Bound = parent.payload.step + 1
  BY <1>1, <1>2 DEF Bound
<1>4. (AllSettled' <=> AllSettled) /\ Used' = Used
  BY <1>1 DEF AllSettled, Used
<1>5. ChildInv'
  BY <1>1, <1>2, <1>4 DEF WorkflowInv, ChildInv, OneEach, BehindParent, WellEnded, ParentStands
<1>6. RanInv'
  BY <1>1, <1>2, <1>3 DEF WorkflowInv, RanInv
<1>7. /\ run' = [run EXCEPT ![w] = [ pc |-> "resuming", token |-> takes', payload |-> parent.payload ]]
      /\ run \in [Workers -> Calls]
  BY DEF Fetch, TypeInv
<1>8. ASSUME NEW v \in Workers, v # w
      PROVE  AttemptInv(v)'
  <2>1. run'[v] = run[v]
    BY <1>7, <1>8
  <2>2. CASE run[v].pc = "idle"
    BY <2>1, <2>2, AttemptOver
  <2>3. CASE run[v].pc # "idle"
    <3>1. run[v].token \in 1..takes
      BY <2>3 DEF TypeInv
    <3>2. ~Owns(v)'
      BY <1>1, <1>2, <2>1, <3>1 DEF Owns, OwnedBy
    <3> QED
      BY <1>1, <1>3, <2>1, <3>2, AttemptKept, BoundType DEF WorkflowInv
  <2> QED
    BY <2>2, <2>3
<1>9. AttemptInv(w)'
  <2>1. run'[w].pc = "resuming" /\ run'[w].payload = parent.payload
    BY <1>7
  <2>2. Stands(parent.payload) /\ 1..parent.payload.step \subseteq ran
    BY <1>1 DEF WorkflowInv, ChildInv, ParentStands, RanInv
  <2>3. parent.payload.step < Bound
    BY <1>3, BoundType
  <2> QED
    BY <1>1, <1>2, <1>3, <2>1, <2>2, <2>3 DEF AttemptInv
<1> QED
  BY <1>5, <1>6, <1>8, <1>9 DEF WorkflowInv

LEMMA FinishKeeps ==
    ASSUME TypeInv, TypeInv', WorkflowInv, NEW w \in Workers, Finish(w), Owns(w)
    PROVE  WorkflowInv'
<1> DEFINE p == run[w].payload
<1>1. /\ run[w].pc = "finishing" /\ Done(w) /\ UNCHANGED <<kind, child, takes, ran, settled>>
      /\ p \in Payloads /\ parent.status = "in_progress" /\ run \in [Workers -> Calls]
  BY DEF Finish, TypeInv, Calls, Owns, OwnedBy
<1>2. parent'.status = "finished" /\ parent'.payload = p
  BY FinishWrites
<1>3. /\ AllSettled /\ parent.payload.step <= p.step /\ p.step \in Steps
      /\ 1..p.step \subseteq ran
      /\ kind = "sequential" => p.step = NumSteps
      /\ kind = "managed" => p.step = parent.payload.step + 1
  BY <1>1 DEF WorkflowInv, AttemptInv
<1>4. p.step \in Nat /\ parent.payload.step \in Nat /\ Bound \in Nat
  BY <1>3, BoundType DEF Steps
<1>5. Used' = Used /\ AllSettled'
  BY <1>1, <1>3 DEF Used, AllSettled
<1>6. Bound' = p.step /\ Bound = parent.payload.step + 1 /\ (kind = "managed" => Bound' = Bound)
  BY <1>1, <1>2, <1>3, <1>4 DEF Bound
<1>7. \A c \in Used : child[c].step <= p.step /\ c \in settled
  <2>1. \A c \in Used : child[c].step <= parent.payload.step /\ child[c].step \in Nat
    BY DEF WorkflowInv, ChildInv, BehindParent, Used, TypeInv, ChildRows, Steps, NoStep
  <2> QED
    BY <1>3, <1>4, <2>1 DEF AllSettled
<1>8. ChildInv'
  BY <1>1, <1>2, <1>5, <1>7 DEF WorkflowInv, ChildInv, OneEach, BehindParent, WellEnded, ParentStands
<1>9. RanInv'
  <2>1. kind = "sequential" => ran = Steps
    BY <1>3 DEF TypeInv, Steps
  <2> QED
    BY <1>1, <1>2, <1>3, <1>6, <2>1 DEF WorkflowInv, RanInv
<1>10. ASSUME NEW v \in Workers
       PROVE  AttemptInv(v)'
  <2>1. CASE v = w
    BY <1>1, <2>1, DoneType, AttemptOver
  <2>2. CASE v # w /\ kind = "managed"
    <3>1. run'[v] = run[v] /\ ~Owns(v)'
      BY <1>1, <1>2, <2>2, DoneType DEF Owns, OwnedBy
    <3> QED
      BY <1>1, <1>4, <1>6, <2>2, <3>1, AttemptKept DEF WorkflowInv
  <2>3. CASE v # w /\ kind # "managed"
    <3>1. run'[v] = run[v] /\ ~Owns(v)' /\ AttemptInv(v)
      BY <1>1, <1>2, <2>3, DoneType DEF Owns, OwnedBy, WorkflowInv
    <3> QED
      BY <1>1, <2>3, <3>1 DEF AttemptInv
  <2> QED
    BY <2>1, <2>2, <2>3
<1> QED
  BY <1>8, <1>9, <1>10 DEF WorkflowInv

(* The step of the new child is one no child has, and every other child is *)
(* settled.                                                                *)
LEMMA SpawnKeeps ==
    ASSUME TypeInv, TypeInv', WorkflowInv, NEW w \in Workers, NEW c \in TaskIds, Spawn(w, c)
    PROVE  WorkflowInv'
<1> DEFINE p == run[w].payload
           q == [p EXCEPT !.activeChild = c]
           row == [status |-> "pending", step |-> p.step, allowFailure |-> p.allowFailure]
<1>1. /\ run[w].pc = "spawning" /\ Owns(w) /\ child[c].status = "unused" /\ Done(w)
      /\ UNCHANGED <<kind, takes, ran, settled>>
      /\ child' = [child EXCEPT ![c] = row]
      /\ child \in [TaskIds -> ChildRows]
      /\ p \in Payloads /\ parent.status = "in_progress"
      /\ run \in [Workers -> Calls]
  BY DEF Spawn, IsNextId, TypeInv, Calls, Owns, OwnedBy
<1>2. /\ q \in Payloads /\ q.step = p.step /\ q.activeChild = c
      /\ q.allowFailure = p.allowFailure
  BY <1>1, PayloadOperations
<1> HIDE DEF q
<1>3. parent'.status = "blocked" /\ parent'.payload = q
  BY SpawnWrites DEF q
<1>4. /\ AllSettled /\ parent.payload.step < p.step /\ p.step \in Steps
      /\ 1..p.step \subseteq ran
      /\ kind = "managed" => p.step = parent.payload.step + 1
  BY <1>1 DEF WorkflowInv, AttemptInv
<1>5. p.step \in Nat /\ p.step # NoStep /\ parent.payload.step \in Nat /\ c # NoTask
  BY <1>4, BoundType DEF Steps, NoStep, TaskIds, NoTask
<1>6. child'[c] = row /\ \A d \in TaskIds \ {c} : child'[d] = child[d]
  BY <1>1
<1>7. c \notin Used
  BY <1>1 DEF WorkflowInv, ChildInv, OneEach, Used
<1>8. Used' = Used \cup {c}
  BY <1>5, <1>6 DEF Used
<1>9. \A d \in Used : /\ d \in settled /\ child'[d] = child[d]
                     /\ child[d].step < p.step /\ child[d].step # p.step
  <2>1. \A d \in Used : child[d].step <= parent.payload.step /\ child[d].step \in Nat
    BY DEF WorkflowInv, ChildInv, BehindParent, Used, TypeInv, ChildRows, Steps, NoStep
  <2> QED
    BY <1>4, <1>5, <1>6, <1>7, <2>1 DEF AllSettled, Used
<1>10. child'[c].step = p.step /\ child'[c].status = "pending"
       /\ child'[c].allowFailure = p.allowFailure
  BY <1>6
<1>11. OneEach'
  <2>1. \A d \in TaskIds : child'[d].status = "unused" <=> child'[d].step = NoStep
    BY <1>5, <1>6, <1>10 DEF WorkflowInv, ChildInv, OneEach
  <2>2. ASSUME NEW d \in Used', NEW e \in Used', child'[d].step = child'[e].step
        PROVE  d = e
    BY <1>8, <1>9, <1>10, <2>2 DEF WorkflowInv, ChildInv, OneEach
  <2> QED
    BY <2>1, <2>2 DEF OneEach
<1>12. BehindParent'
  <2>1. ASSUME NEW d \in Used'
        PROVE  child'[d].step <= p.step /\ (child'[d].step < p.step => d \in settled)
    <3>1. CASE d = c
      BY <1>5, <1>10, <3>1
    <3>2. CASE d \in Used
      <4>1. child[d].step \in Nat
        BY <3>2 DEF Used, TypeInv, ChildRows, Steps, NoStep
      <4> QED
        BY <1>5, <1>9, <3>2, <4>1
    <3> QED
      BY <1>8, <3>1, <3>2
  <2> QED
    BY <1>1, <1>2, <1>3, <2>1 DEF BehindParent
<1>13. WellEnded'
  BY <1>1, <1>6, <1>10 DEF WorkflowInv, ChildInv, WellEnded
<1>14. ParentStands'
  BY <1>2, <1>3, <1>4, <1>5, <1>10 DEF ParentStands, Stands
<1>15. Bound' = p.step + 1 /\ Bound = parent.payload.step + 1 /\ Bound <= Bound'
  BY <1>1, <1>2, <1>3, <1>4, <1>5 DEF Bound
<1>16. RanInv'
  <2>1. kind = "managed" => ran \subseteq 1..Bound'
    <3>1. 1..Bound \subseteq 1..Bound'
      BY <1>5, <1>15
    <3> QED
      BY <3>1 DEF WorkflowInv, RanInv
  <2> QED
    BY <1>1, <1>2, <1>3, <1>4, <2>1 DEF RanInv
<1>17. ASSUME NEW v \in Workers
       PROVE  AttemptInv(v)'
  <2>1. CASE v = w
    BY <1>1, <2>1, DoneType, AttemptOver
  <2>2. CASE v # w
    <3>1. run'[v] = run[v] /\ ~Owns(v)'
      BY <1>1, <1>3, <2>2, DoneType DEF Owns, OwnedBy
    <3> QED
      BY <1>1, <1>15, <3>1, AttemptKept DEF WorkflowInv
  <2> QED
    BY <2>1, <2>2
<1> QED
  BY <1>11, <1>12, <1>13, <1>14, <1>16, <1>17 DEF WorkflowInv, ChildInv

LEMMA ChildKeeps ==
    ASSUME TypeInv, TypeInv', WorkflowInv, NEW c \in TaskIds,
           ChildEnds(c) \/ RestartChild(c) \/ ClearFailedChild(c)
    PROVE  WorkflowInv'
<1>1. UNCHANGED <<kind, parent, run, takes, ran>> /\ settled \subseteq settled'
  BY DEF ChildEnds, RestartChild, ClearFailedChild
<1>2. PICK s \in {"finished", "error", "pending", "deleted"} :
        /\ child[c].status \in {"pending", "error"} /\ child' = [child EXCEPT ![c].status = s]
        /\ \/ s \in {"pending", "deleted"}
           \/ s = "finished" /\ c \in settled'
           \/ s = "error" /\ (kind = "sequential" /\ child[c].allowFailure => c \in settled')
  BY DEF ChildEnds, RestartChild, ClearFailedChild
<1>3. /\ child'[c].status = s /\ child'[c].step = child[c].step
      /\ child'[c].allowFailure = child[c].allowFailure
      /\ \A d \in TaskIds \ {c} : child'[d] = child[d]
  BY <1>2 DEF TypeInv, ChildRows
<1>4. Used' = Used /\ (AllSettled => AllSettled') /\ Bound' = Bound
  BY <1>1, <1>3 DEF Used, AllSettled, Bound
<1>5. \A d \in TaskIds :
        /\ child'[d].step = child[d].step
        /\ child'[d].allowFailure = child[d].allowFailure
        /\ child'[d].status = "unused" <=> child[d].status = "unused"
  BY <1>2, <1>3
<1>6. OneEach' /\ BehindParent'
  <2>1. Used \subseteq TaskIds /\ OneEach /\ BehindParent
    BY DEF Used, WorkflowInv, ChildInv
  <2>2. OneEach'
    BY <1>4, <1>5, <2>1 DEF OneEach
  <2>3. BehindParent'
    BY <1>1, <1>4, <1>5, <2>1 DEF BehindParent
  <2> QED
    BY <2>2, <2>3
<1>7. WellEnded'
  BY <1>1, <1>2, <1>3 DEF WorkflowInv, ChildInv, WellEnded
<1>8. ParentStands'
  <2>1. parent.payload.activeChild # NoTask => parent.payload.activeChild \in TaskIds
    BY DEF TypeInv, ParentRows, Payloads
  <2>2. ParentStands
    BY DEF WorkflowInv, ChildInv
  <2> QED
    BY <1>1, <1>4, <1>5, <2>1, <2>2 DEF ParentStands
<1>9. RanInv'
  BY <1>1, <1>4 DEF WorkflowInv, RanInv
<1>10. ASSUME NEW v \in Workers
       PROVE  AttemptInv(v)'
  <2>1. Owns(v)' <=> Owns(v)
    BY <1>1 DEF Owns, OwnedBy
  <2> QED
    BY <1>1, <1>4, <2>1, AttemptKept, BoundType DEF WorkflowInv
<1> QED
  BY <1>6, <1>7, <1>8, <1>9, <1>10 DEF WorkflowInv, ChildInv

LEMMA WorkflowInvNext == TypeInv /\ WorkflowInv /\ [Next]_vars => WorkflowInv'
<1> SUFFICES ASSUME TypeInv, WorkflowInv, [Next]_vars
             PROVE  WorkflowInv'
  OBVIOUS
<1>0. TypeInv' /\ parent \in ParentRows
  BY TypeInvNext DEF TypeInv
<1>1. CASE UNCHANGED vars
  BY <1>0, <1>1, RowKept DEF vars
<1>2. ASSUME NEW w \in Workers, LocalStep(w)
      PROVE  WorkflowInv'
  BY <1>0, <1>2, LocalKeeps
<1>3. ASSUME NEW w \in Workers, Fetch(w)
      PROVE  WorkflowInv'
  BY <1>0, <1>3, FetchKeeps
<1>4. ASSUME NEW w \in Workers, Finish(w)
      PROVE  WorkflowInv'
  <2>1. CASE ~Owns(w)
    BY <1>0, <1>4, <2>1, RowKept DEF Finish
  <2> QED
    BY <1>0, <1>4, <2>1, FinishKeeps
<1>5. ASSUME NEW w \in Workers, NEW c \in TaskIds, Spawn(w, c)
      PROVE  WorkflowInv'
  BY <1>0, <1>5, SpawnKeeps
<1>6. ASSUME NEW w \in Workers, SpawnLost(w) \/ Crash(w)
      PROVE  WorkflowInv'
  BY <1>0, <1>6, RowKept DEF SpawnLost, Crash
<1>7. ASSUME NEW w \in Workers, Fail(w)
      PROVE  WorkflowInv'
  <2>1. \/ parent' = parent
        \/ /\ parent'.payload = parent.payload /\ parent.status # "finished"
           /\ parent'.status \notin {"finished", "in_progress"}
    BY <1>0, <1>7, FailedParent DEF Fail, Owns, OwnedBy, TypeInv
  <2> QED
    BY <1>0, <1>7, <2>1, RowKept DEF Fail
<1>8. CASE TimesOut
  <2>1. /\ parent'.payload = parent.payload /\ parent.status # "finished"
        /\ parent'.status \notin {"finished", "in_progress"}
    BY <1>0, <1>8, FailedParent DEF TimesOut, TypeInv
  <2> QED
    BY <1>0, <1>8, <2>1, RowKept DEF TimesOut
<1>9. CASE Wake \/ RestartParent
  <2>1. /\ parent'.payload = parent.payload /\ parent.status # "finished"
        /\ parent'.status \notin {"finished", "in_progress"}
    BY <1>0, <1>9, OtherParentWrites DEF Wake, RestartParent
  <2> QED
    BY <1>0, <1>9, <2>1, RowKept DEF Wake, RestartParent
<1>10. ASSUME NEW c \in TaskIds, ChildEnds(c) \/ RestartChild(c) \/ ClearFailedChild(c)
       PROVE  WorkflowInv'
  BY <1>0, <1>10, ChildKeeps
<1> QED
  BY <1>1, <1>2, <1>3, <1>4, <1>5, <1>6, <1>7, <1>8, <1>9, <1>10
     DEF Next, WorkerStep, LocalStep

THEOREM WorkflowInvariance == Spec => []WorkflowInv
<1>1. Init => WorkflowInv
  <2> SUFFICES ASSUME Init
               PROVE  WorkflowInv
    OBVIOUS
  <2>1. /\ \A c \in TaskIds : child[c].status = "unused" /\ child[c].step = NoStep
        /\ parent.status = "pending" /\ parent.payload = Fresh /\ ran = {}
        /\ \A w \in Workers : run[w].pc = "idle"
    BY DEF Init, Idle
  <2>2. Used = {} /\ AllSettled /\ parent.payload.step = 0 /\ parent.payload.activeChild = NoTask
    BY <2>1 DEF Used, AllSettled, Fresh, NoStep
  <2>3. ChildInv
    BY <2>1, <2>2 DEF ChildInv, OneEach, BehindParent, WellEnded, ParentStands, Stands
  <2>4. RanInv
    BY <2>1, <2>2 DEF RanInv
  <2>5. \A w \in Workers : AttemptInv(w)
    BY <2>1 DEF AttemptInv
  <2> QED
    BY <2>3, <2>4, <2>5 DEF WorkflowInv
<1> QED
  BY <1>1, WorkflowInvNext, TypeInvariance, PTL DEF Spec

-----------------------------------------------------------------------------
(* No retry, no late attempt, no early wake-up and no restart gives a step *)
(* a second child.                                                         *)
THEOREM OneChildPerStepCorrect == Spec => []OneChildPerStep
<1>1. ASSUME TypeInv, WorkflowInv, NEW s \in Steps
      PROVE  Cardinality(SpawnedFor(s)) <= 1
  <2>1. SpawnedFor(s) \subseteq Used
    BY DEF SpawnedFor, Used, Steps, NoStep
  <2>2. \A c, d \in SpawnedFor(s) : c = d
    BY <1>1, <2>1 DEF SpawnedFor, WorkflowInv, ChildInv, OneEach
  <2>3. CASE SpawnedFor(s) = {}
    BY <2>3, FS_EmptySet
  <2>4. ASSUME NEW c \in SpawnedFor(s)
        PROVE  Cardinality(SpawnedFor(s)) <= 1
    <3>1. SpawnedFor(s) = {c}
      BY <2>2, <2>4
    <3> QED
      BY <3>1, FS_Singleton
  <2> QED
    BY <2>3, <2>4
<1>2. TypeInv /\ WorkflowInv => OneChildPerStep
  BY <1>1 DEF OneChildPerStep
<1> QED
  BY <1>2, TypeInvariance, WorkflowInvariance, PTL

(* An attempt, late ones included, runs a step only when the steps before  *)
(* it ran; the one that owns the parent only when their children ended     *)
(* well or were allowed to fail.                                           *)
THEOREM StepsInOrderCorrect == Spec => []StepsInOrder
<1>1. ASSUME TypeInv, WorkflowInv, NEW w \in Workers, run[w].pc = "running",
             NEW s \in 1..(run[w].payload.step - 1)
      PROVE  s \in ran /\ (Owns(w) => SpawnedFor(s) \subseteq settled)
  <2>1. s \in ran /\ (Owns(w) => AllSettled)
    BY <1>1 DEF WorkflowInv, AttemptInv
  <2>2. s # NoStep
    BY DEF NoStep
  <2> QED
    BY <2>1, <2>2 DEF SpawnedFor, AllSettled, Used
<1>2. TypeInv /\ WorkflowInv => StepsInOrder
  BY <1>1 DEF StepsInOrder
<1> QED
  BY <1>2, TypeInvariance, WorkflowInvariance, PTL

(* A parent that finished ran all its steps, and its children are settled. *)
THEOREM FinishedIsCompleteCorrect == Spec => []FinishedIsComplete
<1>1. ASSUME TypeInv, WorkflowInv, parent.status = "finished"
      PROVE  /\ kind = "sequential" => ran = Steps
             /\ kind = "managed" => ran = 1..parent.payload.step
             /\ \A s \in Steps : SpawnedFor(s) \subseteq settled
  <2>1. Bound = parent.payload.step
    BY <1>1 DEF Bound
  <2>2. AllSettled /\ \A s \in Steps : SpawnedFor(s) \subseteq Used
    BY <1>1 DEF WorkflowInv, ChildInv, ParentStands, SpawnedFor, Used, Steps, NoStep
  <2> QED
    BY <1>1, <2>1, <2>2 DEF WorkflowInv, RanInv, AllSettled
<1>2. TypeInv /\ WorkflowInv => FinishedIsComplete
  BY <1>1 DEF FinishedIsComplete
<1> QED
  BY <1>2, TypeInvariance, WorkflowInvariance, PTL

(* A finish or spawn of the owner writes a step at least the row's; a late *)
(* one writes nothing, and a plain failure, a time-out and a restart keep  *)
(* the payload. (Nothing is said of TaskFailed with a payload of its own   *)
(* and of updatePendingTask, which the module leaves out.)                 *)
THEOREM ProgressKeptCorrect == Spec => ProgressKept
<1>1. ASSUME TypeInv, WorkflowInv, [Next]_vars
      PROVE  parent'.payload.step >= parent.payload.step
  <2>0. parent \in ParentRows /\ parent.payload.step \in Nat
    BY <1>1, BoundType DEF TypeInv
  <2>1. CASE parent' = parent
    BY <2>0, <2>1
  <2>2. ASSUME NEW w \in Workers, Fetch(w)
        PROVE  parent'.payload = parent.payload
    <3>1. takes' \in Nat /\ CanRetry(parent) /\ parent' = Taken(parent, takes')
      BY <1>1, <2>2 DEF Fetch, TypeInv
    <3> QED
      BY <2>0, <3>1, TakenParent
  <2>3. ASSUME NEW w \in Workers, Finish(w), Owns(w)
        PROVE  parent'.payload.step >= parent.payload.step
    <3>1. parent'.payload = run[w].payload
      BY <1>1, <2>3, FinishWrites
    <3>2. parent.payload.step <= run[w].payload.step /\ run[w].payload.step \in Nat
      BY <1>1, <2>3 DEF Finish, WorkflowInv, AttemptInv, Steps
    <3> QED
      BY <2>0, <3>1, <3>2
  <2>4. ASSUME NEW w \in Workers, NEW c \in TaskIds, Spawn(w, c)
        PROVE  parent'.payload.step >= parent.payload.step
    <3>1. run[w].payload \in Payloads /\ parent'.payload = [run[w].payload EXCEPT !.activeChild = c]
      BY <1>1, <2>4, SpawnWrites
    <3>2. parent'.payload.step = run[w].payload.step
      BY <3>1, PayloadOperations
    <3>3. parent.payload.step < run[w].payload.step /\ run[w].payload.step \in Nat
      BY <1>1, <2>4 DEF Spawn, WorkflowInv, AttemptInv, Steps
    <3> QED
      BY <2>0, <3>2, <3>3
  <2>5. ASSUME NEW w \in Workers, Fail(w)
        PROVE  parent'.payload = parent.payload
    BY <1>1, <2>0, <2>5, FailedParent DEF Fail, Owns, OwnedBy, TypeInv
  <2>6. ASSUME TimesOut \/ Wake \/ RestartParent
        PROVE  parent'.payload = parent.payload
    <3>1. CASE TimesOut
      BY <1>1, <2>0, <3>1, FailedParent DEF TimesOut, TypeInv
    <3>2. CASE Wake \/ RestartParent
      BY <2>0, <3>2, OtherParentWrites DEF Wake, RestartParent
    <3> QED
      BY <2>6, <3>1, <3>2
  <2>7. ASSUME NEW w \in Workers, LocalStep(w) \/ SpawnLost(w) \/ Crash(w)
                                  \/ (Finish(w) /\ ~Owns(w))
        PROVE  parent' = parent
    BY <2>7 DEF LocalStep, Begin, Resume, RunStep, StepThrows, SpawnLost, Crash, Finish
  <2>8. ASSUME NEW c \in TaskIds, ChildEnds(c) \/ RestartChild(c) \/ ClearFailedChild(c)
        PROVE  parent' = parent
    BY <2>8 DEF ChildEnds, RestartChild, ClearFailedChild
  <2>9. CASE parent'.payload = parent.payload
    BY <2>0, <2>9
  <2> QED
    BY <1>1, <2>1, <2>2, <2>3, <2>4, <2>5, <2>6, <2>7, <2>8, <2>9
       DEF Next, vars, WorkerStep, LocalStep
<1>2. TypeInv /\ WorkflowInv /\ [Next]_vars => [parent'.payload.step >= parent.payload.step]_vars
  BY <1>1
<1> QED
  BY <1>2, TypeInvariance, WorkflowInvariance, PTL DEF Spec, ProgressKept
=============================================================================
