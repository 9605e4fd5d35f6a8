-------------------------------- MODULE Saga --------------------------------
(***************************************************************************)
(* SagaOrchestrator: one saga id, its steps, its durable saga_runs row     *)
(* (persist_to given) and the process that executes it.  The process may   *)
(* be killed between any two steps, its task may be cancelled at an await, *)
(* a row may fail to be written, and the caller may call                   *)
(* execute(resume=True) again.                                             *)
(*                                                                         *)
(* Abstractions: a step's effect on the outside world is a counter         *)
(* (effect[s]: applications in place); its dict result is one entry of     *)
(* ctx; time is nondeterminism; current_step, error and the timestamps of  *)
(* the row are never read by execute and are left out.                     *)
(***************************************************************************)
EXTENDS Integers, FiniteSets

CONSTANTS
  N,               \* number of steps, run in the order 1..N
  StepName,        \* the name given to each step (add_step accepts any)
  Retries,         \* max_retries of each step
  Compensable,     \* steps with a compensation (None is a no-op)
  Idempotent,      \* steps whose action and compensation are idempotent
  Threaded,        \* synchronous actions with a timeout: run in a thread
  Opaque,          \* steps whose result json.dumps(default=str) turns to text
  GlobalTimeout,   \* global_timeout was given
  ResumeStatuses,  \* statuses of a recorded run the caller resumes
  MaxRuns,         \* bound: calls of execute but those that resume an interrupted run
  MaxInterrupts    \* bound: kills, cancellations and failed row writes

Steps == 1..N
Statuses == {"running", "completed", "failed"}
NoRow == [status |-> "absent", completed |-> 0, ctx |-> [s \in Steps |-> "none"]]

ASSUME SagaAssumption ==
  /\ N \in Nat \ {0}
  /\ Retries \in [1..N -> Nat]
  /\ Compensable \subseteq 1..N
  /\ Idempotent \subseteq 1..N
  /\ Threaded \subseteq 1..N
  /\ Opaque \subseteq 1..N
  /\ GlobalTimeout \in BOOLEAN
  /\ ResumeStatuses \subseteq {"running", "completed", "failed"}
  /\ MaxRuns \in Nat /\ MaxInterrupts \in Nat

VARIABLES
  row,         \* the saga_runs row of this saga id
  pc,          \* where execute is; "idle" when no call is in progress
  completed,   \* the in-memory list: steps 1..completed are in it
  attempt,     \* attempts of the current step already made
  cursor,      \* steps of the list still to compensate
  ctx,         \* outputs in the context dict
  effect,      \* applications of each step's effect in place
  late,        \* timed-out threads of each step still running
  outcome,     \* how the last call of execute ended
  runs, interrupts,   \* counters for the bounds
  torn,        \* history: a rollback was cut short, or its run resumed
  acked, repeats      \* history: steps that returned since the run was last
                      \* started anew; returns of such a step

call == <<pc, completed, attempt, cursor, ctx>>
world == <<effect, late>>
history == <<torn, acked, repeats>>
vars == <<row, call, world, outcome, runs, interrupts, history>>

-----------------------------------------------------------------------------
(* The durable row.                                                        *)

\* What a context read back from the row holds.
Stored(c) == [s \in Steps |-> IF s \in Opaque /\ c[s] = "value" THEN "text" ELSE c[s]]

\* Mutant: the row is one step behind the list.
SaveRunBehind(status, k, c) ==
  row' = [status |-> status, completed |-> IF k = 0 THEN 0 ELSE k - 1, ctx |-> Stored(c)]

SaveRun(status, k, c) == row' = [status |-> status, completed |-> k, ctx |-> Stored(c)]

\* Mutant: a resumed call skips the step in flight as well.
DonePrefixSkipsFlight(k) == IF k < N THEN k + 1 ELSE N

\* The steps a resumed call takes as done: the longest prefix of the steps
\* whose names the row lists (the row keeps names, not positions).
DonePrefix(k) ==
  LET names == {StepName[s] : s \in 1..k}
  IN  CHOOSE d \in 0..N : /\ \A s \in 1..d : StepName[s] \in names
                          /\ d < N => StepName[d + 1] \notin names

\* Mutant: the loop stops one step early.
LoopStopsEarly(k) ==
  /\ pc' = IF k >= N - 1 THEN "finish" ELSE "act"
  /\ attempt' = 0
  /\ cursor' = 0

\* Where the loop goes with k steps in the list.
Loop(k) ==
  /\ pc' = IF k = N THEN "finish" ELSE "act"
  /\ attempt' = 0
  /\ cursor' = 0

Init ==
  /\ row = NoRow
  /\ pc = "idle" /\ completed = 0 /\ attempt = 0 /\ cursor = 0
  /\ ctx = [s \in Steps |-> "none"]
  /\ effect = [s \in Steps |-> 0]
  /\ late = [s \in Steps |-> 0]
  /\ outcome = "none"
  /\ runs = 0 /\ interrupts = 0
  /\ torn = FALSE
  /\ acked = {} /\ repeats = 0

-----------------------------------------------------------------------------
(* execute, up to its loop.                                                *)

\* A prior row counts only with resume, and only if running or failed; any
\* other call starts at the first step with the caller's context, and writes
\* over the row that it finds under the saga id.
Execute(resume) ==
  LET prior == resume /\ row.status \in {"running", "failed"}
      again == resume /\ row.status = "running"
      k == IF prior THEN DonePrefix(row.completed) ELSE 0
      c == IF prior THEN row.ctx ELSE [s \in Steps |-> "none"]
  IN  /\ pc = "idle"
      /\ again \/ runs < MaxRuns
      /\ resume => row = NoRow \/ row.status \in ResumeStatuses
      /\ runs' = IF again THEN runs ELSE runs + 1
      /\ completed' = k
      /\ ctx' = c
      /\ SaveRun("running", k, c)
      /\ Loop(k)
      /\ outcome' = "none"
      /\ torn' = (torn \/ (prior /\ row.status = "failed"))
      /\ acked' = IF again THEN acked ELSE {}
      /\ UNCHANGED <<world, interrupts, repeats>>

-----------------------------------------------------------------------------
(* _run_step: attempts of the step completed + 1.                          *)

Land(n, s) == IF s \in Idempotent THEN 1 ELSE n + 1
Undo(n, s) == IF s \in Idempotent THEN 0 ELSE n - 1

\* The attempt returns: the result joins the context and the step the list.
AttemptReturns ==
  LET s == completed + 1 IN
  /\ pc = "act"
  /\ effect' = [effect EXCEPT ![s] = Land(@, s)]
  /\ ctx' = [ctx EXCEPT ![s] = "value"]
  /\ completed' = s
  /\ pc' = "save"
  /\ acked' = acked \cup {s}
  /\ repeats' = IF s \in acked THEN repeats + 1 ELSE repeats
  /\ UNCHANGED <<row, attempt, cursor, late, outcome, runs, interrupts, torn>>

\* Mutant: the failing step is compensated with the others.
AfterExceptionCompensatesAll ==
  IF attempt < Retries[completed + 1]
  THEN /\ attempt' = attempt + 1
       /\ UNCHANGED <<pc, cursor>>
  ELSE /\ pc' = "comp"
       /\ cursor' = completed + 1
       /\ UNCHANGED attempt

\* After an exception: the next attempt, or the compensations.
AfterException ==
  IF attempt < Retries[completed + 1]
  THEN /\ attempt' = attempt + 1
       /\ UNCHANGED <<pc, cursor>>
  ELSE /\ pc' = "comp"
       /\ cursor' = completed
       /\ UNCHANGED attempt

\* The attempt raises, or a coroutine times out, before or after its effect.
AttemptRaises(landed) ==
  LET s == completed + 1 IN
  /\ pc = "act"
  /\ effect' = IF landed THEN [effect EXCEPT ![s] = Land(@, s)] ELSE effect
  /\ AfterException
  /\ UNCHANGED <<row, completed, ctx, late, outcome, runs, interrupts, history>>

\* wait_for gives up on a thread, which runs on.
ThreadTimesOut ==
  LET s == completed + 1 IN
  /\ pc = "act"
  /\ s \in Threaded
  /\ late' = [late EXCEPT ![s] = @ + 1]
  /\ AfterException
  /\ UNCHANGED <<row, completed, ctx, effect, outcome, runs, interrupts, history>>

\* A thread nobody waits for ends, with or without its effect.
LateThreadEnds(s, landed) ==
  /\ late[s] > 0
  /\ late' = [late EXCEPT ![s] = @ - 1]
  /\ effect' = IF landed THEN [effect EXCEPT ![s] = Land(@, s)] ELSE effect
  /\ UNCHANGED <<row, call, outcome, runs, interrupts, history>>

\* Mutant: the step that was about to start is compensated with the others.
GlobalTimeoutCompensatesAll ==
  /\ pc = "act" /\ attempt = 0
  /\ GlobalTimeout
  /\ pc' = "comp"
  /\ cursor' = completed + 1
  /\ UNCHANGED <<row, completed, attempt, ctx, world, outcome, runs, interrupts, history>>

\* The check at the top of the loop, before the first attempt of a step.
GlobalTimeoutExpires ==
  /\ pc = "act" /\ attempt = 0
  /\ GlobalTimeout
  /\ pc' = "comp"
  /\ cursor' = completed
  /\ UNCHANGED <<row, completed, attempt, ctx, world, outcome, runs, interrupts, history>>

SaveStep ==
  /\ pc = "save"
  /\ SaveRun("running", completed, ctx)
  /\ Loop(completed)
  /\ UNCHANGED <<completed, ctx, world, outcome, runs, interrupts, history>>

\* Mutant: the last write is left out.
FinishUnsaved ==
  /\ pc = "finish"
  /\ pc' = "idle"
  /\ outcome' = "returned"
  /\ UNCHANGED <<row, completed, attempt, cursor, ctx, world, runs, interrupts, history>>

Finish ==
  /\ pc = "finish"
  /\ SaveRun("completed", completed, ctx)
  /\ pc' = "idle"
  /\ outcome' = "returned"
  /\ UNCHANGED <<completed, attempt, cursor, ctx, world, runs, interrupts, history>>

-----------------------------------------------------------------------------
(* _compensate_all: the list in reverse; an error is collected.            *)

Compensate(ok) ==
  /\ pc = "comp" /\ cursor > 0
  /\ effect' = IF ok /\ cursor \in Compensable
               THEN [effect EXCEPT ![cursor] = Undo(@, cursor)] ELSE effect
  /\ cursor' = cursor - 1
  /\ UNCHANGED <<row, pc, completed, attempt, ctx, late, outcome, runs, interrupts, history>>

\* The row is marked failed with the whole list, the compensated steps too.
MarkFailed ==
  /\ pc = "comp" /\ cursor = 0
  /\ SaveRun("failed", completed, ctx)
  /\ pc' = "idle"
  /\ outcome' = "raised"
  /\ UNCHANGED <<completed, attempt, cursor, ctx, world, runs, interrupts, history>>

-----------------------------------------------------------------------------
(* Interruptions.                                                          *)

Abandon ==
  /\ interrupts < MaxInterrupts /\ interrupts' = interrupts + 1
  /\ pc' = "idle"
  /\ outcome' = "lost"
  /\ torn' = (torn \/ pc = "comp")
  /\ UNCHANGED <<row, completed, attempt, cursor, ctx, effect, runs, acked, repeats>>

\* The process dies with its threads; the row is what was last committed.
Crash ==
  /\ pc # "idle"
  /\ Abandon
  /\ late' = [s \in Steps |-> 0]

\* What execute does not catch: CancelledError at an await, an error of the
\* write of the final status.  The row still says running, threads run on.
Escape ==
  /\ pc \in {"act", "comp", "finish"}
  /\ Abandon
  /\ UNCHANGED late

\* The row write after a step raises inside the try: the step is in the list
\* already and is compensated with the others.
SaveStepFails ==
  /\ pc = "save"
  /\ interrupts < MaxInterrupts /\ interrupts' = interrupts + 1
  /\ pc' = "comp"
  /\ cursor' = completed
  /\ UNCHANGED <<row, completed, attempt, ctx, world, outcome, runs, history>>

-----------------------------------------------------------------------------
Progress ==
  \/ AttemptReturns
  \/ \E landed \in BOOLEAN : AttemptRaises(landed)
  \/ ThreadTimesOut
  \/ GlobalTimeoutExpires
  \/ SaveStep
  \/ Finish
  \/ \E ok \in BOOLEAN : Compensate(ok)
  \/ MarkFailed

Next ==
  \/ \E resume \in BOOLEAN : Execute(resume)
  \/ Progress
  \/ \E s \in Steps, landed \in BOOLEAN : LateThreadEnds(s, landed)
  \/ Crash
  \/ Escape
  \/ SaveStepFails

Spec == Init /\ [][Next]_vars

\* The event loop runs the coroutine on, actions and compensations return,
\* and an operator resumes a run recorded as running.
Fairness ==
  /\ WF_vars(Progress)
  /\ WF_vars(Execute(TRUE))

FairSpec == Spec /\ Fairness

-----------------------------------------------------------------------------
(* Properties.                                                             *)

CtxEntries == {"none", "value", "text"}

\* Every variable has its type; the cursor stays inside the list.
TypeOK ==
  /\ row \in [status : Statuses \cup {"absent"}, completed : 0..N, ctx : [Steps -> CtxEntries]]
  /\ pc \in {"idle", "act", "save", "finish", "comp"}
  /\ completed \in 0..N
  /\ attempt \in Nat
  /\ cursor \in 0..completed
  /\ ctx \in [Steps -> CtxEntries]
  /\ effect \in [Steps -> Int]
  /\ late \in [Steps -> Nat]
  /\ outcome \in {"none", "returned", "raised", "lost"}
  /\ runs \in Nat /\ interrupts \in Nat
  /\ torn \in BOOLEAN
  /\ acked \subseteq Steps
  /\ repeats \in Nat

\* The row never runs ahead of the world: every step it lists as done has its
\* effect in place, through kills, cancelled calls, lost writes and resumed
\* runs, unless a rollback was cut short or is in progress (saga.py:259-271).
RecordedStepsLanded ==
  ~torn /\ pc # "comp" /\ row.status # "failed"
    => \A s \in 1..row.completed : effect[s] >= 1

\* A call that returns a context has every step's effect in place, unless a
\* rollback was cut short or its run resumed (saga.py:198-274).
ReturnedMeansAllLanded ==
  ~torn /\ outcome = "returned" => \A s \in Steps : effect[s] >= 1

\* No effect is compensated more often than it was applied, unless a rollback
\* was cut short or its run resumed (saga.py:276-283).
NeverOvercompensated == ~torn => \A s \in Steps : effect[s] >= 0

\* Resuming an interrupted run repeats at most the step in flight: every
\* repetition of a step that had returned is paid for by one interruption
\* (saga.py:259-265).
RepeatsArePaidFor == repeats <= interrupts

\* A run recorded as running is in the end completed or failed.
RunsAreResolved == (row.status = "running") ~> (row.status # "running")

-----------------------------------------------------------------------------
(* What the documentation says, and the code does not do.                  *)

\* "Execute saga. Returns final context on success. Raises SagaExecutionError
\* on failure (after compensation)" (saga.py:201-203): success is every step.
SuccessMeansAllLanded == outcome = "returned" => \A s \in Steps : effect[s] >= 1
=============================================================================
