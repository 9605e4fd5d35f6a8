----------------------------- MODULE SagaProofs -----------------------------
(* Theorems about Saga, for every number of steps and every bound.          *)
EXTENDS Saga, TLAPS

\* No two steps share a name: add_step does not check it, resume needs it.
DistinctNames == \A s, t \in Steps : StepName[s] = StepName[t] => s = t

\* What a call in progress relies on: the list is long enough for the program
\* counter, a step in progress exists, and the row was saved by this call.
CallInv ==
  /\ pc = "act" => completed < N
  /\ pc = "save" => completed > 0
  /\ pc = "finish" => completed = N
  /\ pc # "idle" => row.status = "running" /\ outcome = "none"

\* Where effects are known to be in place while no rollback is torn: below the
\* list of a call that goes forward, below the cursor of one that goes back,
\* and below the row's list once no call goes back.
LandedInv ==
  ~torn =>
    /\ \A s \in Steps : effect[s] >= 0
    /\ pc \in {"act", "save", "finish"} => \A s \in 1..completed : effect[s] >= 1
    /\ pc = "comp" => \A s \in 1..cursor : effect[s] >= 1
    /\ pc # "comp" /\ row.status # "failed" => \A s \in 1..row.completed : effect[s] >= 1
    /\ outcome = "returned" => \A s \in Steps : effect[s] >= 1

SagaInv == TypeOK /\ CallInv /\ LandedInv
-----------------------------------------------------------------------------
(* Operators.                                                              *)

\* With distinct names, the steps a resumed call takes as done are exactly the
\* steps the row lists (saga.py:221-226).
LEMMA DonePrefixIsList ==
  ASSUME DistinctNames, NEW k \in 0..N
  PROVE  DonePrefix(k) = k
<1> DEFINE names == {StepName[s] : s \in 1..k}
           P(d) == /\ \A s \in 1..d : StepName[s] \in names
                   /\ d < N => StepName[d + 1] \notin names
<1>1. N \in Nat
  BY SagaAssumption
<1>2. \A s \in Steps : StepName[s] \in names <=> s \in 1..k
  BY <1>1 DEF DistinctNames, Steps
<1>3. P(k)
  <2>1. \A s \in 1..k : StepName[s] \in names
    OBVIOUS
  <2>2. k < N => k + 1 \in Steps /\ k + 1 \notin 1..k
    BY <1>1 DEF Steps
  <2>3. QED
    BY <2>1, <2>2, <1>2
<1>4. \A d \in 0..N : P(d) => d = k
  <2> SUFFICES ASSUME NEW d \in 0..N, P(d) PROVE d = k
    OBVIOUS
  <2>1. ~(d > k)
    <3> SUFFICES ASSUME d > k PROVE FALSE
      OBVIOUS
    <3>1. d \in 1..d /\ d \in Steps /\ d \notin 1..k
      BY <1>1 DEF Steps
    <3>2. StepName[d] \in names
      BY <3>1
    <3>3. QED
      BY <3>1, <3>2, <1>2
  <2>2. ~(d < k)
    <3> SUFFICES ASSUME d < k PROVE FALSE
      OBVIOUS
    <3>1. d < N /\ d + 1 \in 1..k
      BY <1>1
    <3>2. StepName[d + 1] \notin names
      BY <3>1
    <3>3. QED
      BY <3>1, <3>2
  <2>3. QED
    BY <2>1, <2>2
<1> HIDE DEF P, names
<1>5. k = CHOOSE d \in 0..N : P(d)
  BY <1>3, <1>4
<1>6. QED
  BY <1>5 DEF P, names, DonePrefix

\* Applying a step leaves it in place, whether or not it is idempotent.
LEMMA LandLeavesEffect ==
  ASSUME NEW n \in Int, NEW s
  PROVE  Land(n, s) \in Int /\ (n >= 0 => Land(n, s) >= 1)
BY DEF Land

\* Compensating a step in place does not overcompensate it.
LEMMA UndoOfLanded ==
  ASSUME NEW n \in Int, NEW s
  PROVE  Undo(n, s) \in Int /\ (n >= 1 => Undo(n, s) >= 0)
BY DEF Undo

\* A context read back from the row has the entries of the saved one.
LEMMA StoredType ==
  ASSUME NEW c \in [Steps -> CtxEntries]
  PROVE  Stored(c) \in [Steps -> CtxEntries]
BY DEF Stored, CtxEntries

-----------------------------------------------------------------------------
(* Type correctness.                                                       *)

\* The initial state is well typed.
LEMMA InitTypeOK == Init => TypeOK
<1> SUFFICES ASSUME Init PROVE TypeOK
  OBVIOUS
<1>1. N \in Nat
  BY SagaAssumption
<1>2. [s \in Steps |-> "none"] \in [Steps -> CtxEntries]
  BY DEF CtxEntries
<1>3. row \in [status : Statuses \cup {"absent"}, completed : 0..N, ctx : [Steps -> CtxEntries]]
  BY <1>1, <1>2 DEF Init, NoRow
<1>4. effect \in [Steps -> Int] /\ late \in [Steps -> Nat]
  BY DEF Init
<1>5. completed \in 0..N /\ attempt \in Nat /\ cursor \in 0..completed
  BY <1>1 DEF Init
<1>6. torn \in BOOLEAN /\ acked \subseteq Steps
  BY DEF Init
<1>7. QED
  BY <1>2, <1>3, <1>4, <1>5, <1>6 DEF Init, TypeOK

\* Every step keeps the types: the loop index stays in range.
LEMMA NextTypeOK ==
  ASSUME DistinctNames, TypeOK, CallInv, [Next]_vars
  PROVE  TypeOK'
<1> USE SagaAssumption
<1>1. ASSUME NEW resume \in BOOLEAN, Execute(resume) PROVE TypeOK'
  <2> DEFINE prior == resume /\ row.status \in {"running", "failed"}
             k == IF prior THEN DonePrefix(row.completed) ELSE 0
             c == IF prior THEN row.ctx ELSE [s \in Steps |-> "none"]
  <2>1. k \in 0..N
    BY DonePrefixIsList DEF TypeOK
  <2>2. c \in [Steps -> CtxEntries]
    BY DEF TypeOK, CtxEntries
  <2>3. Stored(c) \in [Steps -> CtxEntries]
    BY <2>2, StoredType
  <2>4. /\ completed' = k /\ ctx' = c /\ Loop(k)
        /\ row' = [status |-> "running", completed |-> k, ctx |-> Stored(c)]
        /\ runs' \in Nat /\ outcome' = "none" /\ torn' \in BOOLEAN
        /\ acked' \subseteq Steps
        /\ UNCHANGED <<world, interrupts, repeats>>
    BY <1>1 DEF Execute, SaveRun, TypeOK
  <2> HIDE DEF k, c, prior
  <2>5. QED
    BY <2>1, <2>2, <2>3, <2>4 DEF TypeOK, Loop, world, Statuses
<1>2. ASSUME AttemptReturns PROVE TypeOK'
  <2>1. completed + 1 \in Steps
    BY <1>2 DEF AttemptReturns, CallInv, TypeOK, Steps
  <2>2. effect' \in [Steps -> Int]
    BY <1>2, <2>1, LandLeavesEffect DEF AttemptReturns, TypeOK
  <2>3. QED
    BY <1>2, <2>1, <2>2 DEF AttemptReturns, TypeOK, CtxEntries, Steps
<1>3. ASSUME NEW landed \in BOOLEAN, AttemptRaises(landed) PROVE TypeOK'
  <2>1. completed + 1 \in Steps
    BY <1>3 DEF AttemptRaises, CallInv, TypeOK, Steps
  <2>2. effect' \in [Steps -> Int]
    BY <1>3, <2>1, LandLeavesEffect DEF AttemptRaises, TypeOK
  <2>3. QED
    <3>1. attempt' \in Nat /\ pc' \in {"act", "comp"} /\ cursor' \in 0..completed
      BY <1>3 DEF AttemptRaises, AfterException, TypeOK
    <3>2. UNCHANGED <<row, completed, ctx, late, outcome, runs, interrupts, torn, acked, repeats>>
      BY <1>3 DEF AttemptRaises, history
    <3> QED
      BY <2>2, <3>1, <3>2 DEF TypeOK
<1>4. ASSUME ThreadTimesOut PROVE TypeOK'
  <2>0. completed + 1 \in Steps /\ late[completed + 1] \in Nat
    BY <1>4 DEF ThreadTimesOut, TypeOK, Steps
  <2>1. late' \in [Steps -> Nat]
    BY <1>4, <2>0 DEF ThreadTimesOut, TypeOK
  <2>2. AfterException /\ pc = "act"
    BY <1>4 DEF ThreadTimesOut
  <2>3. pc' \in {"act", "comp"} /\ cursor' \in 0..completed /\ attempt' \in Nat
    BY <2>2 DEF AfterException, TypeOK
  <2>4. UNCHANGED <<row, completed, ctx, effect, outcome, runs, interrupts, torn, acked, repeats>>
    BY <1>4 DEF ThreadTimesOut, history
  <2>5. QED
    BY <2>1, <2>3, <2>4 DEF TypeOK
<1>5. ASSUME GlobalTimeoutExpires PROVE TypeOK'
  BY <1>5 DEF GlobalTimeoutExpires, TypeOK, history, world
<1>6. ASSUME SaveStep PROVE TypeOK'
  BY <1>6, StoredType DEF SaveStep, SaveRun, Loop, TypeOK, history, world, Statuses
<1>7. ASSUME Finish PROVE TypeOK'
  BY <1>7, StoredType DEF Finish, SaveRun, TypeOK, history, world, Statuses
<1>8. ASSUME NEW ok \in BOOLEAN, Compensate(ok) PROVE TypeOK'
  <2>1. effect' \in [Steps -> Int]
    BY <1>8, UndoOfLanded DEF Compensate, TypeOK, Steps
  <2>2. QED
    BY <1>8, <2>1 DEF Compensate, TypeOK, history
<1>9. ASSUME MarkFailed PROVE TypeOK'
  BY <1>9, StoredType DEF MarkFailed, SaveRun, TypeOK, history, world, Statuses
<1>10. ASSUME NEW s \in Steps, NEW landed \in BOOLEAN, LateThreadEnds(s, landed) PROVE TypeOK'
  <2>1. effect' \in [Steps -> Int] /\ late' \in [Steps -> Nat]
    BY <1>10, LandLeavesEffect DEF LateThreadEnds, TypeOK
  <2>2. QED
    BY <1>10, <2>1 DEF LateThreadEnds, TypeOK, history, call
<1>11. ASSUME Crash PROVE TypeOK'
  BY <1>11 DEF Crash, Abandon, TypeOK
<1>12. ASSUME Escape PROVE TypeOK'
  BY <1>12 DEF Escape, Abandon, TypeOK
<1>13. ASSUME SaveStepFails PROVE TypeOK'
  BY <1>13 DEF SaveStepFails, TypeOK, world, history
<1>14. CASE UNCHANGED vars
  BY <1>14 DEF vars, call, world, history, TypeOK
<1>15. QED
  BY <1>1, <1>2, <1>3, <1>4, <1>5, <1>6, <1>7, <1>8, <1>9, <1>10, <1>11, <1>12, <1>13, <1>14
     DEF Next, Progress

-----------------------------------------------------------------------------
(* The call and the effects.                                               *)

\* Every step keeps the program counter in line with list and row.
LEMMA NextCallInv ==
  ASSUME DistinctNames, TypeOK, CallInv, [Next]_vars
  PROVE  CallInv'
<1> USE SagaAssumption DEF CallInv
<1>1. ASSUME NEW resume \in BOOLEAN, Execute(resume) PROVE CallInv'
  <2> DEFINE k == IF resume /\ row.status \in {"running", "failed"}
                  THEN DonePrefix(row.completed) ELSE 0
  <2>1. k \in 0..N
    BY DonePrefixIsList DEF TypeOK
  <2>2. completed' = k /\ Loop(k) /\ row'.status = "running" /\ outcome' = "none"
    BY <1>1 DEF Execute, SaveRun
  <2> HIDE DEF k
  <2>3. QED
    BY <2>1, <2>2 DEF Loop
<1>2. ASSUME AttemptReturns PROVE CallInv'
  BY <1>2 DEF AttemptReturns, TypeOK
<1>3. ASSUME NEW landed \in BOOLEAN, AttemptRaises(landed) PROVE CallInv'
  BY <1>3 DEF AttemptRaises, AfterException
<1>4. ASSUME ThreadTimesOut PROVE CallInv'
  BY <1>4 DEF ThreadTimesOut, AfterException
<1>5. ASSUME GlobalTimeoutExpires PROVE CallInv'
  BY <1>5 DEF GlobalTimeoutExpires
<1>6. ASSUME SaveStep PROVE CallInv'
  BY <1>6 DEF SaveStep, SaveRun, Loop, TypeOK
<1>7. ASSUME Finish PROVE CallInv'
  BY <1>7 DEF Finish
<1>8. ASSUME NEW ok \in BOOLEAN, Compensate(ok) PROVE CallInv'
  BY <1>8 DEF Compensate
<1>9. ASSUME MarkFailed PROVE CallInv'
  BY <1>9 DEF MarkFailed
<1>10. ASSUME NEW s \in Steps, NEW landed \in BOOLEAN, LateThreadEnds(s, landed) PROVE CallInv'
  BY <1>10 DEF LateThreadEnds, call
<1>11. ASSUME Crash PROVE CallInv'
  BY <1>11 DEF Crash, Abandon
<1>12. ASSUME Escape PROVE CallInv'
  BY <1>12 DEF Escape, Abandon
<1>13. ASSUME SaveStepFails PROVE CallInv'
  BY <1>13 DEF SaveStepFails
<1>14. CASE UNCHANGED vars
  BY <1>14 DEF vars, call
<1>15. QED
  BY <1>1, <1>2, <1>3, <1>4, <1>5, <1>6, <1>7, <1>8, <1>9, <1>10, <1>11, <1>12, <1>13, <1>14
     DEF Next, Progress

\* A step of the world that only adds applications keeps what is in place.
LEMMA MoreEffectKeepsLanded ==
  ASSUME TypeOK, NEW s \in Steps, NEW landed \in BOOLEAN,
         effect' = IF landed THEN [effect EXCEPT ![s] = Land(@, s)] ELSE effect,
         \A t \in Steps : effect[t] >= 0
  PROVE  \A t \in Steps : effect'[t] >= 0 /\ (effect[t] >= 1 => effect'[t] >= 1)
<1> SUFFICES ASSUME NEW t \in Steps
             PROVE  effect'[t] >= 0 /\ (effect[t] >= 1 => effect'[t] >= 1)
  OBVIOUS
<1>1. effect[t] \in Int /\ effect[t] >= 0
  BY DEF TypeOK
<1>2. effect'[t] = effect[t] \/ effect'[t] = Land(effect[t], t)
  BY DEF TypeOK
<1>3. Land(effect[t], t) \in Int /\ Land(effect[t], t) >= 1
  BY <1>1, LandLeavesEffect
<1>4. QED
  BY <1>1, <1>2, <1>3

\* Every step keeps the effects in place where LandedInv says they are.
LEMMA NextLandedInv ==
  ASSUME DistinctNames, TypeOK, CallInv, LandedInv, [Next]_vars
  PROVE  LandedInv'
<1> SUFFICES ASSUME ~torn'
             PROVE  LandedInv'
  BY DEF LandedInv
<1> USE SagaAssumption
<1>1. ASSUME NEW resume \in BOOLEAN, Execute(resume) PROVE LandedInv'
  <2> DEFINE prior == resume /\ row.status \in {"running", "failed"}
             k == IF prior THEN DonePrefix(row.completed) ELSE 0
  <2>1. ~torn /\ ~(prior /\ row.status = "failed") /\ pc = "idle"
    BY <1>1 DEF Execute
  <2>2. k \in 0..N /\ k <= row.completed
    BY DonePrefixIsList DEF TypeOK
  <2>3. prior => \A s \in 1..row.completed : effect[s] >= 1
    BY <2>1 DEF LandedInv
  <2>4. \A s \in 1..k : effect[s] >= 1
    <3>1. CASE prior
      BY <3>1, <2>2, <2>3 DEF TypeOK
    <3>2. CASE ~prior
      BY <3>2
    <3>3. QED
      BY <3>1, <3>2
  <2>5. /\ completed' = k /\ Loop(k) /\ row'.completed = k /\ outcome' = "none"
        /\ effect' = effect
    BY <1>1 DEF Execute, SaveRun, world
  <2>6. \A s \in Steps : effect[s] >= 0
    BY <2>1 DEF LandedInv
  <2> HIDE DEF k, prior
  <2>7. QED
    BY <2>2, <2>4, <2>5, <2>6 DEF LandedInv, Loop
<1>2. ASSUME AttemptReturns PROVE LandedInv'
  <2>1. completed + 1 \in Steps /\ ~torn
    BY <1>2 DEF AttemptReturns, CallInv, TypeOK, Steps
  <2>2. effect' = IF TRUE THEN [effect EXCEPT ![completed + 1] = Land(@, completed + 1)] ELSE effect
    BY <1>2 DEF AttemptReturns
  <2>3. \A t \in Steps : effect[t] >= 0
    BY <2>1 DEF LandedInv
  <2>4. \A t \in Steps : effect'[t] >= 0 /\ (effect[t] >= 1 => effect'[t] >= 1)
    BY <2>1, <2>2, <2>3, MoreEffectKeepsLanded
  <2>5. effect[completed + 1] \in Int /\ effect[completed + 1] >= 0
        /\ effect'[completed + 1] = Land(effect[completed + 1], completed + 1)
    BY <2>1, <2>2, <2>3 DEF TypeOK
  <2>6. effect'[completed + 1] >= 1
    BY <2>5, LandLeavesEffect
  <2>7. \A t \in 1..(completed + 1) : effect'[t] >= 1
    <3>1. \A t \in 1..completed : t \in Steps /\ effect[t] >= 1
      BY <1>2, <2>1 DEF AttemptReturns, LandedInv, TypeOK, Steps
    <3>2. QED
      BY <3>1, <2>4, <2>6 DEF TypeOK
  <2>8. pc = "act" /\ pc' = "save" /\ completed' = completed + 1
        /\ UNCHANGED <<row, outcome, torn>>
    BY <1>2 DEF AttemptReturns
  <2>9. \A t \in 1..row.completed : t \in Steps
    BY DEF TypeOK, Steps
  <2>10. row.status # "failed"
    BY <2>8 DEF CallInv
  <2>11. QED
    BY <2>1, <2>4, <2>7, <2>8, <2>9, <2>10 DEF LandedInv
<1>3. ASSUME NEW landed \in BOOLEAN, AttemptRaises(landed) PROVE LandedInv'
  <2>1. completed + 1 \in Steps /\ ~torn /\ pc = "act"
    BY <1>3 DEF AttemptRaises, CallInv, TypeOK, Steps, history
  <2>2. \A t \in Steps : effect'[t] >= 0 /\ (effect[t] >= 1 => effect'[t] >= 1)
    BY <1>3, <2>1, MoreEffectKeepsLanded DEF LandedInv, AttemptRaises
  <2>3. \A t \in 1..completed : effect'[t] >= 1
    BY <2>1, <2>2 DEF LandedInv, TypeOK, Steps
  <2>4. \A t \in 1..row.completed : t \in Steps
    BY DEF TypeOK, Steps
  <2>5. pc' = "act" \/ (pc' = "comp" /\ cursor' = completed)
    BY <1>3, <2>1 DEF AttemptRaises, AfterException
  <2>6. UNCHANGED <<row, completed, outcome>>
    BY <1>3 DEF AttemptRaises
  <2>7. QED
    BY <2>1, <2>2, <2>3, <2>4, <2>5, <2>6 DEF LandedInv
<1>4. ASSUME ThreadTimesOut PROVE LandedInv'
  BY <1>4 DEF ThreadTimesOut, AfterException, LandedInv, history
<1>5. ASSUME GlobalTimeoutExpires PROVE LandedInv'
  BY <1>5 DEF GlobalTimeoutExpires, LandedInv, history, world
<1>6. ASSUME SaveStep PROVE LandedInv'
  BY <1>6 DEF SaveStep, SaveRun, Loop, LandedInv, history, world
<1>7. ASSUME Finish PROVE LandedInv'
  BY <1>7 DEF Finish, SaveRun, LandedInv, CallInv, history, world, Steps
<1>8. ASSUME NEW ok \in BOOLEAN, Compensate(ok) PROVE LandedInv'
  <2>1. cursor \in Steps /\ ~torn /\ pc = "comp" /\ pc' = "comp" /\ cursor' = cursor - 1
        /\ UNCHANGED <<outcome, completed, row>>
    BY <1>8 DEF Compensate, TypeOK, Steps, history
  <2>2. effect[cursor] \in Int /\ effect[cursor] >= 1
    BY <2>1 DEF LandedInv, TypeOK, Steps
  <2>3. Undo(effect[cursor], cursor) \in Int /\ Undo(effect[cursor], cursor) >= 0
    BY <2>2, UndoOfLanded
  <2>4. \A t \in Steps : effect'[t] = effect[t]
                         \/ (t = cursor /\ effect'[t] = Undo(effect[cursor], cursor))
    BY <1>8 DEF Compensate, TypeOK
  <2>5. \A t \in Steps : effect'[t] >= 0
    BY <2>1, <2>3, <2>4 DEF LandedInv
  <2>6. \A t \in 1..(cursor - 1) : effect'[t] >= 1
    BY <2>1, <2>4 DEF LandedInv, Steps
  <2>7. outcome # "returned"
    BY <2>1 DEF CallInv
  <2>8. QED
    BY <2>1, <2>5, <2>6, <2>7 DEF LandedInv
<1>9. ASSUME MarkFailed PROVE LandedInv'
  BY <1>9 DEF MarkFailed, SaveRun, LandedInv, history, world
<1>10. ASSUME NEW s \in Steps, NEW landed \in BOOLEAN, LateThreadEnds(s, landed) PROVE LandedInv'
  <2>1. UNCHANGED <<row, call, outcome, torn>> /\ ~torn
    BY <1>10 DEF LateThreadEnds, history
  <2>2. \A t \in Steps : effect'[t] >= 0 /\ (effect[t] >= 1 => effect'[t] >= 1)
    BY <1>10, <2>1, MoreEffectKeepsLanded DEF LandedInv, LateThreadEnds
  <2>3. \A t \in 1..row.completed : t \in Steps
    BY DEF TypeOK, Steps
  <2>4. \A t \in 1..completed : t \in Steps
    BY DEF TypeOK, Steps
  <2>5. \A t \in 1..cursor : t \in Steps
    BY DEF TypeOK, Steps
  <2>6. QED
    BY <2>1, <2>2, <2>3, <2>4, <2>5 DEF LandedInv, call
<1>11. ASSUME Crash PROVE LandedInv'
  BY <1>11 DEF Crash, Abandon, LandedInv
<1>12. ASSUME Escape PROVE LandedInv'
  BY <1>12 DEF Escape, Abandon, LandedInv
<1>13. ASSUME SaveStepFails PROVE LandedInv'
  BY <1>13 DEF SaveStepFails, LandedInv, world, history
<1>14. CASE UNCHANGED vars
  BY <1>14 DEF vars, call, world, history, LandedInv
<1>15. QED
  BY <1>1, <1>2, <1>3, <1>4, <1>5, <1>6, <1>7, <1>8, <1>9, <1>10, <1>11, <1>12, <1>13, <1>14
     DEF Next, Progress

-----------------------------------------------------------------------------
(* The theorems.                                                           *)

\* The inductive invariant holds of every behaviour whose names are distinct.
THEOREM SagaInvariant == DistinctNames /\ Spec => []SagaInv
<1> SUFFICES ASSUME DistinctNames PROVE Spec => []SagaInv
  OBVIOUS
<1>1. Init => SagaInv
  <2> SUFFICES ASSUME Init PROVE SagaInv
    OBVIOUS
  <2>1. TypeOK
    BY InitTypeOK
  <2>2. CallInv
    BY DEF Init, CallInv
  <2>3. LandedInv
    <3>1. \A s \in Steps : effect[s] = 0
      BY DEF Init
    <3>2. row.completed = 0 /\ completed = 0 /\ cursor = 0 /\ outcome = "none"
      BY DEF Init, NoRow
    <3>3. QED
      BY <3>1, <3>2 DEF LandedInv
  <2>4. QED
    BY <2>1, <2>2, <2>3 DEF SagaInv
<1>2. SagaInv /\ [Next]_vars => SagaInv'
  BY NextTypeOK, NextCallInv, NextLandedInv DEF SagaInv
<1>3. QED
  BY <1>1, <1>2, PTL DEF Spec

\* Every variable keeps its type.
THEOREM SagaTypes == DistinctNames /\ Spec => []TypeOK
BY SagaInvariant, PTL DEF SagaInv

\* The row never runs ahead of the effects, for any number of steps, retries,
\* kills, cancelled calls, lost writes and resumed runs.
THEOREM RowIsSound == DistinctNames /\ Spec => []RecordedStepsLanded
<1>1. SagaInv => RecordedStepsLanded
  BY DEF SagaInv, LandedInv, RecordedStepsLanded
<1>2. QED
  BY <1>1, SagaInvariant, PTL

\* A call that returns has every step's effect in place, unless a rollback was
\* cut short or its run resumed.
THEOREM ReturnIsSound == DistinctNames /\ Spec => []ReturnedMeansAllLanded
<1>1. SagaInv => ReturnedMeansAllLanded
  BY DEF SagaInv, LandedInv, ReturnedMeansAllLanded
<1>2. QED
  BY <1>1, SagaInvariant, PTL

\* Nothing is compensated more often than it was applied, with the same proviso.
THEOREM CompensationIsBounded == DistinctNames /\ Spec => []NeverOvercompensated
<1>1. SagaInv => NeverOvercompensated
  BY DEF SagaInv, LandedInv, NeverOvercompensated
<1>2. QED
  BY <1>1, SagaInvariant, PTL
-----------------------------------------------------------------------------
(* Repetitions.                                                            *)

\* The row is at most one step behind the list and behind what has returned;
\* if a step beyond the row has returned and is not being saved, an
\* interruption has not been used up yet.
RepeatInv ==
  /\ repeats <= interrupts
  /\ pc = "save" => completed = row.completed + 1
  /\ pc \in {"act", "finish"} => completed = row.completed
  /\ row.status = "running" => acked \subseteq 1..(row.completed + 1)
  /\ row.status = "running" /\ pc # "save" /\ row.completed + 1 \in acked => repeats < interrupts

LEMMA NextRepeatInv ==
  ASSUME DistinctNames, TypeOK, CallInv, RepeatInv, [Next]_vars
  PROVE  RepeatInv'
<1>0. /\ row.completed \in 0..N /\ completed \in 0..N /\ N \in Nat
      /\ repeats \in Nat /\ interrupts \in Nat /\ acked \subseteq Steps
  BY SagaAssumption DEF TypeOK
<1>1. ASSUME NEW resume \in BOOLEAN, Execute(resume) PROVE RepeatInv'
  <2>1. CASE resume /\ row.status = "running"
    <3>1. DonePrefix(row.completed) = row.completed
      BY <1>0, <1>1, <2>1, DonePrefixIsList
    <3>2. /\ completed' = row.completed /\ row'.completed = row.completed
          /\ row'.status = "running" /\ pc = "idle" /\ pc' \in {"act", "finish"}
          /\ UNCHANGED <<acked, repeats, interrupts>>
      BY <1>1, <2>1, <3>1 DEF Execute, SaveRun, Loop
    <3>3. QED
      BY <2>1, <3>2 DEF RepeatInv
  <2>2. CASE ~(resume /\ row.status = "running")
    <3>1. /\ completed' = row'.completed /\ pc' \in {"act", "finish"} /\ acked' = {}
          /\ UNCHANGED <<repeats, interrupts>>
      BY <1>1, <2>2 DEF Execute, SaveRun, Loop
    <3>2. QED
      BY <3>1 DEF RepeatInv
  <2>3. QED
    BY <2>1, <2>2
<1>2. CASE AttemptReturns
  <2>1. /\ pc = "act" /\ pc' = "save" /\ completed = row.completed /\ completed' = completed + 1
        /\ acked' = acked \cup {completed + 1}
        /\ repeats' = IF completed + 1 \in acked THEN repeats + 1 ELSE repeats
        /\ UNCHANGED <<row, interrupts>> /\ row.status = "running"
    BY <1>2 DEF AttemptReturns, CallInv, RepeatInv
  <2>2. acked' \subseteq 1..(row'.completed + 1)
    BY <1>0, <2>1 DEF RepeatInv
  <2>3. repeats' <= interrupts'
    BY <1>0, <2>1 DEF RepeatInv
  <2>4. QED
    BY <2>1, <2>2, <2>3 DEF RepeatInv
<1>3. ASSUME UNCHANGED <<row, completed, interrupts, acked, repeats>>, pc = "act",
             pc' \in {"act", "comp"}
      PROVE  RepeatInv'
  BY <1>3 DEF RepeatInv
<1>4. CASE \E landed \in BOOLEAN : AttemptRaises(landed)
  BY <1>3, <1>4 DEF AttemptRaises, AfterException, history
<1>5. CASE ThreadTimesOut \/ GlobalTimeoutExpires
  BY <1>3, <1>5 DEF ThreadTimesOut, GlobalTimeoutExpires, AfterException, history
<1>6. CASE SaveStep
  <2>1. /\ row'.completed = completed /\ completed' = completed /\ completed = row.completed + 1
        /\ pc = "save" /\ pc' \in {"act", "finish"} /\ row.status = "running"
        /\ UNCHANGED <<acked, repeats, interrupts>>
    BY <1>6 DEF SaveStep, SaveRun, Loop, history, CallInv, RepeatInv
  <2>2. acked' \subseteq 1..(row'.completed + 1) /\ row'.completed + 1 \notin acked'
    BY <1>0, <2>1 DEF RepeatInv
  <2>3. QED
    BY <2>1, <2>2 DEF RepeatInv
<1>7. CASE Finish \/ MarkFailed
  BY <1>7 DEF Finish, MarkFailed, SaveRun, history, RepeatInv
<1>8. CASE \E ok \in BOOLEAN : Compensate(ok)
  BY <1>8 DEF Compensate, history, RepeatInv
<1>9. CASE \E s \in Steps, landed \in BOOLEAN : LateThreadEnds(s, landed)
  BY <1>9 DEF LateThreadEnds, call, history, RepeatInv
<1>10. ASSUME UNCHANGED <<row, completed, acked, repeats>>, interrupts' = interrupts + 1,
              pc' \in {"idle", "comp"}
       PROVE  RepeatInv'
  BY <1>0, <1>10 DEF RepeatInv
<1>11. CASE Crash \/ Escape
  BY <1>10, <1>11 DEF Crash, Escape, Abandon
<1>12. CASE SaveStepFails
  BY <1>10, <1>12 DEF SaveStepFails, history
<1>13. CASE UNCHANGED vars
  BY <1>13 DEF vars, call, history, RepeatInv
<1>14. QED
  BY <1>1, <1>2, <1>4, <1>5, <1>6, <1>7, <1>8, <1>9, <1>11, <1>12, <1>13 DEF Next, Progress

\* A step that has returned is repeated only after an interruption of its own,
\* however often the run is interrupted and resumed.
THEOREM RepetitionsArePaidFor == DistinctNames /\ Spec => []RepeatsArePaidFor
<1> SUFFICES ASSUME DistinctNames PROVE Spec => []RepeatsArePaidFor
  OBVIOUS
<1>1. Init => RepeatInv
  BY DEF Init, NoRow, RepeatInv
<1>2. RepeatInv /\ SagaInv /\ [Next]_vars => RepeatInv'
  BY NextRepeatInv DEF SagaInv
<1>3. RepeatInv => RepeatsArePaidFor
  BY DEF RepeatInv, RepeatsArePaidFor
<1>4. Spec => []SagaInv
  BY SagaInvariant
<1>5. QED
  BY <1>1, <1>2, <1>3, <1>4, PTL DEF Spec
=============================================================================
