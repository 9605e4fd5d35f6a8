---------------------------- MODULE AgentProofs -----------------------------
(***************************************************************************)
(* Theorems about Agent, for any number of runs and turns, any budget, any *)
(* cost of a call, any batches of tool calls and any window of the memory. *)
(***************************************************************************)
EXTENDS Agent, Integers, FiniteSetTheorems, FunctionTheorems, SequenceTheorems, TLAPS

Points == {"idle", "turn", "guard", "flight", "answered", "tools", "final", "leaving", "done"}

\* The points of a run that is over.
Out == {"leaving", "done"}

\* The types that cost and kill switch need.
CallTypes ==
  /\ pc \in [Runs -> Points]
  /\ cost \in [Runs -> Nat] /\ spent \in [Runs -> Nat]
  /\ sinceKill \in [Runs -> Nat] /\ killed \in BOOLEAN

\* Until a run is over its guard has seen every call it made and found the
\* budget sufficient; the calls it has not seen, or stopped at, are one.
CostInv ==
  \A r \in Runs :
    /\ pc[r] \notin Out => spent[r] = cost[r] /\ cost[r] <= Budget
    /\ spent[r] <= Budget + MaxCost

\* While the switch is active the call of a run between its check and its LLM
\* call is the first one.
KillInv ==
  \A r \in Runs :
    /\ sinceKill[r] <= 1
    /\ killed /\ pc[r] = "guard" => sinceKill[r] = 0

CallsInv == CallTypes /\ CostInv /\ KillInv

\* What most steps of a run do to the variables above: the run goes to another
\* point, to "guard" only after it looked at the switch.
Moves(r) ==
  /\ UNCHANGED <<cost, spent, sinceKill, killed>>
  /\ \E v \in Points :
       /\ pc' = [pc EXCEPT ![r] = v]
       /\ pc[r] \notin Out \/ v \in Out
       /\ v = "guard" => ~killed
-----------------------------------------------------------------------------
LEMMA OverMoves ==
  ASSUME NEW r \in Runs, NEW how, Over(r, how)
  PROVE  pc' = [pc EXCEPT ![r] = "leaving"]
BY DEF Over

\* The forced final answer ends the run or goes to its LLM call.
LEMMA ForceFinalMoves ==
  ASSUME NEW r \in Runs, ForceFinal(r)
  PROVE  pc' = [pc EXCEPT ![r] = "leaving"] \/ pc' = [pc EXCEPT ![r] = "final"]
BY OverMoves DEF ForceFinal, Raised

LEMMA QuietSteps ==
  ASSUME CallTypes, NEW r \in Runs,
         \/ Execute(r) \/ BeginTurn(r) \/ Discard(r) \/ Interrupt(r) \/ FinalAnswer(r)
         \/ (\E b \in Batches : ToolCalls(r, b))
         \/ ToolAnswered(r) \/ TurnsExhausted(r) \/ Raise(r) \/ Done(r) \/ Cancel(r)
  PROVE  Moves(r)
<1>1. CASE Execute(r)
  BY <1>1 DEF Execute, Moves, Points, Out, guard
<1>2. CASE BeginTurn(r)
  <2>1. CASE Raised(r)
    BY <1>2, <2>1, OverMoves DEF BeginTurn, Raised, Moves, Points, Out
  <2>2. CASE ~Halts(r) /\ pc' = [pc EXCEPT ![r] = "guard"]
    BY <1>2, <2>2 DEF BeginTurn, Halts, Moves, Points, Out
  <2>3. QED
    BY <1>2, <2>1, <2>2 DEF BeginTurn
<1>3. CASE Discard(r)
  BY <1>3 DEF Discard, Moves, Points, Out, guard
<1>4. CASE Interrupt(r)
  BY <1>4, OverMoves DEF Interrupt, Returned, Moves, Points, Out
<1>5. CASE FinalAnswer(r)
  BY <1>5, OverMoves DEF FinalAnswer, Returned, Moves, Points, Out
<1>6. ASSUME NEW b \in Batches, ToolCalls(r, b) PROVE Moves(r)
  <2>1. CASE ForceFinal(r)
    BY <1>6, <2>1, ForceFinalMoves DEF ToolCalls, Moves, Points, Out
  <2>2. CASE pc' = [pc EXCEPT ![r] = "tools"]
    BY <1>6, <2>2 DEF ToolCalls, Moves, Points, Out
  <2>3. QED
    BY <1>6, <2>1, <2>2 DEF ToolCalls
<1>7. CASE ToolAnswered(r)
  BY <1>7 DEF ToolAnswered, NextCall, Moves, Points, Out, guard
<1>8. CASE TurnsExhausted(r)
  BY <1>8, ForceFinalMoves DEF TurnsExhausted, Moves, Points, Out
<1>9. CASE Raise(r)
  BY <1>9, OverMoves DEF Raise, Awaits, Raised, Moves, Points, Out
<1>10. CASE Cancel(r)
  <2>1. UNCHANGED <<cost, spent, sinceKill, killed>>
    BY <1>10 DEF Cancel, guard
  <2>2. CASE Awaits(r) /\ Over(r, "cancelled")
    BY <2>1, <2>2, OverMoves DEF Awaits, Moves, Points, Out
  <2>3. CASE pc[r] = "leaving" /\ pc' = [pc EXCEPT ![r] = "done"]
    BY <2>1, <2>3 DEF Moves, Points, Out
  <2>4. QED
    BY <1>10, <2>2, <2>3 DEF Cancel
<1>11. CASE Done(r)
  BY <1>11 DEF Done, Moves, Points, Out, guard
<1>12. QED
  BY <1>1, <1>2, <1>3, <1>4, <1>5, <1>6, <1>7, <1>8, <1>9, <1>10, <1>11

LEMMA MovesKeeps ==
  ASSUME CallsInv, NEW r \in Runs, Moves(r)
  PROVE  CallsInv'
<1>1. PICK v \in Points : /\ pc' = [pc EXCEPT ![r] = v] /\ (v = "guard" => ~killed)
                          /\ pc[r] \notin Out \/ v \in Out
  BY DEF Moves
<1>2. UNCHANGED <<cost, spent, sinceKill, killed>>
  BY DEF Moves
<1>3. CallTypes'
  BY <1>1, <1>2 DEF CallsInv, CallTypes
<1>4. CostInv'
  BY <1>1, <1>2 DEF CallsInv, CallTypes, CostInv, Out
<1>5. KillInv'
  BY <1>1, <1>2 DEF CallsInv, CallTypes, KillInv
<1>6. QED
  BY <1>3, <1>4, <1>5 DEF CallsInv

LEMMA CallKeeps ==
  ASSUME CallsInv, NEW r \in Runs, CallLLM(r)
  PROVE  CallsInv'
<1>1. /\ pc[r] = "guard" /\ pc' = [pc EXCEPT ![r] = "flight"]
      /\ sinceKill' = [sinceKill EXCEPT ![r] = IF killed THEN @ + 1 ELSE @]
      /\ UNCHANGED <<cost, spent, killed>>
  BY DEF CallLLM, guard
<1>2. CallTypes'
  BY <1>1 DEF CallsInv, CallTypes, Points
<1>3. CostInv'
  BY <1>1 DEF CallsInv, CallTypes, CostInv, Out
<1>4. KillInv'
  BY <1>1 DEF CallsInv, CallTypes, KillInv
<1>5. QED
  BY <1>2, <1>3, <1>4 DEF CallsInv

\* check_cost stops the run at the call that overruns the budget.
LEMMA ResponseKeeps ==
  ASSUME CallsInv, NEW r \in Runs, NEW c \in 0..MaxCost, Response(r, c)
  PROVE  CallsInv'
<1> USE AgentAssumption
<1>1. /\ pc[r] = "flight"
      /\ cost' = [cost EXCEPT ![r] = @ + c] /\ spent' = [spent EXCEPT ![r] = @ + c]
      /\ UNCHANGED <<killed, sinceKill>>
  BY DEF Response
<1>2. CASE OverBudget(r, c)
  <2>1. pc' = [pc EXCEPT ![r] = "leaving"]
    BY <1>2, OverMoves DEF Response, Raised
  <2>2. CallTypes'
    BY <1>1, <2>1 DEF CallsInv, CallTypes, Points
  <2>3. CostInv'
    BY <1>1, <2>1 DEF CallsInv, CallTypes, CostInv, Out
  <2>4. KillInv'
    BY <1>1, <2>1 DEF CallsInv, CallTypes, KillInv
  <2>5. QED
    BY <2>2, <2>3, <2>4 DEF CallsInv
<1>3. CASE ~OverBudget(r, c)
  <2>1. pc' = [pc EXCEPT ![r] = "answered"] /\ cost[r] + c <= Budget
    BY <1>3 DEF Response, OverBudget, CallsInv, CallTypes
  <2>2. CallTypes'
    BY <1>1, <2>1 DEF CallsInv, CallTypes, Points
  <2>3. CostInv'
    BY <1>1, <2>1 DEF CallsInv, CallTypes, CostInv, Out
  <2>4. KillInv'
    BY <1>1, <2>1 DEF CallsInv, CallTypes, KillInv
  <2>5. QED
    BY <2>2, <2>3, <2>4 DEF CallsInv
<1>4. QED
  BY <1>2, <1>3

\* The forced final call is not held against the budget, and is the last.
LEMMA FinalResponseKeeps ==
  ASSUME CallsInv, NEW r \in Runs, NEW c \in 0..MaxCost, FinalResponse(r, c)
  PROVE  CallsInv'
<1> USE AgentAssumption
<1>1. /\ pc[r] = "final" /\ pc' = [pc EXCEPT ![r] = "leaving"]
      /\ spent' = [spent EXCEPT ![r] = @ + c]
      /\ UNCHANGED <<cost, killed, sinceKill>>
  BY OverMoves DEF FinalResponse, Returned
<1>2. CallTypes'
  BY <1>1 DEF CallsInv, CallTypes, Points
<1>3. CostInv'
  BY <1>1 DEF CallsInv, CallTypes, CostInv, Out
<1>4. KillInv'
  BY <1>1 DEF CallsInv, CallTypes, KillInv
<1>5. QED
  BY <1>2, <1>3, <1>4 DEF CallsInv

LEMMA SwitchKeeps ==
  ASSUME CallsInv, Activate \/ Deactivate
  PROVE  CallsInv'
<1>1. CASE Activate
  BY <1>1 DEF Activate, guard, CallsInv, CallTypes, CostInv, KillInv, Out
<1>2. CASE Deactivate
  BY <1>2 DEF Deactivate, guard, CallsInv, CallTypes, CostInv, KillInv, Out
<1>3. QED
  BY <1>1, <1>2
-----------------------------------------------------------------------------
\* Cost and kill switch are in order at every point of every run
\* (engine.py:225-289, loop_guard.py:31-50).
THEOREM CallsInvariant == Spec => []CallsInv
<1>1. Init => CallsInv
  <2> SUFFICES ASSUME Init PROVE CallsInv
    OBVIOUS
  <2>1. CallTypes
    BY DEF Init, CallTypes, Points
  <2>2. \A r \in Runs : pc[r] = "idle" /\ cost[r] = 0 /\ spent[r] = 0 /\ sinceKill[r] = 0
    BY DEF Init
  <2>3. CostInv /\ KillInv
    BY <2>2, AgentAssumption DEF CostInv, KillInv, Out
  <2>4. QED
    BY <2>1, <2>3 DEF CallsInv
<1>2. CallsInv /\ [Next]_vars => CallsInv'
  <2> SUFFICES ASSUME CallsInv, [Next]_vars PROVE CallsInv'
    OBVIOUS
  <2>1. ASSUME NEW r \in Runs, Execute(r) \/ Step(r) \/ Cancel(r) PROVE CallsInv'
    <3>1. CASE CallLLM(r)
      BY <3>1, CallKeeps
    <3>2. CASE \E c \in 0..MaxCost : Response(r, c) \/ FinalResponse(r, c)
      BY <3>2, ResponseKeeps, FinalResponseKeeps
    <3>3. CASE \/ Execute(r) \/ BeginTurn(r) \/ Discard(r) \/ Interrupt(r) \/ FinalAnswer(r)
               \/ (\E b \in Batches : ToolCalls(r, b))
               \/ ToolAnswered(r) \/ TurnsExhausted(r) \/ Raise(r) \/ Done(r) \/ Cancel(r)
      BY <3>3, QuietSteps, MovesKeeps DEF CallsInv
    <3>4. QED
      BY <2>1, <3>1, <3>2, <3>3 DEF Step
  <2>2. CASE Activate \/ Deactivate
    BY <2>2, SwitchKeeps
  <2>3. CASE UNCHANGED vars
    BY <2>3 DEF vars, guard, CallsInv, CallTypes, CostInv, KillInv, Out
  <2>4. QED
    BY <2>1, <2>2, <2>3 DEF Next
<1>3. QED
  BY <1>1, <1>2, PTL DEF Spec

\* A run overspends its budget by one LLM call at most, however many turns it
\* has (loop_guard.py:31-50, engine.py:555-577).
THEOREM OverrunBounded == Spec => []OverrunsByOneCall
<1>1. CallsInv => OverrunsByOneCall
  BY DEF CallsInv, CostInv, OverrunsByOneCall
<1>2. QED
  BY CallsInvariant, <1>1, PTL

\* Once the kill switch is active a run begins at most one more LLM call
\* (engine.py:226-232, 239-273, 558).
THEOREM KillIsObeyed == Spec => []KillStopsCalls
<1>1. CallsInv => KillStopsCalls
  BY DEF CallsInv, KillInv, KillStopsCalls
<1>2. QED
  BY CallsInvariant, <1>1, PTL

-----------------------------------------------------------------------------
(* Sequences of messages.                                                  *)

\* Each number up to the size of a set of numbers is the place of one of them.
LEMMA Places ==
  ASSUME NEW n \in Nat, NEW K, K \subseteq 1..n
  PROVE  /\ Cardinality(K) \in Nat
         /\ \A k \in 1..Cardinality(K) : \E i \in K : Cardinality({j \in K : j <= i}) = k
<1> DEFINE rank == [i \in K |-> Cardinality({j \in K : j <= i})]
           c == Cardinality(K)
<1>1. IsFiniteSet(K) /\ c \in Nat
  <2>1. IsFiniteSet(1..n)
    BY FS_Interval
  <2> QED
    BY <2>1, FS_Subset, FS_CardinalityType
<1>2. \A i \in K : /\ IsFiniteSet({j \in K : j <= i})
                   /\ Cardinality({j \in K : j <= i}) \in 1..c
  <2> SUFFICES ASSUME NEW i \in K
               PROVE  /\ IsFiniteSet({j \in K : j <= i})
                      /\ Cardinality({j \in K : j <= i}) \in 1..c
    OBVIOUS
  <2> DEFINE T == {j \in K : j <= i}
  <2>1. T \in SUBSET K /\ i \in T
    OBVIOUS
  <2> HIDE DEF T
  <2>2. IsFiniteSet(T) /\ Cardinality(T) \in Nat /\ Cardinality(T) <= c /\ Cardinality(T) # 0
    BY <1>1, <2>1, FS_Subset, FS_CardinalityType, FS_EmptySet
  <2>3. Cardinality(T) \in 1..c
    BY <1>1, <2>2
  <2> QED
    BY <2>2, <2>3 DEF T
<1>3. \A a, b \in K : a < b => rank[a] # rank[b]
  <2> SUFFICES ASSUME NEW a \in K, NEW b \in K, a < b
               PROVE  rank[a] # rank[b]
    OBVIOUS
  <2> DEFINE A == {j \in K : j <= a}
             B == {j \in K : j <= b}
  <2>1. A \in SUBSET B /\ b \in B /\ b \notin A
    <3>1. \A j \in K : j \in Nat
      OBVIOUS
    <3>2. ~ (b <= a) /\ b <= b /\ \A j \in K : j <= a => j <= b
      BY <3>1
    <3> QED
      BY <3>2
  <2>2. IsFiniteSet(B) /\ rank[a] = Cardinality(A) /\ rank[b] = Cardinality(B)
    BY <1>2
  <2> HIDE DEF A, B, rank
  <2>3. Cardinality(A) # Cardinality(B)
    BY <2>1, <2>2, FS_Subset
  <2> QED
    BY <2>2, <2>3
<1>4. rank \in Injection(K, 1..c)
  <2>1. rank \in [K -> 1..c]
    BY <1>2
  <2>2. \A a, b \in K : rank[a] = rank[b] => a = b
    <3> HIDE DEF rank
    <3> QED
      BY <1>3
  <2>3. DOMAIN rank = K
    OBVIOUS
  <2> QED
    BY <2>1, <2>2, <2>3 DEF Injection, IsInjective
<1>5. IsFiniteSet(1..c) /\ Cardinality(1..c) = c
  BY <1>1, FS_Interval
<1>6. rank \in Surjection(K, 1..c)
  <2> HIDE DEF rank
  <2> QED
    BY <1>4, <1>5, FS_Injection
<1>7. \A k \in 1..c : \E i \in K : rank[i] = k
  <2> HIDE DEF rank
  <2> QED
    BY <1>6 DEF Surjection
<1> QED
  BY <1>1, <1>7

\* The places of the numbers 1..n are themselves.
LEMMA OwnPlace ==
  ASSUME NEW n \in Nat, NEW i \in 1..n
  PROVE  Cardinality({j \in 1..n : j <= i}) = i
<1>1. {j \in 1..n : j <= i} = 1..i
  OBVIOUS
<1>2. Cardinality(1..i) = i
  BY FS_Interval
<1> QED
  BY <1>1, <1>2

LEMMA NotSystemIsTyped ==
  ASSUME NEW m \in Seq(Messages)
  PROVE  NotSystem(m) \in Seq(Messages)
<1> DEFINE kept == {i \in DOMAIN m : m[i].role # "system"}
           Place(k) == CHOOSE i \in kept : Cardinality({j \in kept : j <= i}) = k
           c == Cardinality(kept)
<1>1. Len(m) \in Nat /\ DOMAIN m = 1..Len(m) /\ \A i \in DOMAIN m : m[i] \in Messages
  BY LenProperties
<1>2. kept \subseteq 1..Len(m)
  BY <1>1
<1>3. c \in Nat /\ \A k \in 1..c : \E i \in kept : Cardinality({j \in kept : j <= i}) = k
  <2>1. Len(m) \in Nat
    BY <1>1
  <2> HIDE DEF kept
  <2> QED
    BY <1>2, <2>1, Places
<1>4. \A k \in 1..c : Place(k) \in kept
  <2> HIDE DEF kept
  <2> QED
    BY <1>3
<1>5. \A k \in 1..c : m[Place(k)] \in Messages
  BY <1>1, <1>4
<1>6. [k \in 1..c |-> m[Place(k)]] \in Seq(Messages)
  <2> HIDE DEF c, Place
  <2> QED
    BY <1>3, <1>5, IsASeq
<1> QED
  BY <1>6 DEF NotSystem

LEMMA NotSystemKeepsAll ==
  ASSUME NEW m \in Seq(Messages), \A i \in DOMAIN m : m[i].role # "system"
  PROVE  NotSystem(m) = m
<1> DEFINE n == Len(m)
           kept == {i \in DOMAIN m : m[i].role # "system"}
           Place(k) == CHOOSE i \in kept : Cardinality({j \in kept : j <= i}) = k
<1>1. n \in Nat /\ DOMAIN m = 1..n /\ kept = 1..n /\ m = [k \in 1..n |-> m[k]]
  BY LenProperties
<1>2. Cardinality(kept) = n
  <2>1. n \in Nat
    BY <1>1
  <2> HIDE DEF kept, n
  <2>2. Cardinality(1..n) = n
    BY <2>1, FS_Interval
  <2> QED
    BY <1>1, <2>2
<1>3. \A k \in 1..n : Place(k) = k
  <2> SUFFICES ASSUME NEW k \in 1..n
               PROVE  Place(k) = k
    OBVIOUS
  <2> HIDE DEF kept, n
  <2>1. \A i \in kept : Cardinality({j \in kept : j <= i}) = i
    BY <1>1, OwnPlace
  <2>2. \E i \in kept : Cardinality({j \in kept : j <= i}) = k
    BY <1>1, <2>1
  <2>3. Place(k) \in kept /\ Cardinality({j \in kept : j <= Place(k)}) = k
    BY <2>2
  <2> HIDE DEF Place
  <2> QED
    BY <2>1, <2>3
<1>4. NotSystem(m) = [k \in 1..Cardinality(kept) |-> m[Place(k)]]
  BY DEF NotSystem
<1>5. [k \in 1..n |-> m[Place(k)]] = [k \in 1..n |-> m[k]]
  <2> HIDE DEF n, Place
  <2> QED
    BY <1>3
<1> QED
  <2> HIDE DEF n, Place, kept
  <2> QED
    BY <1>1, <1>2, <1>4, <1>5

\* m[i], if a call, has its answers after it; if an answer, its call before it.
Fits(m, i) ==
  /\ m[i].role = "assistant" =>
       \A j \in 1..m[i].n : i + j \in DOMAIN m /\ m[i + j] = Msg("tool", j)
  /\ m[i].role = "tool" =>
       /\ i > m[i].n
       /\ m[i - m[i].n].role = "assistant" /\ m[i - m[i].n].n >= m[i].n

\* Of the n calls of the last assistant message, t are still to be answered.
Answering(m, t, n) ==
  LET a == Len(m) - (n - t)
  IN  /\ a \in DOMAIN m /\ m[a] = Msg("assistant", n)
      /\ \A j \in 1..(n - t) : m[a + j] = Msg("tool", j)
      /\ \A i \in DOMAIN m \ {a} : Fits(m, i)

\* A message added at the end.
LEMMA Added ==
  ASSUME NEW m \in Seq(Messages), NEW x \in Messages
  PROVE  /\ Append(m, x) \in Seq(Messages) /\ Len(m) \in Nat
         /\ DOMAIN m = 1..Len(m) /\ DOMAIN Append(m, x) = 1..(Len(m) + 1)
         /\ Len(Append(m, x)) = Len(m) + 1
         /\ \A i \in 1..Len(m) : Append(m, x)[i] = m[i] /\ m[i] \in Messages
         /\ Append(m, x)[Len(m) + 1] = x
<1>1. Append(m, x) \in Seq(Messages) /\ Len(m) \in Nat /\ DOMAIN m = 1..Len(m)
      /\ \A i \in 1..Len(m) : m[i] \in Messages
  BY AppendProperties, LenProperties
<1>2. DOMAIN Append(m, x) = 1..Len(Append(m, x))
  BY <1>1, LenProperties
<1> QED
  BY <1>1, <1>2, AppendProperties

\* A message that fits goes on fitting.
LEMMA FitsOn ==
  ASSUME NEW m \in Seq(Messages), NEW x \in Messages, NEW i \in DOMAIN m, Fits(m, i)
  PROVE  Fits(Append(m, x), i)
<1> DEFINE l == Append(m, x)
           n == m[i].n
<1>1. /\ Len(m) \in Nat /\ DOMAIN m = 1..Len(m) /\ DOMAIN l = 1..(Len(m) + 1)
      /\ \A k \in 1..Len(m) : l[k] = m[k] /\ m[k] \in Messages
  BY Added
<1>2. n \in Nat /\ l[i] = m[i] /\ i \in 1..Len(m)
  BY <1>1 DEF Messages
<1> HIDE DEF l, n
<1>3. ASSUME m[i].role = "assistant"
      PROVE  \A j \in 1..n : i + j \in DOMAIN l /\ l[i + j] = Msg("tool", j)
  BY <1>1, <1>2, <1>3 DEF Fits, n
<1>4. ASSUME m[i].role = "tool"
      PROVE  i > n /\ l[i - n].role = "assistant" /\ l[i - n].n >= n
  <2>1. i > n /\ m[i - n].role = "assistant" /\ m[i - n].n >= n
    BY <1>4 DEF Fits, n
  <2>2. i - n \in 1..Len(m)
    BY <1>1, <1>2, <2>1
  <2> QED
    BY <1>1, <2>1, <2>2
<1>5. Fits(l, i)
  BY <1>2, <1>3, <1>4 DEF Fits, n
<1> QED
  BY <1>5 DEF l

LEMMA FitsInWhole == \A m : WellFormed(m) <=> \A i \in DOMAIN m : Fits(m, i)
BY DEF WellFormed, Fits

\* A message that is neither a call nor an answer.
LEMMA PlainAdded ==
  ASSUME NEW m \in Seq(Messages), WellFormed(m),
         NEW x \in Messages, x.role \notin {"assistant", "tool"}
  PROVE  WellFormed(Append(m, x))
<1> DEFINE l == Append(m, x)
<1>1. /\ Len(m) \in Nat /\ DOMAIN m = 1..Len(m) /\ DOMAIN l = 1..(Len(m) + 1)
      /\ l[Len(m) + 1] = x
  BY Added
<1>2. \A i \in DOMAIN m : Fits(l, i)
  BY FitsOn, FitsInWhole
<1> HIDE DEF l
<1>3. Fits(l, Len(m) + 1)
  BY <1>1 DEF Fits
<1>4. \A i \in DOMAIN l : Fits(l, i)
  BY <1>1, <1>2, <1>3
<1> QED
  BY <1>4, FitsInWhole DEF l

\* The calls of an answer of the model.
LEMMA CallsAdded ==
  ASSUME NEW m \in Seq(Messages), WellFormed(m), NEW n \in Nat
  PROVE  Answering(Append(m, Msg("assistant", n)), n, n)
<1> DEFINE l == Append(m, Msg("assistant", n))
<1>0. Msg("assistant", n) \in Messages
  BY DEF Msg, Messages
<1>1. /\ Len(m) \in Nat /\ DOMAIN m = 1..Len(m) /\ DOMAIN l = 1..(Len(m) + 1)
      /\ l[Len(m) + 1] = Msg("assistant", n) /\ Len(l) = Len(m) + 1
  BY <1>0, Added
<1>2. \A i \in DOMAIN m : Fits(l, i)
  BY <1>0, FitsOn, FitsInWhole
<1> HIDE DEF l
<1>3. n - n = 0 /\ Len(l) - (n - n) = Len(m) + 1
  BY <1>1
<1>4. \A i \in DOMAIN l \ {Len(m) + 1} : Fits(l, i)
  BY <1>1, <1>2
<1>5. Answering(l, n, n)
  BY <1>1, <1>3, <1>4 DEF Answering
<1> QED
  BY <1>5 DEF l

\* The answer to the first call that has none; after the last one the transcript
\* is whole again.
LEMMA AnswerAdded ==
  ASSUME NEW m \in Seq(Messages), NEW n \in Nat, NEW t \in 1..n, Answering(m, t, n)
  PROVE  LET l == Append(m, Msg("tool", n - t + 1))
         IN  IF t = 1 THEN WellFormed(l) ELSE Answering(l, t - 1, n)
<1> DEFINE x == Msg("tool", n - t + 1)
           l == Append(m, x)
           a == Len(m) - (n - t)
<1>0. x \in Messages /\ x.role = "tool" /\ x.n = n - t + 1
  BY DEF Msg, Messages
<1> HIDE DEF x
<1>1. /\ Len(m) \in Nat /\ DOMAIN m = 1..Len(m) /\ DOMAIN l = 1..(Len(m) + 1)
      /\ l[Len(m) + 1] = x /\ Len(l) = Len(m) + 1
      /\ \A k \in 1..Len(m) : l[k] = m[k]
  BY <1>0, Added
<1>2. /\ a \in DOMAIN m /\ m[a] = Msg("assistant", n)
      /\ \A j \in 1..(n - t) : m[a + j] = Msg("tool", j)
      /\ \A i \in DOMAIN m \ {a} : Fits(m, i)
  BY DEF Answering
<1>3. \A i \in DOMAIN m \ {a} : Fits(l, i)
  BY <1>0, <1>2, FitsOn
<1> HIDE DEF l
<1>4. a \in 1..Len(m) /\ a + (n - t + 1) = Len(m) + 1 /\ a = Len(l) - (n - (t - 1))
      /\ n - (t - 1) = n - t + 1 /\ n - t + 1 \in Nat
  BY <1>1, <1>2
<1> HIDE DEF a
<1>5. /\ l[a] = Msg("assistant", n)
      /\ \A j \in 1..(n - t + 1) : a + j \in DOMAIN l /\ l[a + j] = Msg("tool", j)
  <2>1. l[a] = Msg("assistant", n)
    BY <1>1, <1>2, <1>4
  <2> SUFFICES ASSUME NEW j \in 1..(n - t + 1)
               PROVE  a + j \in DOMAIN l /\ l[a + j] = Msg("tool", j)
    BY <2>1
  <2>2. a + j \in 1..(Len(m) + 1)
    BY <1>1, <1>4
  <2>3. CASE j = n - t + 1
    BY <1>1, <1>4, <2>2, <2>3 DEF x
  <2>4. CASE j # n - t + 1
    <3>1. j \in 1..(n - t) /\ a + j \in 1..Len(m)
      BY <1>1, <1>4, <2>4
    <3> QED
      BY <1>1, <1>2, <2>2, <3>1
  <2> QED
    BY <2>3, <2>4
<1>6. Fits(l, Len(m) + 1)
  <2>1. Len(m) + 1 > n - t + 1 /\ (Len(m) + 1) - (n - t + 1) = a
    BY <1>1, <1>4
  <2>2. l[a].role = "assistant" /\ l[a].n = n
    BY <1>5 DEF Msg
  <2>3. l[Len(m) + 1].role = "tool" /\ l[Len(m) + 1].n = n - t + 1
    BY <1>0, <1>1
  <2>4. n >= n - t + 1
    OBVIOUS
  <2> QED
    BY <2>1, <2>2, <2>3, <2>4 DEF Fits
<1>7. \A i \in DOMAIN l \ {a} : Fits(l, i)
  BY <1>1, <1>3, <1>6
<1>8. CASE t = 1
  <2>1. n - t + 1 = n
    BY <1>8
  <2>2. Fits(l, a)
    <3>1. l[a].role = "assistant" /\ l[a].n = n
      BY <1>5 DEF Msg
    <3> QED
      BY <1>5, <2>1, <3>1 DEF Fits
  <2>3. WellFormed(l)
    BY <1>7, <2>2, FitsInWhole
  <2> QED
    BY <1>8, <2>3 DEF l, x
<1>9. CASE t # 1
  <2>1. Answering(l, t - 1, n)
    BY <1>1, <1>4, <1>5, <1>7 DEF Answering
  <2> QED
    BY <1>9, <2>1 DEF l, x
<1> QED
  BY <1>8, <1>9

\* Two whole transcripts, one after the other.
LEMMA Joined ==
  ASSUME NEW s \in Seq(Messages), NEW u \in Seq(Messages), WellFormed(s), WellFormed(u)
  PROVE  WellFormed(s \o u)
<1> DEFINE l == s \o u
           n == Len(s)
<1>1. /\ n \in Nat /\ Len(u) \in Nat /\ DOMAIN s = 1..n /\ DOMAIN u = 1..Len(u)
      /\ \A i \in 1..n : s[i] \in Messages
      /\ \A i \in 1..Len(u) : u[i] \in Messages
  BY LenProperties
<1>2. /\ l \in Seq(Messages) /\ Len(l) = n + Len(u)
      /\ \A i \in 1..(n + Len(u)) : l[i] = IF i <= n THEN s[i] ELSE u[i - n]
  BY ConcatProperties
<1>3. DOMAIN l = 1..(n + Len(u))
  BY <1>2, LenProperties
<1> HIDE DEF l, n
<1>4. /\ \A i \in 1..n : l[i] = s[i]
      /\ \A i \in 1..Len(u) : n + i \in DOMAIN l /\ l[n + i] = u[i]
  <2>1. \A i \in 1..Len(u) : n + i \in 1..(n + Len(u)) /\ ~ (n + i <= n) /\ (n + i) - n = i
    BY <1>1
  <2>2. \A i \in 1..n : i \in 1..(n + Len(u)) /\ i <= n
    BY <1>1
  <2> QED
    BY <1>2, <1>3, <2>1, <2>2
<1>5. ASSUME NEW i \in 1..n
      PROVE  Fits(l, i)
  <2> DEFINE k == s[i].n
  <2>1. k \in Nat /\ l[i] = s[i] /\ Fits(s, i)
    BY <1>1, <1>4, <1>5, FitsInWhole DEF Messages
  <2> HIDE DEF k
  <2>2. ASSUME s[i].role = "assistant"
        PROVE  \A j \in 1..k : i + j \in DOMAIN l /\ l[i + j] = Msg("tool", j)
    BY <1>1, <1>3, <1>4, <1>5, <2>1, <2>2 DEF Fits, k
  <2>3. ASSUME s[i].role = "tool"
        PROVE  i > k /\ l[i - k].role = "assistant" /\ l[i - k].n >= k
    <3>1. i > k /\ s[i - k].role = "assistant" /\ s[i - k].n >= k
      BY <2>1, <2>3 DEF Fits, k
    <3>2. i - k \in 1..n
      BY <1>1, <2>1, <3>1
    <3> QED
      BY <1>4, <3>1, <3>2
  <2> QED
    BY <2>1, <2>2, <2>3 DEF Fits, k
<1>6. ASSUME NEW i \in 1..Len(u)
      PROVE  Fits(l, n + i)
  <2> DEFINE k == u[i].n
  <2>1. k \in Nat /\ l[n + i] = u[i] /\ Fits(u, i)
    BY <1>1, <1>4, <1>6, FitsInWhole DEF Messages
  <2> HIDE DEF k
  <2>2. ASSUME u[i].role = "assistant"
        PROVE  \A j \in 1..k : (n + i) + j \in DOMAIN l /\ l[(n + i) + j] = Msg("tool", j)
    <3> SUFFICES ASSUME NEW j \in 1..k
                 PROVE  (n + i) + j \in DOMAIN l /\ l[(n + i) + j] = Msg("tool", j)
      OBVIOUS
    <3>1. i + j \in 1..Len(u) /\ u[i + j] = Msg("tool", j)
      BY <1>1, <2>1, <2>2 DEF Fits, k
    <3>2. (n + i) + j = n + (i + j)
      BY <1>1, <2>1
    <3> QED
      BY <1>4, <3>1, <3>2
  <2>3. ASSUME u[i].role = "tool"
        PROVE  n + i > k /\ l[(n + i) - k].role = "assistant" /\ l[(n + i) - k].n >= k
    <3>1. i > k /\ u[i - k].role = "assistant" /\ u[i - k].n >= k
      BY <2>1, <2>3 DEF Fits, k
    <3>2. i - k \in 1..Len(u) /\ (n + i) - k = n + (i - k) /\ n + i > k
      BY <1>1, <2>1, <3>1
    <3> QED
      BY <1>4, <3>1, <3>2
  <2> QED
    BY <2>1, <2>2, <2>3 DEF Fits, k
<1>7. \A i \in DOMAIN l : Fits(l, i)
  <2> SUFFICES ASSUME NEW i \in DOMAIN l
               PROVE  Fits(l, i)
    OBVIOUS
  <2>1. i \in 1..n \/ (i - n \in 1..Len(u) /\ i = n + (i - n))
    BY <1>1, <1>3
  <2> QED
    BY <1>5, <1>6, <2>1
<1> QED
  BY <1>7, FitsInWhole DEF l

\* The end of a whole transcript, where no call before it is answered in it.
LEMMA EndIsWhole ==
  ASSUME NEW m \in Seq(Messages), WellFormed(m), NEW p \in 0..Len(m),
         \A i \in 1..p : m[i].role = "assistant" => i + m[i].n <= p
  PROVE  /\ SubSeq(m, p + 1, Len(m)) \in Seq(Messages)
         /\ Len(SubSeq(m, p + 1, Len(m))) = Len(m) - p
         /\ \A i \in 1..(Len(m) - p) : SubSeq(m, p + 1, Len(m))[i] = m[p + i]
         /\ WellFormed(SubSeq(m, p + 1, Len(m)))
<1> DEFINE o == SubSeq(m, p + 1, Len(m))
           k == Len(m) - p
<1>1. /\ Len(m) \in Nat /\ DOMAIN m = 1..Len(m) /\ \A i \in 1..Len(m) : m[i] \in Messages
      /\ p \in Nat /\ k \in Nat /\ p <= Len(m)
  BY LenProperties
<1>2. o \in Seq(Messages) /\ Len(o) = k /\ \A i \in 1..k : o[i] = m[p + i]
  <2>1. p + 1 \in Int /\ Len(m) \in Int /\ Len(m) - (p + 1) + 1 = k
    BY <1>1
  <2>2. \A i \in (p + 1)..Len(m) : m[i] \in Messages
    BY <1>1
  <2>3. /\ o \in Seq(Messages) /\ Len(o) = IF p + 1 <= Len(m) THEN Len(m) - (p + 1) + 1 ELSE 0
        /\ \A i \in 1..(Len(m) - (p + 1) + 1) : o[i] = m[(p + 1) + i - 1]
    BY <2>1, <2>2, SubSeqProperties
  <2>4. \A i \in 1..k : (p + 1) + i - 1 = p + i
    BY <1>1
  <2> HIDE DEF o
  <2>5. Len(o) = k
    BY <1>1, <2>1, <2>3
  <2>6. \A i \in 1..k : o[i] = m[(p + 1) + i - 1]
    BY <2>1, <2>3
  <2> HIDE DEF k
  <2> QED
    BY <2>3, <2>4, <2>5, <2>6
<1>3. DOMAIN o = 1..k
  BY <1>2, LenProperties
<1> HIDE DEF o
<1>4. ASSUME NEW i \in 1..k
      PROVE  Fits(o, i)
  <2> DEFINE n == o[i].n
  <2>1. n \in Nat /\ o[i] = m[p + i] /\ p + i \in 1..Len(m) /\ Fits(m, p + i)
    <3>1. p + i \in 1..Len(m)
      BY <1>1, <1>4
    <3> QED
      BY <1>1, <1>2, <1>4, <3>1, FitsInWhole DEF Messages
  <2> HIDE DEF n
  <2>2. ASSUME o[i].role = "assistant"
        PROVE  \A j \in 1..n : i + j \in DOMAIN o /\ o[i + j] = Msg("tool", j)
    <3> SUFFICES ASSUME NEW j \in 1..n
                 PROVE  i + j \in DOMAIN o /\ o[i + j] = Msg("tool", j)
      OBVIOUS
    <3>1. (p + i) + j \in 1..Len(m) /\ m[(p + i) + j] = Msg("tool", j)
      BY <1>1, <2>1, <2>2 DEF Fits, n
    <3>2. i + j \in 1..k /\ p + (i + j) = (p + i) + j
      BY <1>1, <2>1, <3>1
    <3> QED
      BY <1>2, <1>3, <3>1, <3>2
  <2>3. ASSUME o[i].role = "tool"
        PROVE  i > n /\ o[i - n].role = "assistant" /\ o[i - n].n >= n
    <3>1. p + i > n /\ m[(p + i) - n].role = "assistant" /\ m[(p + i) - n].n >= n
      BY <2>1, <2>3 DEF Fits, n
    <3>2. i > n
      <4> SUFFICES ASSUME i <= n
                   PROVE  FALSE
        BY <1>1, <2>1
      <4>1. (p + i) - n \in 1..p
        BY <1>1, <2>1, <3>1
      <4>2. ((p + i) - n) + m[(p + i) - n].n <= p
        BY <3>1, <4>1
      <4>3. PICK w \in Nat : w = m[(p + i) - n].n
        BY <1>1, <4>1 DEF Messages
      <4>4. p \in Nat /\ n \in Nat /\ i \in Nat /\ i >= 1
        BY <1>1, <2>1
      <4>5. ((p + i) - n) + w <= p /\ w >= n
        BY <3>1, <4>2, <4>3
      <4> QED
        BY <4>4, <4>5
    <3>3. i - n \in 1..k /\ p + (i - n) = (p + i) - n
      BY <1>1, <2>1, <3>2
    <3> QED
      BY <1>2, <3>1, <3>2, <3>3
  <2> QED
    BY <2>1, <2>2, <2>3 DEF Fits, n
<1>5. WellFormed(o)
  BY <1>3, <1>4, FitsInWhole
<1> QED
  BY <1>2, <1>5 DEF o

-----------------------------------------------------------------------------
(* What the memory holds.                                                  *)

\* Whole exchanges, one of each of some of the runs.
Exchanges(m, done) ==
  /\ WellFormed(m)
  /\ m # <<>> => m[Len(m)].role = "answer"
  /\ \A i \in DOMAIN m : m[i].role = "task" => m[i].n \in done
  /\ \A i, j \in DOMAIN m :
       m[i].role = "task" /\ m[j].role = "task" /\ i < j =>
         /\ m[i] # m[j]
         /\ m[j - 1].role = "answer"

\* The run's own messages: its task and what came after.
OwnPart(o, r) ==
  /\ o # <<>> /\ o[1] = Msg("task", r)
  /\ \A i \in 2..Len(o) : o[i].role \in {"user", "assistant", "tool"}

LEMMA ExchangeAdded ==
  ASSUME NEW m \in Seq(Messages), NEW o \in Seq(Messages), NEW done, NEW r \in Nat \ done,
         Exchanges(m, done), OwnPart(o, r), WellFormed(o)
  PROVE  /\ m \o o \o <<Msg("answer", 0)>> \in Seq(Messages)
         /\ Exchanges(m \o o \o <<Msg("answer", 0)>>, done \cup {r})
<1> DEFINE x == Msg("answer", 0)
           l == m \o o
           all == Append(l, x)
           n == Len(m)
           k == Len(o)
<1>1. /\ n \in Nat /\ k \in Nat /\ DOMAIN m = 1..n
      /\ \A i \in 1..n : m[i] \in Messages
      /\ \A i \in 1..k : o[i] \in Messages
      /\ x \in Messages /\ x.role = "answer"
  BY LenProperties DEF Messages, Msg
<1>2. k >= 1
  BY EmptySeq DEF OwnPart
<1>3. /\ l \in Seq(Messages) /\ Len(l) = n + k
      /\ \A i \in 1..(n + k) : l[i] = IF i <= n THEN m[i] ELSE o[i - n]
  BY ConcatProperties
<1>4. WellFormed(l)
  BY Joined DEF Exchanges
<1>5. l \o <<x>> = all
  BY <1>1, <1>3, AppendIsConcat
<1> HIDE DEF l, x
<1>6. /\ all \in Seq(Messages) /\ DOMAIN all = 1..(Len(l) + 1) /\ Len(all) = Len(l) + 1
      /\ \A i \in 1..Len(l) : all[i] = l[i]
      /\ all[Len(l) + 1] = x
  BY <1>1, <1>3, Added
<1>7. WellFormed(all)
  BY <1>1, <1>3, <1>4, PlainAdded
<1> HIDE DEF all
<1>8. /\ DOMAIN all = 1..(n + k + 1) /\ Len(all) = n + k + 1 /\ all[n + k + 1].role = "answer"
      /\ \A i \in 1..n : all[i] = m[i]
  <2> HIDE DEF n, k
  <2> QED
    BY <1>1, <1>3, <1>6
<1>9. \A i \in 1..k : all[n + i] = o[i]
  <2> HIDE DEF n, k
  <2>1. \A i \in 1..k : n + i \in 1..(n + k) /\ ~ (n + i <= n) /\ (n + i) - n = i
    BY <1>1
  <2> QED
    BY <1>3, <1>6, <2>1
<1>10. \A i \in (n + 1)..(n + k + 1) :
         all[i].role = "task" => i = n + 1 /\ all[i] = Msg("task", r) /\ all[i].n = r
  <2> SUFFICES ASSUME NEW i \in (n + 1)..(n + k + 1), all[i].role = "task"
               PROVE  i = n + 1 /\ all[i] = Msg("task", r) /\ all[i].n = r
    OBVIOUS
  <2>1. i # n + k + 1
    BY <1>8
  <2>2. i - n \in 1..k /\ i = n + (i - n)
    BY <1>1, <2>1
  <2>3. o[i - n].role = "task"
    BY <1>9, <2>2
  <2>4. i - n = 1
    BY <1>1, <2>2, <2>3 DEF OwnPart
  <2>5. all[i] = Msg("task", r) /\ i = n + 1
    BY <1>1, <1>9, <2>2, <2>4 DEF OwnPart
  <2> QED
    BY <2>5 DEF Msg
<1>11. /\ n # 0 => m[n].role = "answer"
       /\ \A i \in 1..n : m[i].role = "task" => m[i].n \in done
       /\ \A i, j \in 1..n :
            m[i].role = "task" /\ m[j].role = "task" /\ i < j =>
              m[i] # m[j] /\ m[j - 1].role = "answer"
  <2>1. n # 0 => m # <<>>
    BY EmptySeq
  <2> QED
    BY <1>1, <2>1 DEF Exchanges
<1> HIDE DEF n, k
<1>12. \A i \in DOMAIN all : all[i].role = "task" => all[i].n \in done \cup {r}
  <2> SUFFICES ASSUME NEW i \in DOMAIN all, all[i].role = "task"
               PROVE  all[i].n \in done \cup {r}
    OBVIOUS
  <2>1. i \in 1..n \/ i \in (n + 1)..(n + k + 1)
    BY <1>1, <1>8
  <2> QED
    BY <1>8, <1>10, <1>11, <2>1
<1>13. ASSUME NEW i \in DOMAIN all, NEW j \in DOMAIN all,
              all[i].role = "task", all[j].role = "task", i < j
       PROVE  all[i] # all[j] /\ all[j - 1].role = "answer"
  <2>1. i \in 1..n
    <3> SUFFICES ASSUME i \notin 1..n
                 PROVE  FALSE
      OBVIOUS
    <3>1. i \in (n + 1)..(n + k + 1) /\ j \in (n + 1)..(n + k + 1)
      BY <1>1, <1>8, <1>13
    <3>2. i = n + 1 /\ j = n + 1
      BY <1>10, <1>13, <3>1
    <3> QED
      BY <1>1, <1>13, <3>2
  <2>2. CASE j \in 1..n
    <3>1. all[i] = m[i] /\ all[j] = m[j] /\ j - 1 \in 1..n
      BY <1>1, <1>8, <1>13, <2>1, <2>2
    <3>2. all[j - 1] = m[j - 1]
      BY <1>8, <3>1
    <3> QED
      BY <1>11, <1>13, <2>1, <2>2, <3>1, <3>2
  <2>3. CASE j \notin 1..n
    <3>1. j \in (n + 1)..(n + k + 1)
      BY <1>1, <1>8, <2>3
    <3>2. j = n + 1 /\ all[j].n = r
      BY <1>10, <1>13, <3>1
    <3>3. all[i] = m[i] /\ m[i].n \in done
      BY <1>8, <1>11, <1>13, <2>1
    <3>4. all[j - 1].role = "answer"
      <4>1. j - 1 = n /\ n # 0 /\ n \in 1..n
        BY <1>1, <2>1, <3>2
      <4> QED
        BY <1>8, <1>11, <4>1
    <3> QED
      BY <3>2, <3>3, <3>4
  <2> QED
    BY <2>2, <2>3
<1>14. all # <<>> => all[Len(all)].role = "answer"
  BY <1>8
<1>15. Exchanges(all, done \cup {r})
  BY <1>7, <1>12, <1>13, <1>14 DEF Exchanges
<1>16. m \o o \o <<Msg("answer", 0)>> = all
  BY <1>5 DEF l, x
<1> QED
  BY <1>6, <1>15, <1>16

LEMMA MoreDone ==
  ASSUME NEW m, NEW done, NEW more, done \subseteq more, Exchanges(m, done)
  PROVE  Exchanges(m, more)
BY DEF Exchanges


-----------------------------------------------------------------------------
(* The state of one run.                                                   *)

Outcomes == {"none", "returned", "lost", "raised", "cancelled"}
Repeats == [batch : Batches \cup {<<>>}, times : 0..(MaxRepeats - 1)]

\* A transcript that was not compressed: what came from the memory, in which
\* every call is answered, then the task and the run's own messages.  Outside
\* the tool calls of a turn it is whole.
Begins(r, m, s) ==
  /\ s \in 1..Len(m) /\ m[s] = Msg("task", r)
  /\ \A i \in (s + 1)..Len(m) : m[i].role \in {"user", "assistant", "tool"}
  /\ \A i \in 1..(s - 1) : m[i].role = "assistant" => i + m[i].n < s

Shape(r, p, m, s, n, t) ==
  /\ Begins(r, m, s)
  /\ p = "tools" => Answering(m, t, n)
  /\ p # "tools" => WellFormed(m)

\* One run: its point p, transcript m, start s, last batch b, calls left t,
\* outcome o, and whether its transcript is cut.
RunOk(r, p, m, s, b, t, o, isCut) ==
  /\ p = "tools" <=> t > 0
  /\ p = "tools" => t <= Len(b.batch)
  /\ o # "none" => p \in Out
  /\ o = "lost" => p = "done"
  /\ p \notin {"idle"} \cup Out => s # 0
  /\ p \notin {"idle"} \cup Out /\ ~isCut => Shape(r, p, m, s, Len(b.batch), t)

RunTypes ==
  /\ pc \in [Runs -> Points]
  /\ msgs \in [Runs -> Seq(Messages)] /\ start \in [Runs -> Nat]
  /\ repeats \in [Runs -> Repeats] /\ todo \in [Runs -> Nat]
  /\ outcome \in [Runs -> Outcomes] /\ cut \subseteq Runs

RunsInv ==
  /\ RunTypes
  /\ \A r \in Runs : RunOk(r, pc[r], msgs[r], start[r], repeats[r], todo[r], outcome[r], r \in cut)

Becomes(r, p, m, s, b, t, o, c) ==
  /\ pc' = [pc EXCEPT ![r] = p] /\ msgs' = [msgs EXCEPT ![r] = m]
  /\ start' = [start EXCEPT ![r] = s] /\ repeats' = [repeats EXCEPT ![r] = b]
  /\ todo' = [todo EXCEPT ![r] = t] /\ outcome' = [outcome EXCEPT ![r] = o]
  /\ cut' = c

\* What the run says comes after its task.
LEMMA BeginsOn ==
  ASSUME NEW r, NEW m \in Seq(Messages), NEW s, NEW x \in Messages,
         x.role \in {"user", "assistant", "tool"}, Begins(r, m, s)
  PROVE  Begins(r, Append(m, x), s)
<1> DEFINE l == Append(m, x)
           n == Len(m)
<1>1. /\ Len(l) = n + 1 /\ n \in Nat /\ l[n + 1] = x
      /\ \A i \in 1..n : l[i] = m[i]
  BY Added
<1>2. s \in 1..n /\ m[s] = Msg("task", r)
  BY DEF Begins
<1>3. /\ \A i \in (s + 1)..n : m[i].role \in {"user", "assistant", "tool"}
      /\ \A i \in 1..(s - 1) : m[i].role = "assistant" => i + m[i].n < s
  BY DEF Begins
<1> HIDE DEF l, n
<1>4. s \in 1..Len(l) /\ l[s] = Msg("task", r)
  BY <1>1, <1>2
<1>5. ASSUME NEW i \in (s + 1)..Len(l)
      PROVE  l[i].role \in {"user", "assistant", "tool"}
  <2>1. i = n + 1 \/ (i \in (s + 1)..n /\ i \in 1..n)
    BY <1>1, <1>2
  <2> QED
    BY <1>1, <1>3, <2>1
<1>6. ASSUME NEW i \in 1..(s - 1), l[i].role = "assistant"
      PROVE  i + l[i].n < s
  <2>1. i \in 1..n
    BY <1>1, <1>2
  <2> QED
    BY <1>1, <1>3, <1>6, <2>1
<1>7. Begins(r, l, s)
  BY <1>4, <1>5, <1>6 DEF Begins
<1> QED
  BY <1>7 DEF l

\* A step of one run leaves the others alone.
LEMMA RunBecomes ==
  ASSUME RunsInv, NEW r \in Runs, NEW p \in Points, NEW m \in Seq(Messages), NEW s \in Nat,
         NEW b \in Repeats, NEW t \in Nat, NEW o \in Outcomes, NEW c \in SUBSET Runs,
         \A q \in Runs \ {r} : q \in c <=> q \in cut,
         Becomes(r, p, m, s, b, t, o, c),
         RunOk(r, p, m, s, b, t, o, r \in c)
  PROVE  RunsInv'
<1>1. RunTypes'
  BY DEF RunsInv, RunTypes, Becomes
<1>2. /\ pc'[r] = p /\ msgs'[r] = m /\ start'[r] = s /\ repeats'[r] = b /\ todo'[r] = t
      /\ outcome'[r] = o /\ cut' = c
  BY DEF RunsInv, RunTypes, Becomes
<1>3. \A q \in Runs \ {r} :
        /\ pc'[q] = pc[q] /\ msgs'[q] = msgs[q] /\ start'[q] = start[q]
        /\ repeats'[q] = repeats[q] /\ todo'[q] = todo[q] /\ outcome'[q] = outcome[q]
        /\ q \in cut' <=> q \in cut
  BY DEF RunsInv, RunTypes, Becomes
<1>4. ASSUME NEW q \in Runs
      PROVE  RunOk(q, pc'[q], msgs'[q], start'[q], repeats'[q], todo'[q], outcome'[q], q \in cut')
  <2>1. CASE q = r
    BY <1>2, <2>1 DEF RunOk
  <2>2. CASE q # r
    <3>1. RunOk(q, pc[q], msgs[q], start[q], repeats[q], todo[q], outcome[q], q \in cut)
      BY DEF RunsInv
    <3> QED
      BY <1>3, <2>2, <3>1 DEF RunOk
  <2> QED
    BY <2>1, <2>2
<1> QED
  BY <1>1, <1>4 DEF RunsInv

\* A run that goes on with the same transcript.
LEMMA GoesOn ==
  ASSUME RunsInv, NEW r \in Runs, NEW p \in {"guard", "flight", "answered"},
         pc[r] \in {"turn", "guard", "flight"}, pc' = [pc EXCEPT ![r] = p],
         UNCHANGED <<msgs, start, repeats, todo, outcome, cut>>
  PROVE  RunsInv'
<1>1. RunOk(r, pc[r], msgs[r], start[r], repeats[r], todo[r], outcome[r], r \in cut)
  BY DEF RunsInv
<1>2. RunOk(r, p, msgs[r], start[r], repeats[r], todo[r], outcome[r], r \in cut)
  BY <1>1 DEF RunOk, Out, Shape
<1>3. Becomes(r, p, msgs[r], start[r], repeats[r], todo[r], outcome[r], cut)
  BY DEF Becomes, RunsInv, RunTypes
<1>4. /\ p \in Points /\ msgs[r] \in Seq(Messages) /\ start[r] \in Nat /\ repeats[r] \in Repeats
      /\ todo[r] \in Nat /\ outcome[r] \in Outcomes /\ cut \in SUBSET Runs
  BY DEF RunsInv, RunTypes, Points
<1> QED
  BY <1>2, <1>3, <1>4, RunBecomes

\* A run that ends.
LEMMA Ends ==
  ASSUME RunsInv, NEW r \in Runs, NEW how \in Outcomes \ {"lost"}, Over(r, how), UNCHANGED cut
  PROVE  RunsInv'
<1>1. /\ "leaving" \in Points /\ <<>> \in Seq(Messages) /\ 0 \in Nat /\ NoBatch \in Repeats
      /\ cut \in SUBSET Runs
  BY AgentAssumption DEF RunsInv, RunTypes, Points, NoBatch, Repeats
<1>2. RunOk(r, "leaving", <<>>, 0, NoBatch, 0, how, r \in cut)
  BY DEF RunOk, Out
<1>3. Becomes(r, "leaving", <<>>, 0, NoBatch, 0, how, cut)
  BY DEF Over, Becomes
<1> QED
  BY <1>1, <1>2, <1>3, RunBecomes

\* A run that is over returns, or raises.
LEMMA GoesOut ==
  ASSUME RunsInv, NEW r \in Runs, NEW how \in Outcomes, pc[r] = "leaving",
         pc' = [pc EXCEPT ![r] = "done"], outcome' = [outcome EXCEPT ![r] = how],
         UNCHANGED <<msgs, start, repeats, todo, cut>>
  PROVE  RunsInv'
<1>1. RunOk(r, pc[r], msgs[r], start[r], repeats[r], todo[r], outcome[r], r \in cut)
  BY DEF RunsInv
<1>2. RunOk(r, "done", msgs[r], start[r], repeats[r], todo[r], how, r \in cut)
  BY <1>1 DEF RunOk, Out
<1>3. Becomes(r, "done", msgs[r], start[r], repeats[r], todo[r], how, cut)
  BY DEF Becomes, RunsInv, RunTypes
<1>4. /\ "done" \in Points /\ msgs[r] \in Seq(Messages) /\ start[r] \in Nat /\ repeats[r] \in Repeats
      /\ todo[r] \in Nat /\ cut \in SUBSET Runs
  BY DEF RunsInv, RunTypes, Points
<1> QED
  BY <1>2, <1>3, <1>4, RunBecomes

\* A user message: steering's feedback, or the request for the final answer.
LEMMA Speaks ==
  ASSUME RunsInv, NEW r \in Runs, NEW p \in {"turn", "final"}, pc[r] \in {"turn", "answered"},
         pc' = [pc EXCEPT ![r] = p], Say(r, Msg("user", 0)),
         UNCHANGED <<start, repeats, todo, outcome, cut>>
  PROVE  RunsInv'
<1> DEFINE x == Msg("user", 0)
           n == Len(repeats[r].batch)
<1>1. /\ RunOk(r, pc[r], msgs[r], start[r], repeats[r], todo[r], outcome[r], r \in cut)
      /\ msgs[r] \in Seq(Messages) /\ start[r] \in Nat /\ repeats[r] \in Repeats
      /\ todo[r] \in Nat /\ outcome[r] \in Outcomes /\ cut \in SUBSET Runs /\ p \in Points
  BY DEF RunsInv, RunTypes, Points
<1>2. x \in Messages /\ x.role = "user"
  BY DEF Msg, Messages
<1>3. PICK m : m = Append(msgs[r], x)
  OBVIOUS
<1>4. Becomes(r, p, m, start[r], repeats[r], todo[r], outcome[r], cut)
  BY <1>3 DEF Becomes, Say, RunsInv, RunTypes
<1> HIDE DEF x
<1>5. m \in Seq(Messages)
  BY <1>1, <1>2, <1>3, Added
<1>6. ASSUME Shape(r, pc[r], msgs[r], start[r], n, todo[r])
      PROVE  Shape(r, p, m, start[r], n, todo[r])
  <2>1. WellFormed(m)
    BY <1>1, <1>2, <1>3, <1>6, PlainAdded DEF Shape
  <2>2. Begins(r, m, start[r])
    BY <1>1, <1>2, <1>3, <1>6, BeginsOn DEF Shape
  <2> QED
    BY <2>1, <2>2 DEF Shape
<1>7. RunOk(r, p, m, start[r], repeats[r], todo[r], outcome[r], r \in cut)
  BY <1>1, <1>6 DEF RunOk, Out
<1> QED
  BY <1>1, <1>4, <1>5, <1>7, RunBecomes

\* The tool calls of an answer.
LEMMA Calls ==
  ASSUME RunsInv, NEW r \in Runs, NEW b \in Batches, pc[r] = "answered", ~LoopFound(r, b),
         pc' = [pc EXCEPT ![r] = "tools"],
         repeats' = [repeats EXCEPT ![r] = [batch |-> b, times |-> Times(r, b)]],
         todo' = [todo EXCEPT ![r] = Len(b)],
         Say(r, Msg("assistant", Len(b))),
         UNCHANGED <<start, outcome, cut>>
  PROVE  RunsInv'
<1> DEFINE n == Len(b)
           x == Msg("assistant", n)
<1>1. /\ RunOk(r, pc[r], msgs[r], start[r], repeats[r], todo[r], outcome[r], r \in cut)
      /\ msgs[r] \in Seq(Messages) /\ start[r] \in Nat /\ repeats[r] \in Repeats
      /\ outcome[r] \in Outcomes /\ cut \in SUBSET Runs /\ "tools" \in Points
  BY DEF RunsInv, RunTypes, Points
<1>2. n \in Nat /\ n > 0
  <2>1. b \in Seq(STRING) /\ b # <<>>
    BY AgentAssumption
  <2> QED
    BY <2>1, LenProperties, EmptySeq
<1>3. x \in Messages /\ x.role = "assistant"
  BY <1>2 DEF Msg, Messages
<1>4. PICK m : m = Append(msgs[r], x)
  OBVIOUS
<1>5. PICK c : c = [batch |-> b, times |-> Times(r, b)]
  OBVIOUS
<1>6. Becomes(r, "tools", m, start[r], c, n, outcome[r], cut)
  BY <1>4, <1>5 DEF Becomes, Say, RunsInv, RunTypes
<1>7. c \in Repeats /\ Len(c.batch) = n
  <2>1. Times(r, b) \in 0..(MaxRepeats - 1)
    BY <1>1, AgentAssumption DEF Times, LoopFound, Repeats
  <2> HIDE DEF n
  <2>2. c.batch = b /\ c \in Repeats
    BY <1>5, <2>1 DEF Repeats
  <2> QED
    BY <2>2 DEF n
<1>8. /\ m \in Seq(Messages)
      /\ WellFormed(msgs[r]) => Answering(m, n, n)
      /\ Begins(r, msgs[r], start[r]) => Begins(r, m, start[r])
  <2> HIDE DEF n
  <2> QED
    BY <1>1, <1>2, <1>3, <1>4, Added, CallsAdded, BeginsOn DEF x
<1> HIDE DEF n, x
<1>9. RunOk(r, "tools", m, start[r], c, n, outcome[r], r \in cut)
  BY <1>1, <1>2, <1>7, <1>8 DEF RunOk, Out, Shape
<1> QED
  BY <1>1, <1>2, <1>6, <1>7, <1>8, <1>9, RunBecomes

\* The answer to a tool call.
LEMMA Answers ==
  ASSUME RunsInv, NEW r \in Runs, ToolAnswered(r)
  PROVE  RunsInv'
<1> DEFINE n == Len(repeats[r].batch)
           t == todo[r]
           x == Msg("tool", n - t + 1)
<1>1. /\ RunOk(r, pc[r], msgs[r], start[r], repeats[r], t, outcome[r], r \in cut)
      /\ msgs[r] \in Seq(Messages) /\ start[r] \in Nat /\ repeats[r] \in Repeats
      /\ t \in Nat /\ outcome[r] \in Outcomes /\ cut \in SUBSET Runs /\ pc[r] = "tools"
  BY DEF RunsInv, RunTypes, ToolAnswered
<1>2. n \in Nat
  <2>1. repeats[r].batch \in Batches \cup {<<>>}
    BY <1>1 DEF Repeats
  <2>2. repeats[r].batch \in Seq(STRING)
    BY <2>1, AgentAssumption, EmptySeq
  <2> QED
    BY <2>2, LenProperties
<1>3. t \in 1..n
  <2> HIDE DEF n, t
  <2>1. t > 0 /\ t <= n
    BY <1>1 DEF RunOk, n
  <2> QED
    BY <1>1, <1>2, <2>1
<1>4. PICK m : m = Append(msgs[r], x)
  OBVIOUS
<1>5. PICK p : p = IF t = 1 THEN "turn" ELSE "tools"
  OBVIOUS
<1>6. Becomes(r, p, m, start[r], repeats[r], t - 1, outcome[r], cut)
  BY <1>4, <1>5 DEF Becomes, Say, ToolAnswered, NextCall, Answer, guard, RunsInv, RunTypes
<1> HIDE DEF n, t
<1>7. x \in Messages /\ x.role = "tool"
  BY <1>2, <1>3 DEF Msg, Messages
<1>8. /\ m \in Seq(Messages)
      /\ Begins(r, msgs[r], start[r]) => Begins(r, m, start[r])
  <2> HIDE DEF x
  <2> QED
    BY <1>1, <1>4, <1>7, Added, BeginsOn
<1>9. ASSUME Answering(msgs[r], t, n)
      PROVE  IF t = 1 THEN WellFormed(m) ELSE Answering(m, t - 1, n)
  BY <1>1, <1>2, <1>3, <1>4, <1>9, AnswerAdded
<1>10. p \in Points /\ t - 1 \in Nat
  BY <1>3, <1>5 DEF Points
<1>11. RunOk(r, p, m, start[r], repeats[r], t - 1, outcome[r], r \in cut)
  BY <1>1, <1>2, <1>3, <1>5, <1>8, <1>9 DEF RunOk, Out, Shape, n
<1> QED
  BY <1>1, <1>6, <1>8, <1>10, <1>11, RunBecomes

\* The transcript of a run that begins: the instructions, whole exchanges, the task.
LEMMA Begun ==
  ASSUME RunsInv, NEW r \in Runs, Execute(r), memory \in Seq(Messages),
         ~memoryCut => WellFormed(memory)
  PROVE  RunsInv'
<1> DEFINE h == <<Msg("system", 0)>>
           x == Msg("task", r)
           l == h \o memory
           n == Len(memory)
<1>1. /\ RunOk(r, "idle", msgs[r], start[r], repeats[r], todo[r], outcome[r], r \in cut)
      /\ repeats[r] \in Repeats /\ todo[r] \in Nat /\ outcome[r] \in Outcomes
      /\ cut \in SUBSET Runs /\ "turn" \in Points
  BY DEF RunsInv, RunTypes, Points, Execute
<1>2. PICK c : c = IF memoryCut THEN cut \cup {r} ELSE cut
  OBVIOUS
<1>3. PICK m : m = h \o memory \o <<x>>
  OBVIOUS
<1>4. Becomes(r, "turn", m, n + 2, repeats[r], todo[r], outcome[r], c)
  BY <1>2, <1>3 DEF Becomes, Execute, RunsInv, RunTypes, guard
<1>5. /\ c \in SUBSET Runs /\ (r \in c <=> (memoryCut \/ r \in cut))
      /\ \A q \in Runs \ {r} : q \in c <=> q \in cut
  BY <1>1, <1>2
<1>6. /\ x \in Messages /\ x.role = "task"
      /\ h \in Seq(Messages) /\ Len(h) = 1 /\ h[1] = Msg("system", 0)
      /\ h[1].role = "system"
  <2>1. r \in Nat
    BY AgentAssumption DEF Runs
  <2> QED
    BY <2>1 DEF Msg, Messages
<1>7. n \in Nat /\ DOMAIN memory = 1..n /\ \A i \in 1..n : memory[i] \in Messages
  BY LenProperties
<1>8. l \in Seq(Messages) /\ Len(l) = n + 1 /\ \A i \in 2..(n + 1) : l[i] = memory[i - 1]
  <2>1. /\ l \in Seq(Messages) /\ Len(l) = Len(h) + n
        /\ \A i \in 1..(Len(h) + n) : l[i] = IF i <= Len(h) THEN h[i] ELSE memory[i - Len(h)]
    <3> HIDE DEF h
    <3> QED
      BY <1>6, ConcatProperties
  <2> HIDE DEF l, n, h
  <2> QED
    BY <1>6, <1>7, <2>1
<1>9. l[1] = h[1]
  <2> HIDE DEF h
  <2> QED
    BY <1>6, <1>7, ConcatProperties
<1>10. ~memoryCut => WellFormed(l)
  <2>1. WellFormed(h)
    <3>1. DOMAIN h = {1}
      OBVIOUS
    <3> HIDE DEF h
    <3> QED
      BY <1>6, <3>1 DEF WellFormed
  <2> HIDE DEF h
  <2> QED
    BY <1>6, <2>1, Joined
<1> HIDE DEF l, x, h, n
<1>11. m = Append(l, x)
  BY <1>3, <1>6, <1>8, AppendIsConcat DEF l
<1>12. /\ m \in Seq(Messages) /\ Len(m) = n + 2 /\ m[n + 2] = x
       /\ \A i \in 1..(n + 1) : m[i] = l[i]
  <2>1. (n + 1) + 1 = n + 2
    BY <1>7
  <2> QED
    BY <1>6, <1>8, <1>11, <2>1, Added
<1>13. ASSUME ~memoryCut
       PROVE  Shape(r, "turn", m, n + 2, Len(repeats[r].batch), todo[r])
  <2>1. WellFormed(m)
    BY <1>6, <1>8, <1>10, <1>11, <1>13, PlainAdded
  <2>2. \A i \in 1..((n + 2) - 1) : m[i].role = "assistant" => i + m[i].n < n + 2
    <3> SUFFICES ASSUME NEW i \in 1..(n + 1), m[i].role = "assistant"
                 PROVE  i + m[i].n < n + 2
      BY <1>7
    <3>1. i \in 2..(n + 1) /\ m[i] = l[i] /\ l[i] \in Messages
      <4>1. i # 1
        BY <1>6, <1>7, <1>9, <1>12
      <4>2. DOMAIN l = 1..(n + 1)
        BY <1>8, LenProperties
      <4>3. l[i] \in Messages
        BY <1>8, <4>2, LenProperties
      <4> QED
        BY <1>7, <1>12, <4>1, <4>3
    <3>2. m[i].n \in Nat /\ DOMAIN l = 1..(n + 1)
      BY <1>8, <3>1, LenProperties DEF Messages
    <3>3. \A j \in 1..m[i].n : i + j \in 1..(n + 1)
      BY <1>7, <1>10, <1>13, <3>1, <3>2 DEF WellFormed
    <3> QED
      BY <1>7, <3>1, <3>2, <3>3
  <2>3. Begins(r, m, n + 2)
    BY <1>7, <1>12, <2>2 DEF Begins, x
  <2> QED
    BY <2>1, <2>3 DEF Shape
<1>14. n + 2 \in Nat /\ n + 2 # 0
  BY <1>7
<1>15. RunOk(r, "turn", m, n + 2, repeats[r], todo[r], outcome[r], r \in c)
  BY <1>1, <1>5, <1>13, <1>14 DEF RunOk, Out
<1> QED
  BY <1>1, <1>4, <1>5, <1>12, <1>14, <1>15, RunBecomes

\* The compressed transcript is marked as cut.
LEMMA Compresses ==
  ASSUME RunsInv, NEW r \in Runs, pc[r] = "turn", pc' = [pc EXCEPT ![r] = "guard"],
         Len(msgs[r]) > CompressAbove, msgs' = [msgs EXCEPT ![r] = Compressed(@)],
         cut' = cut \cup {r},
         UNCHANGED <<start, repeats, todo, outcome>>
  PROVE  RunsInv'
<1> DEFINE n == Len(msgs[r])
<1>1. /\ RunOk(r, pc[r], msgs[r], start[r], repeats[r], todo[r], outcome[r], r \in cut)
      /\ msgs[r] \in Seq(Messages) /\ start[r] \in Nat /\ repeats[r] \in Repeats
      /\ todo[r] \in Nat /\ outcome[r] \in Outcomes /\ "guard" \in Points
      /\ cut \cup {r} \in SUBSET Runs
  BY DEF RunsInv, RunTypes, Points
<1>2. PICK m : m = Compressed(msgs[r])
  OBVIOUS
<1>3. PICK c : c = cut \cup {r}
  OBVIOUS
<1>4. Becomes(r, "guard", m, start[r], repeats[r], todo[r], outcome[r], c)
  BY <1>2, <1>3 DEF Becomes, RunsInv, RunTypes
<1>5. m \in Seq(Messages)
  <2>1. n \in Nat /\ n > 4 /\ \A i \in 1..n : msgs[r][i] \in Messages
    BY <1>1, AgentAssumption, LenProperties
  <2>2. SubSeq(msgs[r], n - 1, n) \in Seq(Messages)
    <3>1. /\ n - 1 \in Int /\ n \in Int
          /\ \A i \in (n - 1)..n : msgs[r][i] \in Messages
      BY <2>1
    <3> HIDE DEF n
    <3> QED
      BY <1>1, <3>1, SubSeqProperties
  <2>3. <<msgs[r][1], Msg("system", 1)>> \in Seq(Messages)
    <3>1. msgs[r][1] \in Messages
      BY <2>1
    <3>2. Msg("system", 1) \in Messages
      BY DEF Msg, Messages
    <3> QED
      BY <3>1, <3>2
  <2> QED
    BY <1>2, <2>2, <2>3, ConcatProperties DEF Compressed
<1>6. RunOk(r, "guard", m, start[r], repeats[r], todo[r], outcome[r], r \in c)
  BY <1>1, <1>3 DEF RunOk, Out
<1>7. c \in SUBSET Runs /\ \A q \in Runs \ {r} : q \in c <=> q \in cut
  BY <1>1, <1>3
<1> QED
  BY <1>1, <1>4, <1>5, <1>6, <1>7, RunBecomes

\* The forced final answer: the run ends, or asks for it.
LEMMA FinalForced ==
  ASSUME RunsInv, NEW r \in Runs, pc[r] \in {"turn", "answered"}, ForceFinal(r), UNCHANGED cut
  PROVE  RunsInv'
<1>1. CASE killed
  <2>1. Over(r, "raised")
    BY <1>1 DEF ForceFinal, Raised
  <2>2. "raised" \in Outcomes
    BY DEF Outcomes
  <2> QED
    BY <2>1, <2>2, Ends
<1>2. CASE ~killed
  <2>1. /\ pc' = [pc EXCEPT ![r] = "final"] /\ Say(r, Msg("user", 0))
        /\ UNCHANGED <<start, repeats, todo, outcome>>
    BY <1>2 DEF ForceFinal
  <2> QED
    BY <2>1, Speaks
<1> QED
  BY <1>1, <1>2

LEMMA RunsSteps ==
  ASSUME RunsInv, NEW r \in Runs, Step(r) \/ Cancel(r)
  PROVE  RunsInv'
<1> USE DEF guard
<1>0. {"returned", "raised", "cancelled"} \subseteq Outcomes \ {"lost"} /\ "lost" \in Outcomes
  BY DEF Outcomes
<1>1. CASE BeginTurn(r)
  <2>1. CASE Raised(r) /\ UNCHANGED cut
    BY <1>0, <2>1, Ends DEF Raised
  <2>2. CASE /\ pc' = [pc EXCEPT ![r] = "guard"]
             /\ UNCHANGED <<msgs, cut>>
             /\ UNCHANGED <<start, repeats, todo, memory, outcome, memoryCut>>
    BY <1>1, <2>2, GoesOn DEF BeginTurn
  <2>3. CASE /\ pc' = [pc EXCEPT ![r] = "guard"]
             /\ Len(msgs[r]) > CompressAbove
             /\ msgs' = [msgs EXCEPT ![r] = Compressed(@)] /\ cut' = cut \cup {r}
             /\ UNCHANGED <<start, repeats, todo, memory, outcome, memoryCut>>
    BY <1>1, <2>3, Compresses DEF BeginTurn
  <2> QED
    BY <1>1, <2>1, <2>2, <2>3 DEF BeginTurn
<1>2. CASE CallLLM(r)
  BY <1>2, GoesOn DEF CallLLM
<1>3. CASE TurnsExhausted(r)
  BY <1>3, FinalForced DEF TurnsExhausted
<1>4. ASSUME NEW c \in 0..MaxCost, Response(r, c)
      PROVE  RunsInv'
  <2>1. CASE OverBudget(r, c)
    BY <1>0, <1>4, <2>1, Ends DEF Response, Raised
  <2>2. CASE ~OverBudget(r, c)
    BY <1>4, <2>2, GoesOn DEF Response
  <2> QED
    BY <2>1, <2>2
<1>5. ASSUME NEW c \in 0..MaxCost, FinalResponse(r, c)
      PROVE  RunsInv'
  BY <1>0, <1>5, Ends DEF FinalResponse, Returned
<1>6. CASE Discard(r)
  BY <1>6, Speaks DEF Discard
<1>7. CASE Interrupt(r) \/ FinalAnswer(r)
  BY <1>0, <1>7, Ends DEF Interrupt, FinalAnswer, Returned
<1>8. ASSUME NEW b \in Batches, ToolCalls(r, b)
      PROVE  RunsInv'
  <2>1. CASE LoopFound(r, b)
    BY <1>8, <2>1, FinalForced DEF ToolCalls
  <2>2. CASE ~LoopFound(r, b)
    BY <1>8, <2>2, Calls DEF ToolCalls
  <2> QED
    BY <2>1, <2>2
<1>9. CASE ToolAnswered(r)
  BY <1>9, Answers
<1>10. CASE Raise(r) \/ (Awaits(r) /\ Over(r, "cancelled") /\ UNCHANGED cut)
  BY <1>0, <1>10, Ends DEF Raise, Raised
<1>11. CASE Done(r)
  <2>1. outcome' = [outcome EXCEPT ![r] = outcome[r]] /\ outcome[r] \in Outcomes
    BY <1>11 DEF Done, RunsInv, RunTypes
  <2> QED
    BY <1>11, <2>1, GoesOut DEF Done
<1>12. CASE /\ pc[r] = "leaving" /\ pc' = [pc EXCEPT ![r] = "done"]
            /\ outcome' = [outcome EXCEPT ![r] = IF @ = "returned" THEN "lost" ELSE "cancelled"]
            /\ UNCHANGED <<msgs, start, repeats, todo, cut>>
  <2>1. CASE outcome[r] = "returned"
    BY <1>0, <1>12, <2>1, GoesOut
  <2>2. CASE outcome[r] # "returned"
    BY <1>0, <1>12, <2>2, GoesOut
  <2> QED
    BY <2>1, <2>2
<1> QED
  BY <1>1, <1>2, <1>3, <1>4, <1>5, <1>6, <1>7, <1>8, <1>9, <1>10, <1>11, <1>12 DEF Step, Cancel

-----------------------------------------------------------------------------
(* The memory.                                                             *)

\* The runs that had their answer, whether or not it reached the caller.
AnsweredRuns == {r \in Runs : outcome[r] \in {"returned", "lost"}}

MemoryInv ==
  /\ memory \in Seq(Messages) /\ Len(memory) <= Window /\ memoryCut \in BOOLEAN
  /\ ~memoryCut => Exchanges(memory, AnsweredRuns)

\* A run that is not over has no outcome, and an answer is not unsaid.
LEMMA MemoryStays ==
  ASSUME RunsInv, MemoryInv, UNCHANGED <<memory, memoryCut>>,
         \/ UNCHANGED outcome
         \/ \E r \in Runs : pc[r] \notin Out /\ \E o : outcome' = [outcome EXCEPT ![r] = o]
         \/ \E r \in Runs :
              outcome' = [outcome EXCEPT ![r] = IF @ = "returned" THEN "lost" ELSE "cancelled"]
              /\ outcome[r] # "lost"
  PROVE  MemoryInv'
<1>1. AnsweredRuns \subseteq AnsweredRuns'
  <2>1. \A r \in Runs : pc[r] \notin Out => outcome[r] = "none"
    BY DEF RunsInv, RunOk
  <2> QED
    BY <2>1 DEF AnsweredRuns, RunsInv, RunTypes
<1>2. ~memoryCut => Exchanges(memory, AnsweredRuns')
  BY <1>1, MoreDone DEF MemoryInv
<1> QED
  BY <1>2 DEF MemoryInv

\* The window keeps messages, and all of them if they are few.
LEMMA SlideFits ==
  ASSUME NEW m \in Seq(Messages)
  PROVE  /\ Slide(m) \in Seq(Messages) /\ Len(Slide(m)) <= Window
         /\ Len(m) <= Window => Slide(m) = m
<1> DEFINE n == Len(m)
           k == n - Window + 1
<1>1. n \in Nat /\ Window \in Nat \ {0} /\ \A i \in 1..n : m[i] \in Messages
  BY LenProperties, AgentAssumption
<1>2. CASE n <= Window
  BY <1>2 DEF Slide
<1>3. CASE n > Window
  <2>1. k \in 1..n /\ n - k + 1 = Window /\ n \in Int /\ k \in Int
    BY <1>1, <1>3
  <2>2. Slide(m) = SubSeq(m, k, n)
    BY <1>1, <1>3 DEF Slide
  <2> HIDE DEF k, n
  <2>3. \A i \in k..n : m[i] \in Messages
    BY <1>1, <2>1
  <2>4. SubSeq(m, k, n) \in Seq(Messages) /\ Len(SubSeq(m, k, n)) = IF k <= n THEN n - k + 1 ELSE 0
    BY <2>1, <2>3, SubSeqProperties
  <2>5. k <= n
    BY <1>1, <2>1
  <2> QED
    BY <1>1, <1>3, <2>1, <2>2, <2>4, <2>5 DEF n
<1> QED
  BY <1>1, <1>2, <1>3

\* The run's own messages are saved, and with the answer they are one whole
\* exchange.
LEMMA MemorySaved ==
  ASSUME RunsInv, MemoryInv, NEW r \in Runs, FinalAnswer(r)
  PROVE  MemoryInv'
<1> DEFINE n == Len(msgs[r])
           s == start[r]
           part == SubSeq(msgs[r], s, n)
           own == NotSystem(part)
           all == memory \o own \o <<Msg("answer", 0)>>
<1>1. /\ RunOk(r, "answered", msgs[r], s, repeats[r], todo[r], outcome[r], r \in cut)
      /\ msgs[r] \in Seq(Messages) /\ s \in Nat /\ pc[r] = "answered"
      /\ outcome' = [outcome EXCEPT ![r] = "returned"] /\ outcome \in [Runs -> Outcomes]
      /\ memory' = Slide(all) /\ memoryCut' = (memoryCut \/ r \in cut \/ Len(all) > Window)
  BY DEF RunsInv, RunTypes, FinalAnswer, Returned, Over, SaveMemory
<1>2. s # 0 /\ outcome[r] = "none"
  BY <1>1 DEF RunOk, Out
<1>3. n \in Nat /\ DOMAIN msgs[r] = 1..n /\ \A i \in 1..n : msgs[r][i] \in Messages
  BY <1>1, LenProperties
<1>4. part \in Seq(Messages)
  <2> HIDE DEF s, n
  <2>1. s \in Int /\ n \in Int /\ \A i \in s..n : msgs[r][i] \in Messages
    BY <1>1, <1>2, <1>3
  <2> QED
    BY <1>1, <2>1, SubSeqProperties
<1>5. own \in Seq(Messages)
  <2> HIDE DEF part
  <2> QED
    BY <1>4, NotSystemIsTyped
<1>6. all \in Seq(Messages)
  <2>1. <<Msg("answer", 0)>> \in Seq(Messages)
    BY DEF Msg, Messages
  <2> HIDE DEF own
  <2>2. memory \o own \in Seq(Messages)
    BY <1>5, ConcatProperties DEF MemoryInv
  <2> QED
    BY <2>1, <2>2, ConcatProperties
<1>7. memory' \in Seq(Messages) /\ Len(memory') <= Window /\ memoryCut' \in BOOLEAN
  <2> HIDE DEF all
  <2> QED
    BY <1>1, <1>6, SlideFits DEF MemoryInv
<1>8. ASSUME ~memoryCut'
      PROVE  Exchanges(memory', AnsweredRuns')
  <2> HIDE DEF n, s
  <2>1. ~memoryCut /\ r \notin cut /\ ~ (Len(all) > Window)
    BY <1>1, <1>8 DEF MemoryInv
  <2>2. Begins(r, msgs[r], s) /\ WellFormed(msgs[r])
    BY <1>1, <2>1 DEF RunOk, Out, Shape
  <2>3. /\ s \in 1..n /\ msgs[r][s] = Msg("task", r)
        /\ \A i \in (s + 1)..n : msgs[r][i].role \in {"user", "assistant", "tool"}
        /\ \A i \in 1..(s - 1) : msgs[r][i].role = "assistant" => i + msgs[r][i].n < s
    BY <2>2 DEF Begins, n
  <2>4. PICK p : p = s - 1
    OBVIOUS
  <2>5. /\ p \in 0..n /\ p + 1 = s /\ n - p >= 1
        /\ \A i \in 1..p : msgs[r][i].role = "assistant" => i + msgs[r][i].n <= p
    <3>1. p \in 0..n /\ p + 1 = s /\ n - p >= 1
      BY <1>3, <2>3, <2>4
    <3> SUFFICES ASSUME NEW i \in 1..p, msgs[r][i].role = "assistant"
                 PROVE  i + msgs[r][i].n <= p
      BY <3>1
    <3>2. i \in 1..n /\ i + msgs[r][i].n < s
      BY <1>3, <2>3, <2>4
    <3>3. msgs[r][i].n \in Nat
      BY <1>3, <3>2 DEF Messages
    <3> QED
      BY <1>3, <3>1, <3>2, <3>3
  <2>6. /\ Len(part) = n - p /\ \A i \in 1..(n - p) : part[i] = msgs[r][p + i]
        /\ WellFormed(part)
    <3>1. part = SubSeq(msgs[r], p + 1, Len(msgs[r]))
      BY <2>5 DEF n
    <3>2. p \in 0..Len(msgs[r])
      BY <2>5 DEF n
    <3> HIDE DEF part
    <3> QED
      BY <1>1, <2>2, <2>5, <3>1, <3>2, EndIsWhole DEF n
  <2> HIDE DEF part
  <2>7. OwnPart(part, r)
    <3>1. part[1] = Msg("task", r)
      <4>1. 1 \in 1..(n - p)
        BY <1>3, <2>5
      <4> QED
        BY <2>3, <2>5, <2>6, <4>1
    <3>2. \A i \in 2..Len(part) : part[i].role \in {"user", "assistant", "tool"}
      <4> SUFFICES ASSUME NEW i \in 2..Len(part)
                   PROVE  part[i].role \in {"user", "assistant", "tool"}
        OBVIOUS
      <4>1. i \in 1..(n - p) /\ p + i \in (s + 1)..n
        BY <1>3, <2>5, <2>6
      <4> QED
        BY <2>3, <2>6, <4>1
    <3>3. part # <<>>
      BY <1>3, <1>4, <2>5, <2>6, EmptySeq
    <3> QED
      BY <3>1, <3>2, <3>3 DEF OwnPart
  <2>8. own = part
    <3>1. DOMAIN part = 1..Len(part)
      BY <1>4, LenProperties
    <3>2. \A i \in DOMAIN part : part[i].role # "system"
      <4> SUFFICES ASSUME NEW i \in DOMAIN part
                   PROVE  part[i].role # "system"
        OBVIOUS
      <4>1. CASE i = 1
        BY <2>7, <4>1 DEF OwnPart, Msg
      <4>2. CASE i # 1
        <5>1. i \in 2..Len(part)
          BY <1>3, <2>5, <2>6, <3>1, <4>2
        <5> QED
          BY <2>7, <5>1 DEF OwnPart
      <4> QED
        BY <4>1, <4>2
    <3> QED
      BY <1>4, <3>2, NotSystemKeepsAll
  <2>9. r \in Nat \ AnsweredRuns
    BY <1>2, AgentAssumption DEF AnsweredRuns, Runs
  <2>10. Exchanges(memory \o part \o <<Msg("answer", 0)>>, AnsweredRuns \cup {r})
    BY <1>4, <2>1, <2>6, <2>7, <2>9, ExchangeAdded DEF MemoryInv
  <2>11. AnsweredRuns' = AnsweredRuns \cup {r}
    BY <1>1 DEF AnsweredRuns
  <2>12. memory' = memory \o part \o <<Msg("answer", 0)>>
    <3>1. Len(all) <= Window
      <4> HIDE DEF all
      <4> QED
        BY <1>6, <2>1, LenProperties, AgentAssumption
    <3>2. Slide(all) = all
      <4> HIDE DEF all
      <4> QED
        BY <1>6, <3>1, SlideFits
    <3>3. memory' = all
      BY <1>1, <3>2
    <3> QED
      BY <2>8, <3>3
  <2> HIDE DEF all, own
  <2> QED
    BY <2>10, <2>11, <2>12
<1> QED
  BY <1>7, <1>8 DEF MemoryInv

LEMMA MemorySteps ==
  ASSUME RunsInv, MemoryInv, NEW r \in Runs, Execute(r) \/ Step(r) \/ Cancel(r)
  PROVE  MemoryInv'
<1> USE DEF guard
<1>1. CASE FinalAnswer(r)
  BY <1>1, MemorySaved
<1>2. CASE ~FinalAnswer(r)
  <2>1. UNCHANGED <<memory, memoryCut>>
    BY <1>2 DEF Step, Execute, BeginTurn, CallLLM, TurnsExhausted, Response, FinalResponse,
                Discard, Interrupt, ToolCalls, ToolAnswered, NextCall, Raise, Done, Cancel,
                ForceFinal, Raised
  <2>2. CASE pc[r] = "leaving"
    <3>1. UNCHANGED outcome
            \/ outcome' = [outcome EXCEPT ![r] = IF @ = "returned" THEN "lost" ELSE "cancelled"]
      BY <1>2, <2>2 DEF Step, Execute, BeginTurn, CallLLM, TurnsExhausted, Response, FinalResponse,
                  Discard, Interrupt, ToolCalls, ToolAnswered, NextCall, Raise, Done, Cancel, Awaits
    <3>2. outcome[r] # "lost"
      BY <2>2 DEF RunsInv, RunOk
    <3> QED
      BY <2>1, <3>1, <3>2, MemoryStays
  <2>3. CASE pc[r] # "leaving"
    <3>1. UNCHANGED outcome \/ (pc[r] \notin Out /\ \E o : outcome' = [outcome EXCEPT ![r] = o])
      BY <1>2, <2>3 DEF Step, Execute, BeginTurn, CallLLM, TurnsExhausted, Response, FinalResponse,
                  Discard, Interrupt, ToolCalls, ToolAnswered, NextCall, Raise, Done, Cancel,
                  ForceFinal, Raised, Returned, Over, Awaits, Out
    <3> QED
      BY <2>1, <3>1, MemoryStays
  <2> QED
    BY <2>2, <2>3
<1> QED
  BY <1>1, <1>2

\* Only the beginning of a turn counts it.
TurnsInv == turn \in [Runs -> 0..MaxTurns]

LEMMA TurnSteps ==
  ASSUME TurnsInv, NEW r \in Runs, Execute(r) \/ Step(r) \/ Cancel(r)
  PROVE  TurnsInv'
<1> USE DEF guard
<1>1. CASE BeginTurn(r)
  BY <1>1, AgentAssumption DEF BeginTurn, TurnsInv
<1>2. CASE ~BeginTurn(r)
  <2>1. UNCHANGED turn
    BY <1>2 DEF Step, Execute, CallLLM, TurnsExhausted, Response, FinalResponse,
                Discard, Interrupt, FinalAnswer, ToolCalls, ToolAnswered, NextCall, Raise, Done, Cancel
  <2> QED
    BY <2>1 DEF TurnsInv
<1> QED
  BY <1>1, <1>2

TranscriptInv == RunsInv /\ MemoryInv /\ TurnsInv
-----------------------------------------------------------------------------
\* Every transcript that was not compressed is what the memory gave, the task and
\* the run's own messages, with every tool call answered so far in its place; the
\* memory is one whole exchange after the other, of runs that had
\* their answer (engine.py:297-419, 438-445, 484-494, 555-613).
THEOREM TranscriptInvariant == Spec => []TranscriptInv
<1>1. Init => TranscriptInv
  <2> SUFFICES ASSUME Init PROVE TranscriptInv
    OBVIOUS
  <2>1. RunsInv
    <3>1. NoBatch \in Repeats /\ <<>> \in Seq(Messages)
      BY AgentAssumption DEF NoBatch, Repeats
    <3>2. RunTypes
      BY <3>1 DEF Init, RunTypes, Points, Outcomes
    <3>3. \A r \in Runs : pc[r] = "idle" /\ todo[r] = 0 /\ outcome[r] = "none"
      BY DEF Init
    <3> QED
      BY <3>2, <3>3 DEF RunsInv, RunOk
  <2>2. MemoryInv
    <3>1. memory = <<>> /\ Len(memory) = 0 /\ DOMAIN memory = {} /\ memoryCut = FALSE
      BY DEF Init
    <3>2. Exchanges(memory, AnsweredRuns)
      BY <3>1 DEF Exchanges, WellFormed
    <3>3. memory \in Seq(Messages) /\ Len(memory) <= Window
      BY <3>1, AgentAssumption, EmptySeq
    <3> QED
      BY <3>1, <3>2, <3>3 DEF MemoryInv
  <2>3. TurnsInv
    BY AgentAssumption DEF Init, TurnsInv
  <2> QED
    BY <2>1, <2>2, <2>3 DEF TranscriptInv
<1>2. TranscriptInv /\ [Next]_vars => TranscriptInv'
  <2> SUFFICES ASSUME TranscriptInv, [Next]_vars PROVE TranscriptInv'
    OBVIOUS
  <2>0. RunsInv /\ MemoryInv /\ TurnsInv
    BY DEF TranscriptInv
  <2>1. ASSUME NEW r \in Runs, Execute(r) \/ Step(r) \/ Cancel(r)
        PROVE  TranscriptInv'
    <3>1. ~memoryCut => WellFormed(memory)
      BY <2>0 DEF MemoryInv, Exchanges
    <3>2. RunsInv'
      BY <2>0, <2>1, <3>1, Begun, RunsSteps DEF MemoryInv
    <3> QED
      BY <2>0, <2>1, <3>2, MemorySteps, TurnSteps DEF TranscriptInv
  <2>2. CASE Activate \/ Deactivate \/ UNCHANGED vars
    <3>1. UNCHANGED <<pc, msgs, start, turn, repeats, todo, memory, outcome, cut, memoryCut>>
      BY <2>2 DEF Activate, Deactivate, vars, guard
    <3>2. RunsInv'
      BY <2>0, <3>1 DEF RunsInv, RunTypes
    <3> QED
      BY <2>0, <3>1, <3>2, MemoryStays DEF TranscriptInv, TurnsInv
  <2> QED
    BY <2>1, <2>2 DEF Next
<1> QED
  BY <1>1, <1>2, PTL DEF Spec

\* Every variable has its type, and calls are left exactly while tools run.
THEOREM AgentTypes == Spec => []TypeOK
<1>1. CallsInv /\ TranscriptInv => TypeOK
  <2> SUFFICES ASSUME CallsInv, TranscriptInv PROVE TypeOK
    OBVIOUS
  <2>1. \A r \in Runs : pc[r] = "tools" <=> todo[r] > 0
    BY DEF TranscriptInv, RunsInv, RunOk
  <2>2. RunTypes /\ CallTypes
    BY DEF TranscriptInv, RunsInv, CallsInv
  <2> QED
    BY <2>1, <2>2 DEF TypeOK, TranscriptInv, RunTypes, MemoryInv, TurnsInv, CallTypes, Points,
                      Outcomes, Repeats
<1> QED
  BY CallsInvariant, TranscriptInvariant, <1>1, PTL

\* What is sent to the LLM answers every tool call, and answers nothing else,
\* however many calls, turns and runs there are (engine.py:297-419, 555-613).
THEOREM TranscriptsAreWhole == Spec => []TranscriptsAnswerCalls
<1>1. TranscriptInv => TranscriptsAnswerCalls
  BY DEF TranscriptInv, RunsInv, RunOk, Out, Shape, TranscriptsAnswerCalls
<1> QED
  BY TranscriptInvariant, <1>1, PTL

\* Without compression and eviction the memory holds whole exchanges, each run's
\* once, and nothing of a run that raised or was cancelled before its answer, also
\* when any number of runs share it (engine.py:323-330, 438-445, 484-494).
THEOREM MemoryIsWhole == Spec => []MemoryHoldsExchanges
<1>1. TranscriptInv => MemoryHoldsExchanges
  BY DEF TranscriptInv, MemoryInv, Exchanges, AnsweredRuns, MemoryHoldsExchanges
<1> QED
  BY TranscriptInvariant, <1>1, PTL

=============================================================================
