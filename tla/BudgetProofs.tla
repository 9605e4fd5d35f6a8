---------------------------- MODULE BudgetProofs ----------------------------
(***************************************************************************)
(* For any callers, limits and amounts: a limit is overrun by less than    *)
(* one call of each other caller, and between calls the counters of one    *)
(* kind agree.                                                             *)
(***************************************************************************)
EXTENDS Budget, FiniteSetTheorems, TLAPS

Bound(i) == Limits[i].limit + MaxAmount * (Cardinality(Callers) - 1)

\* Callers that have passed the check of limit i and will still add to it.
Owing(i) ==
  {c \in Callers :
     /\ Value(c, i) > 0
     /\ (pc[c] = "check" /\ at[c] > i) \/ (pc[c] = "add" /\ at[c] >= 1 /\ at[c] <= i)}

Want(i) == [c \in Callers |-> Value(c, i)]

\* One of the callers in S adds what it wants and the others the most they may,
\* to a counter that is at k, and the bound holds.
HasRoom(k, S, want, bound) ==
  S # {} => \E c \in S : k + want[c] + MaxAmount * (Cardinality(S) - 1) <= bound

LimitInv(i) ==
  /\ \A c \in Owing(i) : Value(c, i) <= Limits[i].limit
  /\ HasRoom(counter[Key(i, today)], Owing(i), Want(i), Bound(i))
  /\ \A day \in 0..LastDay :
       /\ counter[Key(i, day)] <= Bound(i)
       /\ day > today /\ Limits[i].window = "day" => counter[Key(i, day)] = 0

BudgetInv == TypeOK /\ \A i \in Positions : LimitInv(i)

-----------------------------------------------------------------------------
\* Arithmetic of the bound: one factor more is one term more.
LEMMA OneMore == \A a, n \in Nat : a * (n + 1) = a * n + a /\ a * n \in Nat
  OBVIOUS

\* Facts about the sets of callers and the amounts.
LEMMA Sizes ==
  /\ IsFiniteSet(Callers) /\ Cardinality(Callers) \in Nat \ {0}
  /\ \A S \in SUBSET Callers :
       IsFiniteSet(S) /\ Cardinality(S) \in Nat /\ Cardinality(S) <= Cardinality(Callers)
<1>1. IsFiniteSet(Callers) /\ Callers # {}
  BY BudgetAssumption
<1>2. Cardinality(Callers) \in Nat /\ Cardinality(Callers) # 0
  BY <1>1, FS_CardinalityType, FS_EmptySet
<1> QED
  BY <1>1, <1>2, FS_Subset, FS_CardinalityType

\* A caller that is gone leaves room.
LEMMA RoomWithout ==
  ASSUME NEW S \in SUBSET Callers, NEW want \in [Callers -> 0..MaxAmount],
         NEW k \in Nat, NEW bound \in Nat, NEW c \in Callers,
         HasRoom(k, S, want, bound)
  PROVE  HasRoom(k, S \ {c}, want, bound)
<1> SUFFICES ASSUME c \in S, S \ {c} # {} PROVE HasRoom(k, S \ {c}, want, bound)
  <2>1. CASE c \notin S
    <3>1. S \ {c} = S
      BY <2>1
    <3> QED
      BY <3>1
  <2> QED
    BY <2>1 DEF HasRoom
<1> DEFINE n == Cardinality(S \ {c})
<1>1. Cardinality(S) = n + 1 /\ n \in Nat \ {0}
  <2>1. IsFiniteSet(S \ {c}) /\ n \in Nat
    BY Sizes
  <2>2. n # 0
    BY <2>1, FS_EmptySet
  <2> QED
    BY <2>1, <2>2, Sizes, FS_RemoveElement
<1>2. PICK d \in S : k + want[d] + MaxAmount * (Cardinality(S) - 1) <= bound
  BY DEF HasRoom
<1>3. PICK e \in S \ {c} : TRUE
  OBVIOUS
<1> HIDE DEF n
<1>4. PICK m \in Nat : n = m + 1
  <2>1. n - 1 \in Nat
    BY <1>1
  <2> QED
    BY <1>1, <2>1
<1>5. MaxAmount * (m + 1) = MaxAmount * m + MaxAmount /\ MaxAmount * m \in Nat
  BY OneMore, BudgetAssumption
<1>6. MaxAmount * (Cardinality(S) - 1) = MaxAmount * m + MaxAmount
  <2>1. Cardinality(S) - 1 = m + 1
    BY <1>1, <1>4
  <2> QED
    BY <2>1, <1>5
<1>7. k + want[e] + MaxAmount * m <= bound
  BY <1>2, <1>5, <1>6, BudgetAssumption
<1>8. n - 1 = m
  BY <1>4
<1> QED
  BY <1>3, <1>7, <1>8 DEF HasRoom, n

\* A caller that adds what it wants keeps within the room.
LEMMA RoomAfterAdd ==
  ASSUME NEW S \in SUBSET Callers, NEW want \in [Callers -> 0..MaxAmount],
         NEW k \in Nat, NEW bound \in Nat, NEW c \in S,
         HasRoom(k, S, want, bound)
  PROVE  /\ HasRoom(k + want[c], S \ {c}, want, bound)
         /\ k + want[c] <= bound
<1> DEFINE n == Cardinality(S \ {c})
<1>1. IsFiniteSet(S \ {c}) /\ n \in Nat /\ Cardinality(S) = n + 1
  BY Sizes, FS_RemoveElement
<1>2. PICK d \in S : k + want[d] + MaxAmount * n <= bound
  <2>1. PICK d \in S : k + want[d] + MaxAmount * (Cardinality(S) - 1) <= bound
    BY DEF HasRoom
  <2>2. Cardinality(S) - 1 = n
    BY <1>1
  <2> QED
    BY <2>1, <2>2
<1>3. n = 0 <=> S \ {c} = {}
  BY <1>1, FS_EmptySet
<1> HIDE DEF n
<1>4. CASE n = 0
  <2>1. d = c
    BY <1>3, <1>4
  <2>2. MaxAmount * n = 0
    BY <1>4, BudgetAssumption
  <2> QED
    BY <1>2, <1>3, <1>4, <2>1, <2>2 DEF HasRoom
<1>5. CASE n # 0
  <2>1. PICK m \in Nat : n = m + 1
    <3>1. n - 1 \in Nat
      BY <1>1, <1>5
    <3> QED
      BY <1>1, <3>1
  <2>2. MaxAmount * n = MaxAmount * m + MaxAmount /\ MaxAmount * m \in Nat
    BY <2>1, OneMore, BudgetAssumption
  <2>3. PICK e \in S \ {c} : e = d \/ d = c
    BY <1>3, <1>5
  <2>4. (k + want[c]) + want[e] + MaxAmount * m <= bound /\ k + want[c] <= bound
    <3> DEFINE t == MaxAmount * m
    <3>1. k + want[d] + t + MaxAmount <= bound /\ t \in Nat /\ MaxAmount \in Nat
      BY <1>2, <2>2, BudgetAssumption
    <3> HIDE DEF t
    <3>2. want[c] \in 0..MaxAmount /\ want[d] \in 0..MaxAmount /\ want[e] \in 0..MaxAmount
      OBVIOUS
    <3>3. (k + want[c]) + want[e] + t <= bound /\ k + want[c] <= bound
      BY <2>3, <3>1, <3>2
    <3> QED
      BY <3>3 DEF t
  <2>5. n - 1 = m
    BY <2>1
  <2> QED
    BY <2>3, <2>4, <2>5 DEF HasRoom, n
<1> QED
  BY <1>4, <1>5

\* A caller whose amount fits under the limit may join the others, and a counter
\* that is at zero has room for all whose amounts fit.
LEMMA RoomWithin ==
  ASSUME NEW S \in SUBSET Callers, NEW want \in [Callers -> 0..MaxAmount],
         NEW k \in Nat, NEW limit \in Nat, NEW c \in S, k + want[c] <= limit
  PROVE  HasRoom(k, S, want, limit + MaxAmount * (Cardinality(Callers) - 1))
<1> DEFINE s == Cardinality(S)
           n == Cardinality(Callers)
<1>1. s \in Nat /\ n \in Nat \ {0} /\ s <= n /\ s # 0
  BY Sizes, FS_EmptySet
<1> HIDE DEF s, n
<1>2. MaxAmount * (s - 1) <= MaxAmount * (n - 1) /\ MaxAmount * (s - 1) \in Nat
      /\ MaxAmount * (n - 1) \in Nat
  <2>1. \A a, x, y \in Nat : x <= y => a * x <= a * y /\ a * x \in Nat /\ a * y \in Nat
    OBVIOUS
  <2>2. s - 1 \in Nat /\ n - 1 \in Nat /\ s - 1 <= n - 1
    BY <1>1
  <2> QED
    BY <2>1, <2>2, BudgetAssumption
<1>3. k + want[c] + MaxAmount * (s - 1) <= limit + MaxAmount * (n - 1)
  BY <1>2, BudgetAssumption
<1> QED
  BY <1>3 DEF HasRoom, s, n

-----------------------------------------------------------------------------
\* The fields of a limit.
LEMMA LimitTypes ==
  ASSUME NEW i \in Positions
  PROVE  /\ Limits[i].kind \in Kinds /\ Limits[i].limit \in Nat
         /\ Limits[i].window \in {"day", "total"}
<1>1. Limits[i] \in BudgetLimit
  BY BudgetAssumption DEF Positions
<1> QED
  BY <1>1 DEF BudgetLimit

\* Types are kept by every step.
LEMMA TypesAreKept == ASSUME TypeOK, [Next]_vars PROVE TypeOK'
<1>0. Nothing \in [Kinds -> 0..MaxAmount] /\ Len(Limits) \in Nat \ {0}
  BY BudgetAssumption DEF Nothing
<1>1. ASSUME NEW c \in Callers, at[c] # Len(Limits)
      PROVE  at[c] + 1 \in Positions
  BY <1>0, <1>1 DEF TypeOK, Positions
<1>2. ASSUME NEW c \in Callers, Leave(c)
      PROVE  /\ pc' \in [Callers -> {"idle", "check", "add"}]
             /\ at' \in [Callers -> Positions]
             /\ amount' \in [Callers -> [Kinds -> 0..MaxAmount]]
  BY <1>0, <1>2 DEF Leave, TypeOK, Positions
<1>3. ASSUME NEW c \in Callers, BeginStep2(c) \/ (~IsLast(c) /\ NextLimit(c))
      PROVE  /\ pc' \in [Callers -> {"idle", "check", "add"}]
             /\ at' \in [Callers -> Positions]
             /\ amount' \in [Callers -> [Kinds -> 0..MaxAmount]]
  <2>1. CASE BeginStep2(c)
    BY <1>0, <2>1 DEF BeginStep2, TypeOK, Positions
  <2>2. CASE ~IsLast(c) /\ NextLimit(c)
    <3>1. at[c] + 1 \in Positions
      BY <1>1, <2>2 DEF IsLast
    <3> QED
      BY <2>2, <3>1 DEF NextLimit, TypeOK
  <2> QED
    BY <1>3, <2>1, <2>2
<1>4. ASSUME NEW c \in Callers, CheckAndRecord(c) PROVE TypeOK'
  <2>1. PICK wanted \in Amounts : amount' = [amount EXCEPT ![c] = wanted]
    BY <1>4 DEF CheckAndRecord
  <2>2. wanted \in [Kinds -> 0..MaxAmount] /\ 1 \in Positions
    BY <1>0, BudgetAssumption DEF Positions
  <2> QED
    BY <1>4, <2>1, <2>2 DEF CheckAndRecord, TypeOK
<1>5. ASSUME NEW c \in Callers, CheckLimit(c) PROVE TypeOK'
  BY <1>2, <1>3, <1>5 DEF CheckLimit, TypeOK
<1>6. ASSUME NEW c \in Callers, Count(c) PROVE counter' \in [Keys -> Nat]
  <2>1. Value(c, at[c]) \in Nat
    <3>1. Limits[at[c]].kind \in Kinds
      BY LimitTypes DEF TypeOK
    <3>2. amount[c] \in [Kinds -> 0..MaxAmount]
      BY DEF TypeOK
    <3>3. amount[c][Limits[at[c]].kind] \in 0..MaxAmount
      BY <3>1, <3>2
    <3> QED
      BY <3>3, BudgetAssumption DEF Value
  <2>2. \A k \in Keys : counter[k] + Value(c, at[c]) \in Nat
    BY <2>1 DEF TypeOK
  <2> QED
    BY <1>6, <2>2 DEF Count, TypeOK
<1>7. ASSUME NEW c \in Callers, AddToLimit(c) PROVE TypeOK'
  BY <1>2, <1>3, <1>6, <1>7 DEF AddToLimit, TypeOK
<1>8. ASSUME NEW c \in Callers, AddFails(c) PROVE TypeOK'
  BY <1>2, <1>6, <1>8 DEF AddFails, TypeOK
<1>9. ASSUME StartReset \/ ResetLimit \/ NewDay PROVE TypeOK'
  <2>1. CASE StartReset
    BY <1>0, <2>1 DEF StartReset, TypeOK
  <2>2. CASE ResetLimit
    <3>1. counter' \in [Keys -> Nat]
      BY <2>2 DEF ResetLimit, TypeOK
    <3>2. resetAt' \in 0..Len(Limits)
      BY <1>0, <2>2 DEF ResetLimit, TypeOK
    <3> QED
      BY <2>2, <3>1, <3>2 DEF ResetLimit, TypeOK
  <2>3. CASE NewDay
    <3>1. today' \in 0..LastDay
      BY <2>3, BudgetAssumption DEF NewDay, TypeOK
    <3> QED
      BY <2>3, <3>1 DEF NewDay, TypeOK
  <2> QED
    BY <1>9, <2>1, <2>2, <2>3
<1>10. CASE UNCHANGED vars
  BY <1>10 DEF vars, TypeOK
<1> QED
  BY <1>4, <1>5, <1>7, <1>8, <1>9, <1>10 DEF Next

\* The types of what LimitInv speaks of.
LEMMA Values ==
  ASSUME TypeOK, NEW i \in Positions
  PROVE  /\ Owing(i) \in SUBSET Callers
         /\ Want(i) \in [Callers -> 0..MaxAmount]
         /\ \A c \in Callers : Want(i)[c] = Value(c, i)
         /\ Limits[i].limit \in Nat /\ Bound(i) \in Nat /\ Bound(i) >= Limits[i].limit
         /\ \A day \in 0..LastDay : Key(i, day) \in Keys /\ counter[Key(i, day)] \in Nat
<1>1. Limits[i].kind \in Kinds /\ Limits[i].window \in {"day", "total"}
  BY LimitTypes
<1>2. \A c \in Callers : Value(c, i) \in 0..MaxAmount
  BY <1>1 DEF TypeOK, Value
<1>3. \A day \in 0..LastDay : Key(i, day) \in Keys
  BY <1>1, BudgetAssumption DEF Key, Keys
<1>4. Limits[i].limit \in Nat
  BY LimitTypes
<1>5. Bound(i) \in Nat /\ Bound(i) >= Limits[i].limit
  <2>1. \A a, n \in Nat : a * n \in Nat
    OBVIOUS
  <2>2. MaxAmount * (Cardinality(Callers) - 1) \in Nat
    BY <2>1, Sizes, BudgetAssumption
  <2> QED
    BY <1>4, <2>2 DEF Bound
<1> QED
  BY <1>2, <1>3, <1>4, <1>5 DEF Owing, Want, TypeOK

\* Counters of different limits are different.
LEMMA KeysDiffer ==
  ASSUME DistinctLimits, NEW i \in Positions, NEW j \in Positions, i # j,
         NEW d, NEW e
  PROVE  Key(i, d) # Key(j, e)
<1> SUFFICES ASSUME Key(i, d) = Key(j, e) PROVE FALSE
  OBVIOUS
<1>1. Limits[i].kind = Limits[j].kind /\ Limits[i].window = Limits[j].window
  BY DEF Key
<1> QED
  BY <1>1 DEF DistinctLimits, Key

\* One limit, over a step after which its counters and the amounts are as before
\* and nobody new will add to it.
LEMMA NobodyJoins ==
  ASSUME BudgetInv, TypeOK', NEW i \in Positions, NEW c \in Callers,
         today' = today,
         \A day \in 0..LastDay : counter'[Key(i, day)] = counter[Key(i, day)],
         Owing(i)' = Owing(i) \/ Owing(i)' = Owing(i) \ {c},
         \A d \in Owing(i)' : Value(d, i)' = Value(d, i)
  PROVE  LimitInv(i)'
<1> DEFINE k == counter[Key(i, today)]
<1>1. Owing(i) \in SUBSET Callers /\ Owing(i)' \in SUBSET Owing(i)
      /\ k \in Nat /\ Bound(i) \in Nat /\ today \in 0..LastDay
      /\ Want(i) \in [Callers -> 0..MaxAmount]
  BY Values DEF BudgetInv, TypeOK
<1>2. LimitInv(i)
  BY DEF BudgetInv
<1>3. HasRoom(k, Owing(i)', Want(i), Bound(i))
  <2>1. HasRoom(k, Owing(i), Want(i), Bound(i))
    BY <1>2 DEF LimitInv
  <2> HIDE DEF k
  <2>2. HasRoom(k, Owing(i) \ {c}, Want(i), Bound(i))
    BY <1>1, <2>1, RoomWithout
  <2> QED
    BY <2>1, <2>2
<1>4. \A d \in Owing(i)' : Want(i)'[d] = Want(i)[d]
  BY <1>1 DEF Want
<1>5. counter'[Key(i, today')] = k
  BY <1>1
<1>6. HasRoom(counter[Key(i, today)], Owing(i), Want(i), Bound(i))'
  <2> HIDE DEF k
  <2>1. \A d \in Owing(i)' :
          k + Want(i)[d] + MaxAmount * (Cardinality(Owing(i)') - 1) <= Bound(i)
            => k + Want(i)'[d] + MaxAmount * (Cardinality(Owing(i)') - 1) <= Bound(i)
    BY <1>4
  <2> QED
    BY <1>3, <1>5, <2>1 DEF HasRoom, Bound
<1>7. \A d \in Owing(i)' : Value(d, i)' <= Limits[i].limit
  BY <1>1, <1>2 DEF LimitInv
<1>8. \A day \in 0..LastDay :
        /\ counter'[Key(i, day)] <= Bound(i)
        /\ day > today' /\ Limits[i].window = "day" => counter'[Key(i, day)] = 0
  BY <1>2 DEF LimitInv
<1> QED
  BY <1>6, <1>7, <1>8 DEF LimitInv, Key, Bound

\* What a caller is about to do for one limit concerns no other caller.
LEMMA OthersOweTheSame ==
  ASSUME TypeOK, NEW i \in Positions, NEW c \in Callers,
         \A d \in Callers \ {c} : pc'[d] = pc[d] /\ at'[d] = at[d] /\ amount'[d] = amount[d]
  PROVE  /\ Owing(i)' \ {c} = Owing(i) \ {c}
         /\ \A d \in Callers \ {c} : Value(d, i)' = Value(d, i)
  BY DEF Owing, Value

\* The same for a step of one caller in which it does not join.
LEMMA CallerDoesNotJoin ==
  ASSUME BudgetInv, TypeOK', NEW i \in Positions, NEW c \in Callers,
         today' = today,
         \A day \in 0..LastDay : counter'[Key(i, day)] = counter[Key(i, day)],
         \A d \in Callers \ {c} : pc'[d] = pc[d] /\ at'[d] = at[d] /\ amount'[d] = amount[d],
         c \in Owing(i)' => c \in Owing(i) /\ Value(c, i)' = Value(c, i)
  PROVE  LimitInv(i)'
<1>1. Owing(i)' \ {c} = Owing(i) \ {c} /\ \A d \in Callers \ {c} : Value(d, i)' = Value(d, i)
  BY OthersOweTheSame DEF BudgetInv
<1>2. Owing(i)' = Owing(i) \/ Owing(i)' = Owing(i) \ {c}
  BY <1>1
<1>3. \A d \in Owing(i)' : Value(d, i)' = Value(d, i)
  BY <1>1 DEF Owing
<1> QED
  BY <1>2, <1>3, NobodyJoins

\* A caller that leaves owes nothing.
LEMMA LeavingOwesNothing ==
  ASSUME TypeOK, NEW i \in Positions, NEW c \in Callers, Leave(c)
  PROVE  /\ c \notin Owing(i)'
         /\ \A d \in Callers \ {c} : pc'[d] = pc[d] /\ at'[d] = at[d] /\ amount'[d] = amount[d]
  BY DEF Leave, Owing, TypeOK

\* Adding to one limit, or resetting it, does not touch another.
LEMMA OtherCounters ==
  ASSUME DistinctLimits, TypeOK, NEW i \in Positions, NEW j \in Positions, i # j, NEW x,
         counter' = [counter EXCEPT ![Key(j, today)] = x]
  PROVE  \A day \in 0..LastDay : counter'[Key(i, day)] = counter[Key(i, day)]
<1> SUFFICES ASSUME NEW day \in 0..LastDay PROVE counter'[Key(i, day)] = counter[Key(i, day)]
  OBVIOUS
<1>1. Key(i, day) # Key(j, today)
  BY KeysDiffer
<1>2. Key(i, day) \in Keys
  BY Values
<1> QED
  BY <1>1, <1>2 DEF TypeOK

\* check_and_record is called: the caller has passed no check yet.
LEMMA CheckAndRecordKeeps ==
  ASSUME BudgetInv, TypeOK', NEW i \in Positions, NEW c \in Callers, CheckAndRecord(c)
  PROVE  LimitInv(i)'
<1>1. c \notin Owing(i)'
  BY DEF CheckAndRecord, Owing, BudgetInv, TypeOK, Positions
<1>2. \A d \in Callers \ {c} : pc'[d] = pc[d] /\ at'[d] = at[d] /\ amount'[d] = amount[d]
  BY DEF CheckAndRecord, BudgetInv, TypeOK
<1> QED
  BY <1>1, <1>2, CallerDoesNotJoin DEF CheckAndRecord

\* Step 1: the caller joins those that may add to the limit it has just checked.
LEMMA CheckLimitKeeps ==
  ASSUME BudgetInv, TypeOK', NEW i \in Positions, NEW c \in Callers, CheckLimit(c)
  PROVE  LimitInv(i)'
<1> DEFINE Same == \A d \in Callers \ {c} : pc'[d] = pc[d] /\ at'[d] = at[d] /\ amount'[d] = amount[d]
<1>1. TypeOK /\ UNCHANGED <<counter, today>> /\ pc[c] = "check" /\ at[c] \in Positions
  BY DEF CheckLimit, BudgetInv, TypeOK
<1>2. CASE Leave(c)
  BY <1>1, <1>2, LeavingOwesNothing, CallerDoesNotJoin
<1>3. CASE (IsLast(c) /\ BeginStep2(c)) \/ (~IsLast(c) /\ NextLimit(c))
  <2>1. Same /\ amount' = amount
    BY <1>1, <1>3 DEF BeginStep2, NextLimit, TypeOK
  <2>2. Value(c, i)' = Value(c, i)
    BY <2>1 DEF Value
  <2>3. CASE i # at[c]
    <3>1. c \in Owing(i)' => c \in Owing(i)
      <4>1. CASE IsLast(c) /\ BeginStep2(c)
        BY <1>1, <2>2, <2>3, <4>1 DEF IsLast, BeginStep2, Owing, Positions, TypeOK
      <4>2. CASE ~IsLast(c) /\ NextLimit(c)
        BY <1>1, <2>2, <2>3, <4>2 DEF NextLimit, Owing, Positions, TypeOK
      <4> QED
        BY <1>3, <4>1, <4>2
    <3> QED
      BY <1>1, <2>1, <2>2, <3>1, CallerDoesNotJoin
  <2>4. CASE i = at[c] /\ c \in Owing(i)'
    <3>1. Value(c, i) > 0
      BY <2>2, <2>4 DEF Owing
    <3>2. ~(Value(c, i) > 0 /\ Exceeds(c, i))
      <4>1. ~Leave(c)
        BY <1>1, <1>3 DEF Leave, BeginStep2, NextLimit, TypeOK
      <4> QED
        BY <2>4, <4>1 DEF CheckLimit
    <3> DEFINE k == counter[Key(i, today)]
    <3>3. /\ k \in Nat /\ Value(c, i) \in Nat /\ Limits[i].limit \in Nat
          /\ k + Value(c, i) <= Limits[i].limit
      <4>1. k \in Nat /\ Want(i)[c] = Value(c, i) /\ Want(i) \in [Callers -> 0..MaxAmount]
            /\ Limits[i].limit \in Nat
        BY <1>1, Values DEF TypeOK
      <4>2. Want(i)[c] \in 0..MaxAmount
        BY <4>1
      <4> HIDE DEF k
      <4>3. Value(c, i) \in Nat
        BY <4>1, <4>2
      <4> QED
        BY <3>1, <3>2, <4>1, <4>3 DEF Exceeds, k
    <3>4. HasRoom(counter[Key(i, today)], Owing(i), Want(i), Bound(i))'
      <4>1. /\ Owing(i)' \in SUBSET Callers /\ Want(i)' \in [Callers -> 0..MaxAmount]
            /\ Want(i)'[c] = Value(c, i)
        <5>1. Want(i)' = Want(i) /\ Owing(i)' \in SUBSET Callers
          BY <2>1 DEF Want, Value, Owing
        <5> QED
          BY <1>1, <5>1, Values
      <4>2. HasRoom(k, Owing(i)', Want(i)', Limits[i].limit + MaxAmount * (Cardinality(Callers) - 1))
        <5> HIDE DEF k
        <5> QED
          BY <2>4, <3>3, <4>1, RoomWithin
      <4>3. counter'[Key(i, today')] = k
        BY <1>1
      <4> QED
        BY <4>2, <4>3 DEF Bound, Key
    <3>5. \A d \in Owing(i)' : Value(d, i)' <= Limits[i].limit
      <4>1. \A d \in Owing(i)' \ {c} : d \in Owing(i) /\ Value(d, i)' = Value(d, i)
        BY <1>1, <2>1, OthersOweTheSame DEF Owing
      <4>2. Value(c, i)' <= Limits[i].limit
        BY <2>2, <3>3
      <4> QED
        BY <4>1, <4>2 DEF BudgetInv, LimitInv
    <3> QED
      BY <1>1, <3>4, <3>5 DEF BudgetInv, LimitInv, Bound, Key
  <2>5. CASE c \notin Owing(i)'
    BY <1>1, <2>1, <2>5, CallerDoesNotJoin
  <2> QED
    BY <2>3, <2>4, <2>5
<1> QED
  BY <1>2, <1>3 DEF CheckLimit

\* A counter that gets what a caller owed to it, and the caller that no longer owes.
LEMMA AddKeeps ==
  ASSUME BudgetInv, TypeOK', NEW i \in Positions, NEW c \in Owing(i),
         Count(c), at[c] = i, today' = today,
         \A d \in Callers \ {c} : pc'[d] = pc[d] /\ at'[d] = at[d] /\ amount'[d] = amount[d],
         c \notin Owing(i)'
  PROVE  LimitInv(i)'
<1> DEFINE k == counter[Key(i, today)]
           v == Value(c, i)
<1>1. /\ Owing(i) \in SUBSET Callers /\ c \in Callers /\ today \in 0..LastDay
      /\ Want(i) \in [Callers -> 0..MaxAmount] /\ Want(i)[c] = v
      /\ k \in Nat /\ Bound(i) \in Nat /\ Key(i, today) \in Keys
  BY Values DEF BudgetInv, TypeOK, Owing
<1>2. Owing(i)' = Owing(i) \ {c} /\ \A d \in Callers \ {c} : Value(d, i)' = Value(d, i)
  BY OthersOweTheSame, <1>1 DEF BudgetInv
<1>3. /\ HasRoom(k + v, Owing(i)', Want(i), Bound(i))
      /\ k + v <= Bound(i)
  <2>1. HasRoom(k, Owing(i), Want(i), Bound(i))
    BY DEF BudgetInv, LimitInv
  <2> HIDE DEF k, v
  <2>2. /\ HasRoom(k + Want(i)[c], Owing(i) \ {c}, Want(i), Bound(i))
        /\ k + Want(i)[c] <= Bound(i)
    BY <1>1, <2>1, RoomAfterAdd
  <2> QED
    BY <1>1, <1>2, <2>2
<1>4. counter' = [counter EXCEPT ![Key(i, today)] = k + v]
  BY DEF Count
<1>5. counter'[Key(i, today)] = k + v
  BY <1>1, <1>4 DEF BudgetInv, TypeOK
<1>6. HasRoom(counter[Key(i, today)], Owing(i), Want(i), Bound(i))'
  <2>1. \A d \in Owing(i)' : Want(i)'[d] = Want(i)[d]
    BY <1>1, <1>2 DEF Want
  <2>2. counter'[Key(i, today')] = k + v /\ Bound(i)' = Bound(i)
    BY <1>5 DEF Bound
  <2> HIDE DEF k, v
  <2>3. \A d \in Owing(i)' :
          k + v + Want(i)[d] + MaxAmount * (Cardinality(Owing(i)') - 1) <= Bound(i)
            => k + v + Want(i)'[d] + MaxAmount * (Cardinality(Owing(i)') - 1) <= Bound(i)
    BY <2>1
  <2>4. HasRoom(k + v, Owing(i)', Want(i)', Bound(i))
    BY <1>3, <2>3 DEF HasRoom
  <2> QED
    BY <2>2, <2>4 DEF Key
<1>7. \A d \in Owing(i)' : Value(d, i)' <= Limits[i].limit
  BY <1>1, <1>2 DEF BudgetInv, LimitInv
<1>8. ASSUME NEW day \in 0..LastDay
      PROVE  /\ counter'[Key(i, day)] <= Bound(i)
             /\ day > today /\ Limits[i].window = "day" => counter'[Key(i, day)] = 0
  <2>1. Key(i, day) \in Keys
    BY Values DEF BudgetInv
  <2>2. counter[Key(i, day)] <= Bound(i)
        /\ (day > today /\ Limits[i].window = "day" => counter[Key(i, day)] = 0)
    BY DEF BudgetInv, LimitInv
  <2>3. CASE Key(i, day) = Key(i, today)
    <3>1. counter'[Key(i, day)] = k + v
      BY <1>5, <2>3
    <3>2. ~(day > today /\ Limits[i].window = "day")
      BY <1>1, <2>3 DEF Key
    <3> HIDE DEF k, v
    <3> QED
      BY <1>3, <3>1, <3>2
  <2>4. CASE Key(i, day) # Key(i, today)
    <3>1. counter'[Key(i, day)] = counter[Key(i, day)]
      BY <1>4, <2>1, <2>4 DEF BudgetInv, TypeOK
    <3> QED
      BY <2>2, <3>1
  <2> QED
    BY <2>3, <2>4
<1>9. LimitInv(i)' <=>
        /\ \A d \in Owing(i)' : Value(d, i)' <= Limits[i].limit
        /\ HasRoom(counter[Key(i, today)], Owing(i), Want(i), Bound(i))'
        /\ \A day \in 0..LastDay :
             /\ counter'[Key(i, day)] <= Bound(i)
             /\ day > today' /\ Limits[i].window = "day" => counter'[Key(i, day)] = 0
  BY DEF LimitInv, Key, Bound
<1> QED
  BY <1>6, <1>7, <1>8, <1>9

\* Step 2, and its failure before or after the counter is written.
LEMMA AddToLimitKeeps ==
  ASSUME DistinctLimits, BudgetInv, TypeOK', NEW i \in Positions, NEW c \in Callers,
         AddToLimit(c) \/ AddFails(c)
  PROVE  LimitInv(i)'
<1>1. /\ TypeOK /\ pc[c] = "add" /\ at[c] \in Positions /\ today' = today
      /\ Count(c) \/ counter' = counter
      /\ (Leave(c) \/ (~IsLast(c) /\ NextLimit(c)))
  BY DEF AddToLimit, AddFails, BudgetInv, TypeOK
<1>2. \A d \in Callers \ {c} : pc'[d] = pc[d] /\ at'[d] = at[d] /\ amount'[d] = amount[d]
  BY <1>1, LeavingOwesNothing DEF NextLimit, TypeOK
<1>3. c \in Owing(i)' => c \in Owing(i) /\ i # at[c] /\ Value(c, i)' = Value(c, i)
  <2>1. CASE Leave(c)
    BY <1>1, <2>1, LeavingOwesNothing
  <2>2. CASE NextLimit(c)
    <3>1. Value(c, i)' = Value(c, i)
      BY <2>2 DEF NextLimit, Value
    <3> QED
      BY <1>1, <2>2, <3>1 DEF NextLimit, Owing, TypeOK, Positions
  <2> QED
    BY <1>1, <2>1, <2>2
<1>4. CASE i # at[c]
  <2>1. \A day \in 0..LastDay : counter'[Key(i, day)] = counter[Key(i, day)]
    BY <1>1, <1>4, OtherCounters DEF Count
  <2> QED
    BY <1>1, <1>2, <1>3, <2>1, CallerDoesNotJoin
<1>5. CASE i = at[c] /\ counter' # counter
  <2>1. Value(c, i) > 0
    <3>1. Value(c, i) \in Nat /\ Key(i, today) \in Keys /\ counter \in [Keys -> Nat]
      <4>1. Want(i)[c] \in 0..MaxAmount /\ Want(i)[c] = Value(c, i) /\ Key(i, today) \in Keys
        BY <1>1, Values DEF TypeOK
      <4> QED
        BY <1>1, <4>1, BudgetAssumption DEF TypeOK
    <3>2. Value(c, i) # 0
      <4> SUFFICES ASSUME Value(c, i) = 0 PROVE counter' = counter
        BY <1>5
      <4>1. counter[Key(i, today)] + Value(c, i) = counter[Key(i, today)]
        BY <3>1
      <4>2. counter' = [counter EXCEPT ![Key(i, today)] = counter[Key(i, today)]]
        BY <1>1, <1>5, <4>1 DEF Count
      <4> QED
        BY <3>1, <4>2
    <3> QED
      BY <3>1, <3>2
  <2>2. c \in Owing(i)
    BY <1>1, <1>5, <2>1 DEF Owing, Positions
  <2> QED
    BY <1>1, <1>2, <1>3, <1>5, <2>2, AddKeeps
<1>6. CASE counter' = counter
  BY <1>1, <1>2, <1>3, <1>6, CallerDoesNotJoin
<1> QED
  BY <1>4, <1>5, <1>6

\* A counter that is reset leaves more room.
LEMMA ResetKeeps ==
  ASSUME DistinctLimits, BudgetInv, TypeOK', NEW i \in Positions, ResetLimit
  PROVE  LimitInv(i)'
<1>1. /\ TypeOK /\ resetAt \in Positions /\ UNCHANGED <<today, pc, at, amount>>
      /\ counter' = [counter EXCEPT ![Key(resetAt, today)] = 0]
  BY DEF ResetLimit, BudgetInv, TypeOK, Positions
<1>2. /\ Owing(i)' = Owing(i) /\ Want(i)' = Want(i)
      /\ \A d \in Callers : Value(d, i)' = Value(d, i)
  BY <1>1 DEF Owing, Want, Value
<1>3. CASE i # resetAt
  <2>1. \A day \in 0..LastDay : counter'[Key(i, day)] = counter[Key(i, day)]
    BY <1>1, <1>3, OtherCounters
  <2>2. \A d \in Owing(i)' : Value(d, i)' = Value(d, i)
    BY <1>2 DEF Owing
  <2>3. PICK c \in Callers : TRUE
    BY BudgetAssumption
  <2> QED
    BY <1>1, <1>2, <2>1, <2>2, NobodyJoins
<1>4. CASE i = resetAt
  <2> DEFINE k == counter[Key(i, today)]
  <2>1. /\ k \in Nat /\ Bound(i) \in Nat /\ Key(i, today) \in Keys /\ today \in 0..LastDay
        /\ Owing(i) \in SUBSET Callers /\ Want(i) \in [Callers -> 0..MaxAmount]
    BY <1>1, Values DEF TypeOK
  <2>2. counter'[Key(i, today)] = 0
    BY <1>1, <1>4, <2>1 DEF TypeOK
  <2>3. HasRoom(0, Owing(i), Want(i), Bound(i))
    <3>1. HasRoom(k, Owing(i), Want(i), Bound(i))
      BY DEF BudgetInv, LimitInv
    <3> HIDE DEF k
    <3>2. ASSUME NEW d \in Owing(i),
                 k + Want(i)[d] + MaxAmount * (Cardinality(Owing(i)) - 1) <= Bound(i)
          PROVE  0 + Want(i)[d] + MaxAmount * (Cardinality(Owing(i)) - 1) <= Bound(i)
      <4> DEFINE m == MaxAmount * (Cardinality(Owing(i)) - 1)
                 w == Want(i)[d]
      <4>1. w \in Nat /\ m \in Int
        <5>1. w \in 0..MaxAmount
          BY <2>1
        <5>2. Cardinality(Owing(i)) - 1 \in Int
          BY <2>1, Sizes
        <5>3. \A a, b \in Int : a * b \in Int
          OBVIOUS
        <5> QED
          BY <5>1, <5>2, <5>3, BudgetAssumption
      <4>2. k + w + m <= Bound(i)
        BY <3>2
      <4> HIDE DEF m, w
      <4>3. 0 + w + m <= Bound(i)
        BY <2>1, <4>1, <4>2
      <4> QED
        BY <4>3 DEF m, w
    <3> QED
      BY <3>1, <3>2 DEF HasRoom
  <2>4. HasRoom(counter[Key(i, today)], Owing(i), Want(i), Bound(i))'
    BY <1>1, <1>2, <2>2, <2>3 DEF HasRoom, Key, Bound
  <2>5. ASSUME NEW day \in 0..LastDay
        PROVE  /\ counter'[Key(i, day)] <= Bound(i)
               /\ day > today /\ Limits[i].window = "day" => counter'[Key(i, day)] = 0
    <3>1. Key(i, day) \in Keys
      BY <1>1, Values
    <3>2. counter'[Key(i, day)] = 0 \/ counter'[Key(i, day)] = counter[Key(i, day)]
      BY <1>1, <1>4, <3>1 DEF TypeOK
    <3>3. counter[Key(i, day)] <= Bound(i)
          /\ (day > today /\ Limits[i].window = "day" => counter[Key(i, day)] = 0)
      BY DEF BudgetInv, LimitInv
    <3> QED
      BY <2>1, <3>2, <3>3
  <2>6. \A d \in Owing(i)' : Value(d, i)' <= Limits[i].limit
    BY <1>2, <2>1 DEF BudgetInv, LimitInv
  <2> QED
    BY <1>1, <2>4, <2>5, <2>6 DEF LimitInv, Key, Bound
<1> QED
  BY <1>3, <1>4

\* At midnight a day's limit starts from zero: each of the amounts that have
\* passed the check of the day before fits by itself.
LEMMA NewDayKeeps ==
  ASSUME BudgetInv, TypeOK', NEW i \in Positions, NewDay
  PROVE  LimitInv(i)'
<1>1. /\ TypeOK /\ UNCHANGED <<counter, pc, at, amount>> /\ today' = today + 1
      /\ today \in Nat /\ today' \in 0..LastDay
  BY BudgetAssumption DEF NewDay, BudgetInv, TypeOK
<1>2. /\ Owing(i)' = Owing(i) /\ Want(i)' = Want(i)
      /\ \A d \in Callers : Value(d, i)' = Value(d, i)
  BY <1>1 DEF Owing, Want, Value
<1>3. /\ Owing(i) \in SUBSET Callers /\ Want(i) \in [Callers -> 0..MaxAmount]
      /\ Limits[i].limit \in Nat /\ \A c \in Callers : Want(i)[c] = Value(c, i)
      /\ LimitInv(i)
  BY <1>1, Values DEF BudgetInv
<1>4. HasRoom(counter[Key(i, today')], Owing(i), Want(i), Bound(i))
  <2>1. CASE Limits[i].window = "day"
    <3>1. counter[Key(i, today')] = 0
      BY <1>1, <1>3, <2>1 DEF LimitInv
    <3>2. ASSUME NEW c \in Owing(i) PROVE HasRoom(0, Owing(i), Want(i), Bound(i))
      <4>1. Want(i)[c] <= Limits[i].limit /\ Want(i)[c] \in 0..MaxAmount
        BY <1>3 DEF LimitInv
      <4>2. 0 + Want(i)[c] <= Limits[i].limit
        BY <4>1, BudgetAssumption
      <4> QED
        BY <1>3, <4>2, RoomWithin DEF Bound
    <3>3. Owing(i) = {} => HasRoom(0, Owing(i), Want(i), Bound(i))
      BY DEF HasRoom
    <3> QED
      BY <3>1, <3>2, <3>3
  <2>2. CASE Limits[i].window # "day"
    <3>1. Key(i, today') = Key(i, today)
      BY <2>2 DEF Key
    <3> QED
      BY <1>3, <3>1 DEF LimitInv
  <2> QED
    BY <2>1, <2>2
<1>5. HasRoom(counter[Key(i, today)], Owing(i), Want(i), Bound(i))'
  BY <1>1, <1>2, <1>4 DEF HasRoom, Key, Bound
<1>6. ASSUME NEW day \in 0..LastDay
      PROVE  /\ counter'[Key(i, day)] <= Bound(i)
             /\ day > today' /\ Limits[i].window = "day" => counter'[Key(i, day)] = 0
  BY <1>1, <1>3 DEF LimitInv
<1>7. \A d \in Owing(i)' : Value(d, i)' <= Limits[i].limit
  BY <1>2, <1>3 DEF LimitInv
<1> QED
  BY <1>5, <1>6, <1>7 DEF LimitInv, Key, Bound

-----------------------------------------------------------------------------
\* For every limit, whoever owes to it still has room: what makes the bound on
\* the counters inductive.
THEOREM BudgetInvariant == ASSUME DistinctLimits PROVE Spec => []BudgetInv
<1>1. Init => BudgetInv
  <2> SUFFICES ASSUME Init PROVE BudgetInv
    OBVIOUS
  <2>1. TypeOK
    <3>1. Len(Limits) \in Nat \ {0}
      BY BudgetAssumption
    <3>2. Nothing \in [Kinds -> 0..MaxAmount] /\ 1 \in Positions /\ 0 \in 0..LastDay
          /\ 0 \in 0..Len(Limits)
      BY <3>1, BudgetAssumption DEF Nothing, Positions
    <3> QED
      BY <3>2 DEF Init, TypeOK
  <2>2. ASSUME NEW i \in Positions PROVE LimitInv(i)
    <3>1. Owing(i) = {}
      BY DEF Init, Owing
    <3>2. \A day \in 0..LastDay : counter[Key(i, day)] = 0
      BY <2>1, Values DEF Init
    <3>3. Bound(i) \in Nat
      BY <2>1, Values
    <3> QED
      BY <3>1, <3>2, <3>3 DEF LimitInv, HasRoom
  <2> QED
    BY <2>1, <2>2 DEF BudgetInv
<1>2. BudgetInv /\ [Next]_vars => BudgetInv'
  <2> SUFFICES ASSUME BudgetInv, [Next]_vars PROVE BudgetInv'
    OBVIOUS
  <2>1. TypeOK'
    BY TypesAreKept DEF BudgetInv
  <2>2. ASSUME NEW i \in Positions PROVE LimitInv(i)'
    <3>1. ASSUME NEW c \in Callers, CheckAndRecord(c) PROVE LimitInv(i)'
      BY <2>1, <3>1, CheckAndRecordKeeps
    <3>2. ASSUME NEW c \in Callers, CheckLimit(c) PROVE LimitInv(i)'
      BY <2>1, <3>2, CheckLimitKeeps
    <3>3. ASSUME NEW c \in Callers, AddToLimit(c) \/ AddFails(c) PROVE LimitInv(i)'
      BY <2>1, <3>3, AddToLimitKeeps
    <3>4. CASE ResetLimit
      BY <2>1, <3>4, ResetKeeps
    <3>5. CASE NewDay
      BY <2>1, <3>5, NewDayKeeps
    <3>6. CASE StartReset \/ UNCHANGED vars
      <4>1. UNCHANGED <<counter, today, pc, at, amount>>
        BY <3>6 DEF StartReset, vars
      <4>2. /\ Owing(i)' = Owing(i) /\ Want(i)' = Want(i)
            /\ \A d \in Callers : Value(d, i)' = Value(d, i)
        BY <4>1 DEF Owing, Want, Value
      <4>3. Owing(i) \in SUBSET Callers
        BY DEF Owing
      <4> QED
        BY <4>1, <4>2, <4>3 DEF BudgetInv, LimitInv, HasRoom, Key, Bound
    <3> QED
      BY <3>1, <3>2, <3>3, <3>4, <3>5, <3>6 DEF Next
  <2> QED
    BY <2>1, <2>2 DEF BudgetInv, Positions
<1> QED
  BY <1>1, <1>2, PTL DEF Spec

\* No limit is overrun by more than one call of each other caller, whatever the
\* callers interleave: check_and_record neither locks the store nor orders them.
THEOREM OverrunBound == ASSUME DistinctLimits PROVE Spec => []OverrunIsBounded
<1>1. BudgetInv => OverrunIsBounded
  BY DEF BudgetInv, LimitInv, OverrunIsBounded, Bound
<1> QED
  BY <1>1, BudgetInvariant, PTL

-----------------------------------------------------------------------------
(* Sums over a finite set.  What the fold of the library computes is a     *)
(* recursive function; that there is one and what it gives is shown by     *)
(* descent: of the sets on which it fails none is minimal.                 *)

Pick(s) == CHOOSE x \in s : TRUE

\* it sums g over each set of elements of s.
Sums(it, g, s) ==
  it = [u \in SUBSET s |-> IF u = {} THEN 0 ELSE g[Pick(u)] + it[u \ {Pick(u)}]]

\* A collection of subsets of a finite set has one that is minimal.
LEMMA Minimal ==
  ASSUME NEW S, IsFiniteSet(S), NEW T \in SUBSET SUBSET S, T # {}
  PROVE  \E s \in T : \A u \in T : u \subseteq s => u = s
<1> DEFINE R == StrictSubsetOrdering(S)
<1>1. IsWellFoundedOn(R, FiniteSubsetsOf(S))
  BY FS_StrictSubsetOrderingWellFounded
<1>2. T \subseteq FiniteSubsetsOf(S)
  BY FS_Subset DEF FiniteSubsetsOf
<1>3. \A u, s \in SUBSET S : u \subseteq s /\ u # s => <<u, s>> \in R
  BY DEF StrictSubsetOrdering
<1> HIDE DEF R
<1>4. \E s \in T : \A u \in T : ~ (<<u, s>> \in R)
  BY <1>1, <1>2, WFMin
<1> QED
  BY <1>3, <1>4

\* Such a sum is a number, and there is only one.
LEMMA SumsAlike ==
  ASSUME NEW S, IsFiniteSet(S), NEW g \in [S -> Nat],
         NEW s \in SUBSET S, NEW t \in SUBSET S, NEW a, NEW b, Sums(a, g, s), Sums(b, g, t)
  PROVE  \A u \in SUBSET (s \cap t) : a[u] = b[u] /\ a[u] \in Nat
<1> DEFINE T == {u \in SUBSET (s \cap t) : ~ (a[u] = b[u] /\ a[u] \in Nat)}
<1> SUFFICES ASSUME T # {}
             PROVE  FALSE
  OBVIOUS
<1>1. T \in SUBSET SUBSET S
  OBVIOUS
<1>2. PICK u \in T : \A v \in T : v \subseteq u => v = u
  <2> HIDE DEF T
  <2> QED
    BY <1>1, Minimal
<1>3. \A v \in SUBSET (s \cap t) :
         /\ a[v] = IF v = {} THEN 0 ELSE g[Pick(v)] + a[v \ {Pick(v)}]
         /\ b[v] = IF v = {} THEN 0 ELSE g[Pick(v)] + b[v \ {Pick(v)}]
  <2> SUFFICES ASSUME NEW v \in SUBSET (s \cap t)
               PROVE  /\ a[v] = IF v = {} THEN 0 ELSE g[Pick(v)] + a[v \ {Pick(v)}]
                      /\ b[v] = IF v = {} THEN 0 ELSE g[Pick(v)] + b[v \ {Pick(v)}]
    OBVIOUS
  <2>1. v \in SUBSET s /\ v \in SUBSET t
    OBVIOUS
  <2> QED
    BY <2>1 DEF Sums
<1>4. u # {}
  <2>1. {} \in SUBSET (s \cap t)
    OBVIOUS
  <2>2. a[{}] = 0 /\ b[{}] = 0
    BY <1>3, <2>1
  <2> QED
    BY <2>2
<1>5. PICK x \in u : x = Pick(u)
  BY <1>4 DEF Pick
<1>6. a[u \ {x}] = b[u \ {x}] /\ a[u \ {x}] \in Nat
  BY <1>2
<1>7. g[x] \in Nat /\ a[u] = g[x] + a[u \ {x}] /\ b[u] = g[x] + b[u \ {x}]
  BY <1>3, <1>4, <1>5
<1>8. a[u] = b[u] /\ a[u] \in Nat
  BY <1>6, <1>7
<1> QED
  BY <1>8

\* There is one.
LEMMA SumsExist ==
  ASSUME NEW S, IsFiniteSet(S), NEW g \in [S -> Nat]
  PROVE  \E it : Sums(it, g, S)
<1> DEFINE T == {s \in SUBSET S : ~ \E it : Sums(it, g, s)}
<1> SUFFICES ASSUME T # {}
             PROVE  FALSE
  OBVIOUS
<1>1. T \in SUBSET SUBSET S
  OBVIOUS
<1>2. PICK s \in T : \A u \in T : u \subseteq s => u = s
  <2> HIDE DEF T
  <2> QED
    BY <1>1, Minimal
<1> DEFINE Part(u) == CHOOSE it : Sums(it, g, u)
           rest(u) == u \ {Pick(u)}
<1>3. \A u \in SUBSET s : u # s => Sums(Part(u), g, u)
  <2> SUFFICES ASSUME NEW u \in SUBSET s, u # s
               PROVE  Sums(Part(u), g, u)
    OBVIOUS
  <2>1. u \notin T /\ u \in SUBSET S
    BY <1>2
  <2>2. \E it : Sums(it, g, u)
    BY <2>1
  <2> QED
    BY <2>2
<1>4. \A u \in SUBSET s : u # {} => Pick(u) \in u
  BY DEF Pick
<1> HIDE DEF Part
<1> DEFINE all == [u \in SUBSET s |-> IF u = {} THEN 0 ELSE g[Pick(u)] + Part(rest(u))[rest(u)]]
<1>5. ASSUME NEW u \in SUBSET s, u # s
      PROVE  all[u] = Part(u)[u]
  <2>1. CASE u = {}
    BY <1>3, <1>5, <2>1 DEF Sums
  <2>2. CASE u # {}
    <3>1. rest(u) \in SUBSET u /\ rest(u) \in SUBSET s /\ rest(u) # s
      BY <1>5
    <3>2. Sums(Part(u), g, u) /\ Sums(Part(rest(u)), g, rest(u))
      <4> HIDE DEF rest
      <4> QED
        BY <1>3, <1>5, <3>1
    <3>3. Part(u)[u] = g[Pick(u)] + Part(u)[rest(u)]
      BY <2>2, <3>2 DEF Sums
    <3>4. Part(u)[rest(u)] = Part(rest(u))[rest(u)]
      <4>1. u \in SUBSET S /\ rest(u) \in SUBSET S /\ rest(u) \in SUBSET (u \cap rest(u))
        BY <3>1
      <4> HIDE DEF rest
      <4> QED
        BY <3>2, <4>1, SumsAlike
    <3>5. all[u] = g[Pick(u)] + Part(rest(u))[rest(u)]
      BY <2>2
    <3> HIDE DEF all, rest
    <3> QED
      BY <3>3, <3>4, <3>5
  <2> QED
    BY <2>1, <2>2
<1>6. ASSUME NEW u \in SUBSET s, u # {}
      PROVE  all[u] = g[Pick(u)] + all[u \ {Pick(u)}]
  <2>1. rest(u) \in SUBSET s /\ rest(u) # s
    BY <1>4, <1>6
  <2>2. all[rest(u)] = Part(rest(u))[rest(u)]
    <3> HIDE DEF all, rest
    <3> QED
      BY <1>5, <2>1
  <2>3. all[u] = g[Pick(u)] + Part(rest(u))[rest(u)]
    BY <1>6
  <2> HIDE DEF all
  <2> QED
    BY <2>2, <2>3
<1>7. Sums(all, g, s)
  <2>1. all = [u \in SUBSET s |-> all[u]]
    OBVIOUS
  <2>2. all[{}] = 0
    OBVIOUS
  <2> HIDE DEF all
  <2> QED
    BY <1>6, <2>1, <2>2 DEF Sums
<1> QED
  BY <1>7

Sum(g, S) == (CHOOSE it : Sums(it, g, S))[S]

LEMMA SumIs ==
  ASSUME NEW S, IsFiniteSet(S), NEW g \in [S -> Nat], NEW it, Sums(it, g, S)
  PROVE  Sum(g, S) = it[S] /\ Sum(g, S) \in Nat
<1>1. Sums(CHOOSE h : Sums(h, g, S), g, S)
  OBVIOUS
<1> QED
  BY <1>1, SumsAlike DEF Sum

\* The number of one element changes.
LEMMA SumChanges ==
  ASSUME NEW S, IsFiniteSet(S), NEW g \in [S -> Nat], NEW d \in S, NEW v \in Nat,
         NEW h \in [S -> Nat], h[d] = v, \A x \in S \ {d} : h[x] = g[x]
  PROVE  Sum(h, S) + g[d] = Sum(g, S) + v
<1>1. PICK a : Sums(a, g, S)
  BY SumsExist
<1>2. PICK b : Sums(b, h, S)
  BY SumsExist
<1>3. \A u \in SUBSET S : a[u] \in Nat /\ b[u] \in Nat
  <2>1. S \in SUBSET S /\ S \cap S = S
    OBVIOUS
  <2> QED
    BY <1>1, <1>2, <2>1, SumsAlike
<1>4. \A u \in SUBSET S :
         /\ a[u] = IF u = {} THEN 0 ELSE g[Pick(u)] + a[u \ {Pick(u)}]
         /\ b[u] = IF u = {} THEN 0 ELSE h[Pick(u)] + b[u \ {Pick(u)}]
  BY <1>1, <1>2 DEF Sums
<1> DEFINE Right(u) == IF d \in u THEN b[u] + g[d] = a[u] + v ELSE b[u] = a[u]
           T == {u \in SUBSET S : ~ Right(u)}
<1>5. T = {}
  <2> SUFFICES ASSUME T # {}
               PROVE  FALSE
    OBVIOUS
  <2>1. PICK u \in T : \A w \in T : w \subseteq u => w = u
    <3>1. T \in SUBSET SUBSET S
      OBVIOUS
    <3> HIDE DEF T
    <3> QED
      BY <3>1, Minimal
  <2>2. u # {}
    <3>1. {} \in SUBSET S
      OBVIOUS
    <3>2. a[{}] = 0 /\ b[{}] = 0
      BY <1>4, <3>1
    <3> QED
      BY <3>2
  <2>3. PICK x \in u : x = Pick(u)
    BY <2>2 DEF Pick
  <2>4. PICK w : w = u \ {x}
    OBVIOUS
  <2>5. w \in SUBSET S /\ Right(w)
    BY <2>1, <2>4
  <2>6. /\ a[u] = g[x] + a[w] /\ b[u] = h[x] + b[w] /\ a[w] \in Nat /\ b[w] \in Nat
        /\ g[x] \in Nat /\ h[x] \in Nat /\ g[d] \in Nat
    BY <1>3, <1>4, <2>2, <2>3, <2>4, <2>5
  <2>7. CASE x = d
    <3>1. b[w] = a[w] /\ d \in u
      BY <2>3, <2>4, <2>5, <2>7
    <3> QED
      BY <2>6, <2>7, <3>1
  <2>8. CASE x # d
    <3>1. h[x] = g[x] /\ (d \in w <=> d \in u)
      BY <2>3, <2>4, <2>8
    <3>2. Right(u)
      BY <2>5, <2>6, <3>1
    <3> QED
      BY <3>2
  <2> QED
    BY <2>7, <2>8
<1>6. b[S] + g[d] = a[S] + v
  <2>1. S \in SUBSET S
    OBVIOUS
  <2> QED
    BY <1>5, <2>1
<1>7. Sum(g, S) = a[S] /\ Sum(h, S) = b[S]
  BY <1>1, <1>2, SumIs
<1> QED
  BY <1>6, <1>7

LEMMA SumOfNothing ==
  ASSUME NEW S, IsFiniteSet(S), NEW g \in [S -> Nat], \A x \in S : g[x] = 0
  PROVE  Sum(g, S) = 0
<1>1. Sums([u \in SUBSET S |-> 0], g, S)
  <2> DEFINE it == [u \in SUBSET S |-> 0]
  <2>1. \A u \in SUBSET S : it[u] = IF u = {} THEN 0 ELSE g[Pick(u)] + it[u \ {Pick(u)}]
    <3> SUFFICES ASSUME NEW u \in SUBSET S, u # {}
                 PROVE  0 = g[Pick(u)] + it[u \ {Pick(u)}]
      OBVIOUS
    <3>1. PICK x \in u : x = Pick(u)
      BY DEF Pick
    <3>2. g[x] = 0 /\ it[u \ {x}] = 0
      OBVIOUS
    <3> QED
      BY <3>1, <3>2
  <2>2. it = [u \in SUBSET S |-> it[u]]
    OBVIOUS
  <2> HIDE DEF it
  <2>3. Sums(it, g, S)
    BY <2>1, <2>2 DEF Sums
  <2> QED
    BY <2>3 DEF it
<1> QED
  BY <1>1, SumIs

-----------------------------------------------------------------------------
(* Counters that agree.                                                    *)

\* What the callers in step 2 have still to add to limit i.
Owes(i) == [c \in Callers |-> IF pc[c] = "add" /\ at[c] <= i THEN Value(c, i) ELSE 0]
Owed(i) == Sum(Owes(i), Callers)

DayCounters(i) == [day \in 0..LastDay |-> counter[Key(i, day)]]
DaysTotal(i) == Sum(DayCounters(i), 0..LastDay)

\* Limits of a day and in total that count the same kind.
SameKind(i, j) ==
  Limits[i].kind = Limits[j].kind /\ Limits[i].window = "day" /\ Limits[j].window = "total"

Balanced(i, j) == counter[Key(j, 0)] + Owed(j) = DaysTotal(i) + Owed(i)

\* While nothing is lost, a total and what is still owed to it are the sum of its
\* days and what is owed to those.
AgreeInv ==
  /\ resetAt > 0 => lossy
  /\ ~lossy => \A i, j \in Positions : SameKind(i, j) => Balanced(i, j)

LEMMA AgreeTypes ==
  ASSUME TypeOK, NEW i \in Positions
  PROVE  /\ Owes(i) \in [Callers -> Nat] /\ DayCounters(i) \in [0..LastDay -> Nat]
         /\ Owed(i) \in Nat /\ DaysTotal(i) \in Nat
         /\ IsFiniteSet(Callers) /\ IsFiniteSet(0..LastDay)
         /\ \A c \in Callers : Value(c, i) \in Nat
         /\ i \in Nat
<1>1. IsFiniteSet(Callers) /\ IsFiniteSet(0..LastDay)
  BY BudgetAssumption, FS_Interval
<1>2. \A c \in Callers : Value(c, i) \in Nat
  <2>1. \A c \in Callers : Want(i)[c] \in 0..MaxAmount /\ Want(i)[c] = Value(c, i)
    BY Values
  <2> QED
    BY <2>1, BudgetAssumption
<1>3. \A day \in 0..LastDay : counter[Key(i, day)] \in Nat
  BY Values
<1>4. Owes(i) \in [Callers -> Nat] /\ DayCounters(i) \in [0..LastDay -> Nat]
  BY <1>2, <1>3 DEF Owes, DayCounters
<1>5. Owed(i) \in Nat /\ DaysTotal(i) \in Nat
  <2>1. PICK a : Sums(a, Owes(i), Callers)
    BY <1>1, <1>4, SumsExist
  <2>2. PICK b : Sums(b, DayCounters(i), 0..LastDay)
    BY <1>1, <1>4, SumsExist
  <2> QED
    BY <1>1, <1>4, <2>1, <2>2, SumIs DEF Owed, DaysTotal
<1> QED
  BY <1>1, <1>2, <1>4, <1>5 DEF Positions

\* The same after a step.
LEMMA NextTypes ==
  ASSUME NEW i \in Positions
  PROVE  TypeOK' => (/\ Owes(i) \in [Callers -> Nat] /\ DayCounters(i) \in [0..LastDay -> Nat]
                     /\ Owed(i) \in Nat /\ DaysTotal(i) \in Nat)'
<1>1. TypeOK => /\ Owes(i) \in [Callers -> Nat] /\ DayCounters(i) \in [0..LastDay -> Nat]
                /\ Owed(i) \in Nat /\ DaysTotal(i) \in Nat
  BY AgreeTypes
<1> QED
  BY <1>1, PTL

\* The sum the property speaks of.
LEMMA DaysAreSummed ==
  ASSUME TypeOK, NEW i \in Positions
  PROVE  MapThenSumSet(LAMBDA day : counter[Key(i, day)], 0..LastDay) = DaysTotal(i)
<1> DEFINE S == 0..LastDay
           g == DayCounters(i)
           it == CHOOSE it : it = [s \in SUBSET S |->
                   IF s = {} THEN 0
                   ELSE counter[Key(i, CHOOSE x \in s : TRUE)] + it[s \ {CHOOSE x \in s : TRUE}]]
<1>1. MapThenSumSet(LAMBDA day : counter[Key(i, day)], S) = it[S]
  BY DEF MapThenSumSet, MapThenFoldSet
<1>2. IsFiniteSet(S) /\ g \in [S -> Nat]
  BY AgreeTypes
<1>3. PICK h : Sums(h, g, S)
  <2> HIDE DEF S, g
  <2> QED
    BY <1>2, SumsExist
<1>4. \A s \in SUBSET S : s # {} =>
        /\ Pick(s) = CHOOSE x \in s : TRUE
        /\ g[Pick(s)] = counter[Key(i, CHOOSE x \in s : TRUE)]
  BY DEF DayCounters, Pick
<1>5. ASSUME NEW a
      PROVE  Sums(a, g, S) <=>
               a = [s \in SUBSET S |->
                      IF s = {} THEN 0
                      ELSE counter[Key(i, CHOOSE x \in s : TRUE)] + a[s \ {CHOOSE x \in s : TRUE}]]
  <2> DEFINE P(s) == CHOOSE x \in s : TRUE
             F(s) == IF s = {} THEN 0 ELSE g[Pick(s)] + a[s \ {Pick(s)}]
             G(s) == IF s = {} THEN 0 ELSE counter[Key(i, P(s))] + a[s \ {P(s)}]
  <2>1. \A s \in SUBSET S : s # {} => Pick(s) = P(s) /\ g[Pick(s)] = counter[Key(i, P(s))]
    BY <1>4
  <2>2. \A s \in SUBSET S : F(s) = G(s)
    <3> HIDE DEF P, g, S
    <3> QED
      BY <2>1
  <2>3. [s \in SUBSET S |-> F(s)] = [s \in SUBSET S |-> G(s)]
    <3> HIDE DEF F, G, S
    <3> QED
      BY <2>2
  <2>4. Sums(a, g, S) <=> a = [s \in SUBSET S |-> F(s)]
    BY DEF Sums
  <2>5. Sums(a, g, S) <=> a = [s \in SUBSET S |-> G(s)]
    <3> HIDE DEF F, G, g, S
    <3> QED
      BY <2>3, <2>4
  <2> QED
    BY <2>5
<1>6. Sums(it, g, S)
  <2>1. h = [s \in SUBSET S |->
               IF s = {} THEN 0
               ELSE counter[Key(i, CHOOSE x \in s : TRUE)] + h[s \ {CHOOSE x \in s : TRUE}]]
    <3> HIDE DEF S, g
    <3> QED
      BY <1>3, <1>5
  <2>2. it = [s \in SUBSET S |->
                IF s = {} THEN 0
                ELSE counter[Key(i, CHOOSE x \in s : TRUE)] + it[s \ {CHOOSE x \in s : TRUE}]]
    <3> HIDE DEF S
    <3> QED
      BY <2>1
  <2> HIDE DEF S, g, it
  <2> QED
    BY <1>5, <2>2
<1>7. Sum(g, S) = it[S]
  <2> HIDE DEF S, g, it
  <2> QED
    BY <1>2, <1>6, SumIs
<1> QED
  BY <1>1, <1>7 DEF DaysTotal

\* What a caller owes to a limit changes.
LEMMA OwedChanges ==
  ASSUME TypeOK, TypeOK', NEW i \in Positions, NEW c \in Callers,
         \A d \in Callers \ {c} : Owes(i)'[d] = Owes(i)[d]
  PROVE  Owed(i)' + Owes(i)[c] = Owed(i) + Owes(i)'[c]
<1> DEFINE S == Callers
           g == Owes(i)
<1>1. IsFiniteSet(S) /\ g \in [S -> Nat]
  BY AgreeTypes
<1>2. PICK h : h = Owes(i)'
  OBVIOUS
<1>3. h \in [S -> Nat]
  BY <1>2, AgreeTypes, NextTypes
<1>4. h[c] \in Nat /\ \A d \in S \ {c} : h[d] = g[d]
  BY <1>2, <1>3
<1> HIDE DEF g
<1>5. Sum(h, S) + g[c] = Sum(g, S) + h[c]
  BY <1>1, <1>3, <1>4, SumChanges
<1> QED
  BY <1>2, <1>5 DEF Owed, g

\* No counter of a pair of limits changes, nor what is owed to them.
LEMMA NothingMoves ==
  ASSUME AgreeInv, NEW i \in Positions, NEW j \in Positions, SameKind(i, j), ~lossy,
         counter' = counter, Owes(i)' = Owes(i), Owes(j)' = Owes(j)
  PROVE  Balanced(i, j)'
<1>1. Owed(i)' = Owed(i) /\ Owed(j)' = Owed(j)
  BY DEF Owed
<1>2. DayCounters(i)' = DayCounters(i) /\ counter'[Key(j, 0)] = counter[Key(j, 0)]
  BY DEF DayCounters, Key
<1>3. DaysTotal(i)' = DaysTotal(i)
  BY <1>2 DEF DaysTotal
<1>4. Balanced(i, j)
  BY DEF AgreeInv
<1> QED
  BY <1>1, <1>2, <1>3, <1>4 DEF Balanced, Key

\* A caller that has checked every limit owes the same amount to both.
LEMMA StepTwoKeeps ==
  ASSUME TypeOK, TypeOK', AgreeInv, NEW i \in Positions, NEW j \in Positions, SameKind(i, j), ~lossy,
         NEW c \in Callers, pc[c] = "check", BeginStep2(c), counter' = counter
  PROVE  Balanced(i, j)'
<1>1. ASSUME NEW q \in Positions
      PROVE  Owed(q)' = Owed(q) + Value(c, q)
  <2>1. Owes(q)[c] = 0 /\ Owes(q)'[c] = Value(c, q)
    BY DEF Owes, BeginStep2, TypeOK, Value, Positions
  <2>2. \A d \in Callers \ {c} : Owes(q)'[d] = Owes(q)[d]
    BY DEF Owes, BeginStep2, TypeOK, Value
  <2>3. Owed(q)' + Owes(q)[c] = Owed(q) + Owes(q)'[c]
    BY <2>2, OwedChanges
  <2>4. Owed(q)' \in Nat /\ Owed(q) \in Nat /\ Value(c, q) \in Nat
    BY AgreeTypes, NextTypes
  <2> QED
    BY <2>1, <2>3, <2>4
<1>2. Value(c, i) = Value(c, j)
  BY DEF SameKind, Value
<1>3. DayCounters(i)' = DayCounters(i) /\ counter'[Key(j, 0)] = counter[Key(j, 0)]
  BY DEF DayCounters, Key
<1>4. DaysTotal(i)' = DaysTotal(i)
  BY <1>3 DEF DaysTotal
<1>5. Balanced(i, j)
  BY DEF AgreeInv
<1>6. /\ Owed(i) \in Nat /\ Owed(j) \in Nat /\ DaysTotal(i) \in Nat
      /\ Value(c, i) \in Nat /\ counter[Key(j, 0)] \in Nat
  BY AgreeTypes, Values, BudgetAssumption
<1>7. counter[Key(j, 0)] + (Owed(j) + Value(c, j)) = DaysTotal(i) + (Owed(i) + Value(c, i))
  BY <1>2, <1>5, <1>6 DEF Balanced
<1> QED
  BY <1>1, <1>3, <1>4, <1>7 DEF Balanced, Key

\* A caller adds to limit p: what it owed to p is now counted there, and nothing
\* else has changed.
LEMMA AddMoves ==
  ASSUME DistinctLimits, TypeOK, TypeOK', NEW c \in Callers, AddToLimit(c),
         NEW q \in Positions, NEW v, v = (IF at[c] = q THEN Value(c, q) ELSE 0)
  PROVE  /\ v \in Nat /\ Owed(q)' + v = Owed(q)
         /\ Limits[q].window = "day" => DaysTotal(q)' = DaysTotal(q) + v
         /\ Limits[q].window = "total" => counter'[Key(q, 0)] = counter[Key(q, 0)] + v
<1>1. /\ pc[c] = "add" /\ at[c] \in Positions /\ today' = today /\ today \in 0..LastDay
      /\ counter' = [counter EXCEPT ![Key(at[c], today)] = @ + Value(c, at[c])]
      /\ IF IsLast(c) THEN Leave(c) ELSE NextLimit(c)
  BY DEF AddToLimit, Count, TypeOK
<1>2. v \in Nat /\ Value(c, q) \in Nat
  BY AgreeTypes
<1>3. Owes(q)[c] = Owes(q)'[c] + v /\ Owes(q)'[c] \in Nat
  <2>1. CASE IsLast(c)
    <3>1. pc'[c] = "idle" /\ at[c] = Len(Limits)
      BY <1>1, <2>1 DEF Leave, IsLast, TypeOK
    <3>2. Owes(q)'[c] = 0
      BY <3>1 DEF Owes
    <3>3. at[c] <= q <=> at[c] = q
      BY <1>1, <3>1 DEF Positions
    <3> QED
      BY <1>1, <1>2, <3>2, <3>3 DEF Owes
  <2>2. CASE ~IsLast(c)
    <3>1. pc'[c] = "add" /\ at'[c] = at[c] + 1 /\ Value(c, q)' = Value(c, q)
      BY <1>1, <2>2 DEF NextLimit, TypeOK, Value
    <3>2. Owes(q)'[c] = IF at[c] + 1 <= q THEN Value(c, q) ELSE 0
      BY <3>1 DEF Owes
    <3>3. Owes(q)[c] = IF at[c] <= q THEN Value(c, q) ELSE 0
      BY <1>1 DEF Owes
    <3>4. at[c] \in Nat /\ q \in Nat
      BY <1>1 DEF Positions
    <3> QED
      BY <1>2, <3>2, <3>3, <3>4
  <2> QED
    BY <2>1, <2>2
<1>4. Owed(q)' + v = Owed(q)
  <2>1. \A d \in Callers \ {c} : Owes(q)'[d] = Owes(q)[d]
    <3>1. CASE Leave(c)
      <4>1. \A d \in Callers \ {c} : pc'[d] = pc[d] /\ at'[d] = at[d] /\ amount'[d] = amount[d]
        BY <3>1 DEF Leave, TypeOK
      <4> QED
        BY <4>1 DEF Owes, Value
    <3>2. CASE NextLimit(c)
      <4>1. \A d \in Callers \ {c} : pc'[d] = pc[d] /\ at'[d] = at[d] /\ amount'[d] = amount[d]
        BY <3>2 DEF NextLimit, TypeOK
      <4> QED
        BY <4>1 DEF Owes, Value
    <3> QED
      BY <1>1, <3>1, <3>2
  <2>2. Owed(q)' + Owes(q)[c] = Owed(q) + Owes(q)'[c]
    BY <2>1, OwedChanges
  <2>3. Owed(q)' \in Nat /\ Owed(q) \in Nat
    BY AgreeTypes, NextTypes
  <2> QED
    BY <1>2, <1>3, <2>2, <2>3
<1>5. ASSUME Limits[q].window = "total"
      PROVE  counter'[Key(q, 0)] = counter[Key(q, 0)] + v
  <2>1. Key(q, 0) = Key(q, today) /\ Key(q, 0) \in Keys /\ counter[Key(q, 0)] \in Nat
    <3>1. 0 \in 0..LastDay
      BY BudgetAssumption
    <3> QED
      BY <1>5, <3>1, Values DEF Key
  <2>2. CASE at[c] = q
    BY <1>1, <2>1, <2>2 DEF TypeOK
  <2>3. CASE at[c] # q
    <3>1. Key(at[c], today) # Key(q, 0)
      BY <1>1, <2>3, KeysDiffer
    <3> QED
      BY <1>1, <1>2, <2>1, <2>3, <3>1 DEF TypeOK
  <2> QED
    BY <2>2, <2>3
<1>6. ASSUME Limits[q].window = "day"
      PROVE  DaysTotal(q)' = DaysTotal(q) + v
  <2> DEFINE S == 0..LastDay
             g == DayCounters(q)
  <2>1. IsFiniteSet(S) /\ g \in [S -> Nat]
    BY AgreeTypes
  <2>2. PICK h : h = DayCounters(q)'
    OBVIOUS
  <2>3. h \in [S -> Nat]
    BY <2>2, AgreeTypes, NextTypes
  <2>4. \A day \in S : /\ h[day] = counter'[Key(q, day)] /\ g[day] = counter[Key(q, day)]
                       /\ Key(q, day) \in Keys
    BY <2>2, Values DEF DayCounters, Key
  <2>5. h[today] = g[today] + v
    <3>1. CASE at[c] = q
      BY <1>1, <2>4, <3>1 DEF TypeOK
    <3>2. CASE at[c] # q
      <4>1. Key(at[c], today) # Key(q, today)
        BY <1>1, <3>2, KeysDiffer
      <4>2. g[today] \in Nat /\ v = 0
        BY <1>1, <2>1, <3>2
      <4> HIDE DEF g
      <4> QED
        BY <1>1, <2>4, <4>1, <4>2 DEF TypeOK
    <3> QED
      BY <3>1, <3>2
  <2>6. \A day \in S \ {today} : h[day] = g[day]
    <3> SUFFICES ASSUME NEW day \in S \ {today}
                 PROVE  h[day] = g[day]
      OBVIOUS
    <3>1. Key(at[c], today) # Key(q, day)
      <4>1. CASE at[c] = q
        BY <1>6, <4>1 DEF Key
      <4>2. CASE at[c] # q
        BY <1>1, <4>2, KeysDiffer
      <4> QED
        BY <4>1, <4>2
    <3> HIDE DEF g
    <3> QED
      BY <1>1, <2>4, <3>1 DEF TypeOK
  <2>7. today \in S /\ h[today] \in Nat /\ g[today] \in Nat
    BY <1>1, <2>1, <2>3
  <2> HIDE DEF g, S
  <2>8. Sum(h, S) + g[today] = Sum(g, S) + h[today]
    BY <2>1, <2>3, <2>6, <2>7, SumChanges
  <2>9. DaysTotal(q)' = Sum(h, S) /\ DaysTotal(q) = Sum(g, S)
    BY <2>2 DEF DaysTotal, S, g
  <2>10. DaysTotal(q)' \in Nat /\ DaysTotal(q) \in Nat
    BY AgreeTypes, NextTypes
  <2> QED
    BY <1>2, <2>5, <2>7, <2>8, <2>9, <2>10
<1> QED
  BY <1>2, <1>4, <1>5, <1>6

LEMMA AddBalances ==
  ASSUME DistinctLimits, TypeOK, TypeOK', AgreeInv, NEW i \in Positions, NEW j \in Positions,
         SameKind(i, j), ~lossy, NEW c \in Callers, AddToLimit(c)
  PROVE  Balanced(i, j)'
<1>1. PICK v : v = IF at[c] = i THEN Value(c, i) ELSE 0
  OBVIOUS
<1>2. PICK w : w = IF at[c] = j THEN Value(c, j) ELSE 0
  OBVIOUS
<1>3. v \in Nat /\ Owed(i)' + v = Owed(i) /\ DaysTotal(i)' = DaysTotal(i) + v
  BY <1>1, AddMoves DEF SameKind
<1>4. w \in Nat /\ Owed(j)' + w = Owed(j) /\ counter'[Key(j, 0)] = counter[Key(j, 0)] + w
  BY <1>2, AddMoves DEF SameKind
<1>5. Balanced(i, j)
  BY DEF AgreeInv
<1>6. /\ Owed(i)' \in Nat /\ Owed(j)' \in Nat /\ DaysTotal(i) \in Nat /\ counter[Key(j, 0)] \in Nat
  BY AgreeTypes, Values, BudgetAssumption, NextTypes
<1>7. counter'[Key(j, 0)] + Owed(j)' = DaysTotal(i)' + Owed(i)'
  BY <1>3, <1>4, <1>5, <1>6 DEF Balanced
<1> QED
  BY <1>7 DEF Balanced, Key

LEMMA AgreeStep ==
  ASSUME DistinctLimits, TypeOK, TypeOK', AgreeInv, [Next]_vars
  PROVE  AgreeInv'
<1>1. resetAt' > 0 => lossy'
  BY DEF AgreeInv, Next, vars, CheckAndRecord, CheckLimit, AddToLimit, AddFails, StartReset,
         ResetLimit, NewDay, TypeOK
<1>2. ASSUME ~lossy', NEW i \in Positions, NEW j \in Positions, SameKind(i, j)
      PROVE  Balanced(i, j)'
  <2>1. ASSUME NEW c \in Callers, CheckAndRecord(c)
        PROVE  Balanced(i, j)'
    <3>1. \A q \in Positions : Owes(q)' = Owes(q)
      BY <2>1 DEF CheckAndRecord, Owes, TypeOK, Value
    <3> QED
      BY <1>2, <2>1, <3>1, NothingMoves DEF CheckAndRecord
  <2>2. ASSUME NEW c \in Callers, CheckLimit(c)
        PROVE  Balanced(i, j)'
    <3>1. CASE BeginStep2(c)
      BY <1>2, <2>2, <3>1, StepTwoKeeps DEF CheckLimit
    <3>2. CASE Leave(c) \/ NextLimit(c)
      <4>1. \A q \in Positions : Owes(q)' = Owes(q)
        BY <2>2, <3>2 DEF CheckLimit, Leave, NextLimit, Owes, TypeOK, Value
      <4> QED
        BY <1>2, <2>2, <4>1, NothingMoves DEF CheckLimit
    <3> QED
      BY <2>2, <3>1, <3>2 DEF CheckLimit
  <2>3. ASSUME NEW c \in Callers, AddToLimit(c)
        PROVE  Balanced(i, j)'
    BY <1>2, <2>3, AddBalances DEF AddToLimit
  <2>4. ASSUME NEW c \in Callers, AddFails(c)
        PROVE  Balanced(i, j)'
    BY <1>2, <2>4 DEF AddFails
  <2>5. CASE StartReset \/ ResetLimit
    BY <1>2, <2>5 DEF StartReset, ResetLimit, AgreeInv
  <2>6. CASE NewDay \/ UNCHANGED vars
    <3>1. UNCHANGED <<counter, pc, at, amount, lossy>>
      BY <2>6 DEF NewDay, vars
    <3>2. \A q \in Positions : Owes(q)' = Owes(q)
      BY <3>1 DEF Owes, Value
    <3> QED
      BY <1>2, <3>1, <3>2, NothingMoves
  <2> QED
    BY <2>1, <2>2, <2>3, <2>4, <2>5, <2>6 DEF Next
<1> QED
  BY <1>1, <1>2 DEF AgreeInv, SameKind, Positions

LEMMA AgreeInitially == ASSUME Init, TypeOK PROVE AgreeInv
<1>1. resetAt = 0
  BY DEF Init
<1>2. ASSUME NEW q \in Positions
      PROVE  Owed(q) = 0 /\ DaysTotal(q) = 0 /\ counter[Key(q, 0)] = 0
  <2>1. \A c \in Callers : Owes(q)[c] = 0
    BY DEF Init, Owes
  <2>2. \A day \in 0..LastDay : Key(q, day) \in Keys /\ counter[Key(q, day)] = 0
    BY Values DEF Init
  <2>3. \A day \in 0..LastDay : DayCounters(q)[day] = 0
    BY <2>2 DEF DayCounters
  <2>4. Owed(q) = 0
    BY <2>1, AgreeTypes, SumOfNothing DEF Owed
  <2>5. DaysTotal(q) = 0
    BY <2>3, AgreeTypes, SumOfNothing DEF DaysTotal
  <2>6. 0 \in 0..LastDay
    BY BudgetAssumption
  <2> QED
    BY <2>2, <2>4, <2>5, <2>6
<1> QED
  BY <1>1, <1>2 DEF AgreeInv, Balanced

\* The counters of one kind are always one caller's step 2 apart: a total and what
\* is still owed to it are the sum of the days and what is owed to those.
THEOREM AgreeInvariant == ASSUME DistinctLimits PROVE Spec => []AgreeInv
<1>1. Init /\ BudgetInv => AgreeInv
  BY AgreeInitially DEF BudgetInv
<1>2. BudgetInv /\ BudgetInv' /\ AgreeInv /\ [Next]_vars => AgreeInv'
  BY AgreeStep DEF BudgetInv
<1> QED
  BY <1>1, <1>2, BudgetInvariant, PTL DEF Spec

\* Between calls the total of a kind is the sum of its days, for any callers,
\* limits and amounts, refusals and midnight included, as long as no add failed and
\* nothing was reset.
THEOREM CountersStayEqual == ASSUME DistinctLimits PROVE Spec => []CountersAgree
<1>1. BudgetInv /\ AgreeInv => CountersAgree
  <2> SUFFICES ASSUME BudgetInv, AgreeInv, ~lossy, \A c \in Callers : pc[c] # "add",
                      NEW i \in Positions, NEW j \in Positions, SameKind(i, j)
               PROVE  counter[Key(j, 0)]
                        = MapThenSumSet(LAMBDA day : counter[Key(i, day)], 0..LastDay)
    BY DEF CountersAgree, SameKind
  <2>1. Owed(i) = 0 /\ Owed(j) = 0
    <3>1. ASSUME NEW q \in Positions
          PROVE  Owed(q) = 0
      <4>1. \A c \in Callers : Owes(q)[c] = 0
        BY DEF Owes
      <4> QED
        BY <4>1, AgreeTypes, SumOfNothing DEF Owed, BudgetInv
    <3> QED
      BY <3>1
  <2>2. Balanced(i, j)
    BY DEF AgreeInv
  <2>3. counter[Key(j, 0)] \in Nat /\ DaysTotal(i) \in Nat
    BY AgreeTypes, Values, BudgetAssumption DEF BudgetInv
  <2>4. counter[Key(j, 0)] = DaysTotal(i)
    BY <2>1, <2>2, <2>3 DEF Balanced
  <2> QED
    BY <2>4, DaysAreSummed DEF BudgetInv
<1> QED
  BY <1>1, AgreeInvariant, BudgetInvariant, PTL

=============================================================================
