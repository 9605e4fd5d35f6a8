------------------------------- MODULE Budget -------------------------------
(***************************************************************************)
(* BudgetTracker of one tenant over a RedisBudgetStore: every get and add  *)
(* is an await, and other callers run in between.  (MemoryBudgetStore's    *)
(* lock is free whenever it is asked for, so that check_and_record does    *)
(* not suspend at all: the runs in which callers do not interleave.)       *)
(***************************************************************************)
EXTENDS Naturals, Sequences, FiniteSets, FiniteSetsExt

CONSTANTS
  Callers,     \* tasks of all processes that call check_and_record
  Limits,      \* limits of the tenant: a sequence of [kind, window, limit]
  Kinds,       \* tokens, cost_usd
  Amounts,     \* bound: what a call may ask for, of each kind
  MaxAmount,   \* the largest of these
  LastDay      \* bound: days

BudgetLimit == [kind : Kinds, window : {"day", "total"}, limit : Nat]

ASSUME BudgetAssumption ==
  /\ IsFiniteSet(Callers) /\ Callers # {}
  /\ Limits \in Seq(BudgetLimit)
  /\ Limits # <<>>
  /\ MaxAmount \in Nat /\ LastDay \in Nat
  /\ Amounts \subseteq [Kinds -> 0..MaxAmount]

VARIABLES
  counter,   \* the store
  today,
  pc,        \* of each caller: idle, check (step 1), add (step 2)
  at,        \* its position in the limits
  amount,    \* what it asks for, of each kind; nothing while it is idle
  resetAt,   \* position of reset_tenant in the limits, 0 if it does not run
  lossy      \* history: an add has failed, or counters were reset

vars == <<counter, today, pc, at, amount, resetAt, lossy>>

Positions == 1..Len(Limits)

Keys == Kinds \X {"day", "total"} \X (0..LastDay)

\* window_key of limit i on a day.
Key(i, day) ==
  <<Limits[i].kind, Limits[i].window, IF Limits[i].window = "day" THEN day ELSE 0>>

Value(c, i) == amount[c][Limits[i].kind]

Nothing == [k \in Kinds |-> 0]

Init ==
  /\ counter = [k \in Keys |-> 0]
  /\ today = 0
  /\ pc = [c \in Callers |-> "idle"]
  /\ at = [c \in Callers |-> 1]
  /\ amount = [c \in Callers |-> Nothing]
  /\ resetAt = 0
  /\ lossy = FALSE

-----------------------------------------------------------------------------
CheckAndRecord(c) ==
  /\ pc[c] = "idle"
  /\ \E wanted \in Amounts : amount' = [amount EXCEPT ![c] = wanted]
  /\ pc' = [pc EXCEPT ![c] = "check"]
  /\ at' = [at EXCEPT ![c] = 1]
  /\ UNCHANGED <<counter, today, resetAt, lossy>>

\* check_and_record returns or raises.
Leave(c) ==
  /\ pc' = [pc EXCEPT ![c] = "idle"]
  /\ at' = [at EXCEPT ![c] = 1]
  /\ amount' = [amount EXCEPT ![c] = Nothing]

IsLast(c) == at[c] = Len(Limits)

NextLimit(c) ==
  /\ at' = [at EXCEPT ![c] = @ + 1]
  /\ UNCHANGED <<pc, amount>>

BeginStep2(c) ==
  /\ pc' = [pc EXCEPT ![c] = "add"]
  /\ at' = [at EXCEPT ![c] = 1]
  /\ UNCHANGED amount

\* Mutant: the budget is compared with what was used before the call.
ExceedsLate(c, i) == counter[Key(i, today)] > Limits[i].limit

Exceeds(c, i) == counter[Key(i, today)] + Value(c, i) > Limits[i].limit

\* Mutant: each limit is checked and counted before the next one is looked at.
CheckAndCount(c) ==
  /\ pc[c] = "check"
  /\ IF Value(c, at[c]) > 0 /\ Exceeds(c, at[c])
     THEN Leave(c) /\ UNCHANGED counter
     ELSE /\ IF IsLast(c) THEN Leave(c) ELSE NextLimit(c)
          /\ counter' = [counter EXCEPT ![Key(at[c], today)] = @ + Value(c, at[c])]
  /\ UNCHANGED <<today, resetAt, lossy>>

\* Step 1 for one limit: a limit of which nothing is wanted is passed over.
CheckLimit(c) ==
  /\ pc[c] = "check"
  /\ IF Value(c, at[c]) > 0 /\ Exceeds(c, at[c])
     THEN Leave(c)
     ELSE IF IsLast(c) THEN BeginStep2(c) ELSE NextLimit(c)
  /\ UNCHANGED <<counter, today, resetAt, lossy>>

Count(c) == counter' = [counter EXCEPT ![Key(at[c], today)] = @ + Value(c, at[c])]

\* Step 2 for one limit.  The key is computed anew: the day may have changed.
AddToLimit(c) ==
  /\ pc[c] = "add"
  /\ Count(c)
  /\ IF IsLast(c) THEN Leave(c) ELSE NextLimit(c)
  /\ UNCHANGED <<today, resetAt, lossy>>

\* The store fails, or the caller is killed, before or after INCRBYFLOAT.
AddFails(c) ==
  /\ pc[c] = "add"
  /\ Value(c, at[c]) > 0
  /\ Count(c) \/ counter' = counter
  /\ Leave(c)
  /\ lossy' = TRUE
  /\ UNCHANGED <<today, resetAt>>

\* reset_tenant, one counter after the other.
StartReset ==
  /\ resetAt = 0
  /\ resetAt' = 1
  /\ lossy' = TRUE
  /\ UNCHANGED <<counter, today, pc, at, amount>>

ResetLimit ==
  /\ resetAt > 0
  /\ counter' = [counter EXCEPT ![Key(resetAt, today)] = 0]
  /\ resetAt' = IF resetAt = Len(Limits) THEN 0 ELSE resetAt + 1
  /\ UNCHANGED <<today, pc, at, amount, lossy>>

NewDay ==
  /\ today < LastDay
  /\ today' = today + 1
  /\ UNCHANGED <<counter, pc, at, amount, resetAt, lossy>>

Next ==
  \/ \E c \in Callers :
       CheckAndRecord(c) \/ CheckLimit(c) \/ AddToLimit(c) \/ AddFails(c)
  \/ StartReset \/ ResetLimit \/ NewDay

Spec == Init /\ [][Next]_vars

-----------------------------------------------------------------------------
\* Every counter is a number, and every caller is at one of the limits.
TypeOK ==
  /\ counter \in [Keys -> Nat]
  /\ today \in 0..LastDay
  /\ pc \in [Callers -> {"idle", "check", "add"}]
  /\ at \in [Callers -> Positions]
  /\ amount \in [Callers -> [Kinds -> 0..MaxAmount]]
  /\ resetAt \in 0..Len(Limits)
  /\ lossy \in BOOLEAN

\* No two limits of the tenant count in the same place (add_limit does not
\* look; with two limits of one kind and window every amount counts twice).
DistinctLimits == \A i, j \in Positions : Key(i, 0) = Key(j, 0) => i = j

\* "Atomically check + increment" is not what the code does, but the harm is
\* bounded: whatever the callers interleave, however adds fail, across resets
\* and midnight, a limit is overrun by less than one call of each other caller.
OverrunIsBounded ==
  \A i \in Positions, day \in 0..LastDay :
    counter[Key(i, day)] <= Limits[i].limit + MaxAmount * (Cardinality(Callers) - 1)

\* "pre-check all limits to avoid partial increments": between calls, as long
\* as no add failed and nothing was reset, the counters of one kind agree - a total is the sum of
\* its days, refusals and calls that run into the next day included.
CountersAgree ==
  ~lossy /\ (\A c \in Callers : pc[c] # "add") =>
    \A i, j \in Positions :
      Limits[i].kind = Limits[j].kind /\ Limits[i].window = "day" /\ Limits[j].window = "total"
        => counter[Key(j, 0)] = MapThenSumSet(LAMBDA day : counter[Key(i, day)], 0..LastDay)

=============================================================================
