--------------------------- MODULE BreakerProofs ----------------------------
(* Theorems about the two circuit breakers: that of the providers behind the
   gateway (Gateway), for any providers, chats and thresholds, and that of the
   resilience decorators (Resilience), for any callers, thresholds and attempts. *)
EXTENDS Gateway, Resilience, FiniteSetTheorems, TLAPS

-----------------------------------------------------------------------------
(* Gateway. *)

\* A breaker counts the failures in a row of the providers that look it up, as far
\* as the threshold, whatever its state: a success clears the count of an open
\* breaker too.
CountInv ==
  /\ breaker \in [Registered -> Breakers]
  /\ inRow \in [Registered -> 0..Threshold]
  /\ \A n \in Registered : breaker[n].failures = inRow[n]

\* What a step may do to a breaker: the count follows the failures in a row, and it
\* opens only when they reach the threshold.
Follows(n) ==
  /\ breaker'[n] \in Breakers
  /\ inRow'[n] = breaker'[n].failures
  /\ breaker[n].state # "open" /\ breaker'[n].state = "open" => breaker'[n].failures = Threshold
-----------------------------------------------------------------------------
(* The breaker as a value.                                                 *)

LEMMA ReadType ==
  ASSUME NEW b \in Breakers
  PROVE  /\ Read(b) \in Breakers
         /\ Read(b).failures = b.failures
         /\ Read(b).state = "open" => b.state = "open"
BY BreakerAssumption DEF Breakers, BreakerStates, Read

LEMMA RecordSuccessType ==
  ASSUME NEW b \in Breakers
  PROVE  /\ RecordSuccess(b) \in Breakers
         /\ RecordSuccess(b).failures = 0
         /\ RecordSuccess(b).state = "open" => b.state = "open"
BY BreakerAssumption DEF Breakers, BreakerStates, RecordSuccess

\* A failure opens the breaker only when the count reaches the threshold.
LEMMA RecordFailureType ==
  ASSUME NEW b \in Breakers, NEW e \in BOOLEAN
  PROVE  /\ RecordFailure(b, e) \in Breakers
         /\ RecordFailure(b, e).failures =
              IF ~e /\ b.failures < Threshold THEN b.failures + 1 ELSE b.failures
         /\ RecordFailure(b, e).state = "open" =>
              b.state = "open" \/ RecordFailure(b, e).failures = Threshold
BY BreakerAssumption DEF Breakers, BreakerStates, RecordFailure

LEMMA OlderType ==
  ASSUME NEW b \in Breakers
  PROVE  /\ Older(b) \in Breakers
         /\ Older(b).failures = b.failures /\ Older(b).state = b.state
BY BreakerAssumption DEF Breakers, BreakerStates, Older
-----------------------------------------------------------------------------
(* Counting.                                                               *)

LEMMA SendFollows ==
  ASSUME CountInv, NEW c \in Calls, Send(c), NEW n \in Registered
  PROVE  Follows(n)
<1>1. breaker'[n] = IF n = Name(c) THEN Read(breaker[n]) ELSE breaker[n]
  BY DEF Send, Guard
<1>2. inRow'[n] = inRow[n] /\ breaker[n] \in Breakers /\ inRow[n] = breaker[n].failures
  BY DEF Send, CountInv
<1>3. QED
  BY <1>1, <1>2, ReadType DEF Follows

LEMMA AnswerFollows ==
  ASSUME CountInv, NEW c \in Calls, Answer(c), NEW n \in Registered
  PROVE  Follows(n)
<1>1. /\ breaker'[n] = IF n = Name(c) THEN RecordSuccess(breaker[n]) ELSE breaker[n]
      /\ inRow'[n] = IF n = Name(c) THEN 0 ELSE inRow[n]
  BY DEF Answer
<1>2. breaker[n] \in Breakers /\ inRow[n] = breaker[n].failures
  BY DEF CountInv
<1>3. QED
  BY <1>1, <1>2, RecordSuccessType DEF Follows

LEMMA FailFollows ==
  ASSUME CountInv, NEW c \in Calls, NEW e \in BOOLEAN, Fail(c, e), NEW n \in Registered
  PROVE  Follows(n)
<1>1. /\ breaker'[n] = IF n = Name(c) THEN RecordFailure(breaker[n], e) ELSE breaker[n]
      /\ inRow'[n] = IF n = Name(c) /\ ~e /\ inRow[n] < Threshold THEN inRow[n] + 1 ELSE inRow[n]
  BY DEF Fail
<1>2. breaker[n] \in Breakers /\ inRow[n] = breaker[n].failures
  BY DEF CountInv
<1>3. CASE n = Name(c)
  <2>1. inRow'[n] = breaker'[n].failures
    BY <1>1, <1>2, <1>3, RecordFailureType
  <2>2. QED
    BY <1>1, <1>2, <1>3, <2>1, RecordFailureType DEF Follows
<1>4. CASE n # Name(c)
  BY <1>1, <1>2, <1>4 DEF Follows
<1>5. QED
  BY <1>3, <1>4

LEMMA TickFollows ==
  ASSUME CountInv, Tick, NEW n \in Registered
  PROVE  Follows(n)
<1>1. breaker'[n] = Older(breaker[n]) /\ inRow'[n] = inRow[n]
  BY DEF Tick
<1>2. breaker[n] \in Breakers /\ inRow[n] = breaker[n].failures
  BY DEF CountInv
<1>3. QED
  BY <1>1, <1>2, OlderType DEF Follows

\* Every step, those that touch no breaker included.
LEMMA StepFollows ==
  ASSUME CountInv, [Next]_vars
  PROVE  /\ \A n \in Registered : Follows(n)
         /\ CountInv'
<1>1. ASSUME UNCHANGED <<breaker, inRow>>, NEW n \in Registered PROVE Follows(n)
  BY <1>1 DEF CountInv, Follows
<1>2. ASSUME NEW c \in Calls, Chat(c) \/ Step(c) \/ Cancel(c), NEW n \in Registered
      PROVE  Follows(n)
  <2>1. CASE Chat(c) \/ Refuse(c) \/ Break(c) \/ Return(c) \/ Cancel(c)
    <3>1. UNCHANGED <<breaker, inRow>>
      BY <2>1 DEF Chat, Refuse, Break, Return, Cancel
    <3>2. QED
      BY <1>1, <3>1
  <2>2. CASE Send(c)
    BY <2>2, SendFollows
  <2>3. CASE Answer(c)
    BY <2>3, AnswerFollows
  <2>4. CASE \E e \in BOOLEAN : Fail(c, e)
    BY <2>4, FailFollows
  <2>5. QED
    BY <1>2, <2>1, <2>2, <2>3, <2>4 DEF Step
<1>3. ASSUME NEW n \in Registered PROVE Follows(n)
  BY <1>1, <1>2, TickFollows DEF Next, vars
<1>4. breaker' = [n \in Registered |-> breaker'[n]] /\ inRow' = [n \in Registered |-> inRow'[n]]
  BY DEF CountInv, Next, vars, Chat, Step, Cancel, Tick, Send, Refuse, Answer, Fail, Break, Return
<1>5. ASSUME NEW n \in Registered
      PROVE  breaker'[n] \in Breakers /\ inRow'[n] \in 0..Threshold
             /\ breaker'[n].failures = inRow'[n]
  BY <1>3 DEF Follows, Breakers
<1>6. CountInv'
  BY <1>4, <1>5 DEF CountInv
<1>7. QED
  BY <1>3, <1>6

\* The count of a breaker is that of the failures in a row (circuit_breaker.py:52-73).
THEOREM CountInvariant == Spec => []CountInv
<1>1. Init => CountInv
  BY BreakerAssumption DEF Init, NewBreaker, CountInv, Breakers, BreakerStates
<1>2. CountInv /\ [Next]_vars => CountInv'
  BY StepFollows
<1>3. QED
  BY <1>1, <1>2, PTL DEF Spec

\* A breaker trips for Threshold failures in a row of the providers that look it
\* up, and for nothing less, for any providers, names and chats
\* (gateway.py:416-430, circuit_breaker.py:4, 52-73).
THEOREM TripsForFailuresInARow == Spec => OpensForFailuresInARow
<1>1. CountInv /\ [Next]_vars =>
        [\A n \in Registered :
           breaker[n].state # "open" /\ breaker'[n].state = "open" => inRow'[n] = Threshold]_vars
  BY StepFollows DEF Follows
<1>2. QED
  BY <1>1, CountInvariant, PTL DEF Spec, OpensForFailuresInARow
-----------------------------------------------------------------------------
(* Giving up.                                                              *)

\* The providers whose turn is before p's in a chat whose primary is pr.
Before(p, pr) == IF p = pr THEN {} ELSE {pr} \cup {q \in Providers : q < p}

\* A chat in progress has been through the providers before its own, and one
\* that awaits an answer has asked its own as well.
ChatInv(c) ==
  /\ pc[c] # "idle" => result[c] # "all_failed" /\ Before(prov[c], Primary[c]) \subseteq asked[c]
  /\ pc[c] = "flight" => prov[c] \in asked[c]
  /\ result[c] = "all_failed" => asked[c] = Providers

AskedInv ==
  /\ pc \in [Calls -> {"idle", "ready", "flight", "response"}]
  /\ prov \in [Calls -> Providers]
  /\ result \in [Calls -> {"none", "ok", "raised", "all_failed"}]
  /\ asked \in [Calls -> SUBSET Providers]
  /\ \A c \in Calls : ChatInv(c)

\* A step of one chat, and what it may come to.
Becomes(c, x, y, r, z) ==
  /\ pc' = [pc EXCEPT ![c] = x]
  /\ prov' = [prov EXCEPT ![c] = y]
  /\ result' = [result EXCEPT ![c] = r]
  /\ asked' = [asked EXCEPT ![c] = z]

Fits(c, x, y, r, z) ==
  /\ x \in {"idle", "ready", "flight", "response"}
  /\ y \in Providers
  /\ r \in {"none", "ok", "raised", "all_failed"}
  /\ z \in SUBSET Providers
  /\ x # "idle" => r # "all_failed" /\ Before(y, Primary[c]) \subseteq z
  /\ x = "flight" => y \in z
  /\ r = "all_failed" => z = Providers

\* It leaves the other chats as they are.
LEMMA OtherChats ==
  ASSUME AskedInv, NEW c \in Calls, NEW x, NEW y, NEW r, NEW z,
         Becomes(c, x, y, r, z), Fits(c, x, y, r, z)
  PROVE  AskedInv'
<1> USE DEF Becomes, Fits
<1>1. /\ pc' \in [Calls -> {"idle", "ready", "flight", "response"}]
      /\ prov' \in [Calls -> Providers]
      /\ result' \in [Calls -> {"none", "ok", "raised", "all_failed"}]
      /\ asked' \in [Calls -> SUBSET Providers]
  BY DEF AskedInv
<1>2. ASSUME NEW d \in Calls PROVE ChatInv(d)'
  <2>1. CASE d = c
    <3>1. pc'[d] = x /\ prov'[d] = y /\ result'[d] = r /\ asked'[d] = z
      BY <2>1 DEF AskedInv
    <3>2. QED
      BY <2>1, <3>1 DEF ChatInv
  <2>2. CASE d # c
    <3>1. /\ pc'[d] = pc[d] /\ prov'[d] = prov[d]
          /\ result'[d] = result[d] /\ asked'[d] = asked[d]
      BY <2>2 DEF AskedInv
    <3>2. QED
      BY <3>1 DEF AskedInv, ChatInv
  <2>3. QED
    BY <2>1, <2>2
<1>3. QED
  BY <1>1, <1>2 DEF AskedInv

\* No provider is left out between the one that failed and the next.
LEMMA NextIsInTurn ==
  ASSUME NEW c \in Calls, NEW z, z \in SUBSET Providers, prov[c] \in Providers,
         Before(prov[c], Primary[c]) \cup {prov[c]} \subseteq z
  PROVE  /\ Rest(c) = {} => z = Providers
         /\ \A p \in Rest(c) :
              (\A q \in Rest(c) : p <= q) => Before(p, Primary[c]) \subseteq z
<1>0. Primary[c] \in Providers /\ Providers \subseteq Nat
  BY GatewayAssumption DEF Providers
<1>1. ASSUME NEW q \in Providers, q \notin Rest(c) PROVE q \in z
  <2>0. q \in Nat /\ prov[c] \in Nat
    BY <1>0
  <2>1. q = Primary[c] \/ (prov[c] # Primary[c] /\ q <= prov[c])
    BY <2>0, <1>1 DEF Rest
  <2>2. CASE q = Primary[c]
    BY <2>2 DEF Before
  <2>3. CASE prov[c] # Primary[c] /\ q <= prov[c]
    <3>1. q = prov[c] \/ q < prov[c]
      BY <2>0, <2>3
    <3>2. QED
      BY <2>3, <3>1 DEF Before
  <2>4. QED
    BY <2>1, <2>2, <2>3
<1>2. ASSUME NEW p \in Rest(c), \A q \in Rest(c) : p <= q
      PROVE  Before(p, Primary[c]) \subseteq z
  <2>1. Primary[c] \in z
    BY <1>0, <1>1 DEF Rest
  <2>2. p \in Providers
    BY DEF Rest
  <2>3. ASSUME NEW q \in Providers, q < p PROVE q \in z
    <3>1. q \notin Rest(c)
      BY <1>0, <1>2, <2>2, <2>3
    <3>2. QED
      BY <1>1, <3>1
  <2>4. QED
    BY <2>1, <2>3 DEF Before
<1>3. Rest(c) = {} => z = Providers
  BY <1>1
<1>4. QED
  BY <1>2, <1>3

LEMMA NextProviderAsks ==
  ASSUME AskedInv, NEW c \in Calls, NEW z, z \in SUBSET Providers,
         pc[c] # "idle", asked' = [asked EXCEPT ![c] = z],
         Before(prov[c], Primary[c]) \cup {prov[c]} \subseteq z,
         NextProvider(c)
  PROVE  AskedInv'
<1>1. prov[c] \in Providers
  BY DEF AskedInv
<1>2. CASE Rest(c) = {} /\ End(c, "all_failed")
  <2>1. z = Providers
    BY <1>1, <1>2, NextIsInTurn
  <2>2. Primary[c] \in Providers
    BY GatewayAssumption DEF Providers
  <2>3. /\ pc' = [pc EXCEPT ![c] = "idle"] /\ result' = [result EXCEPT ![c] = "all_failed"]
        /\ prov' = [prov EXCEPT ![c] = Primary[c]]
    BY <1>2 DEF End
  <2>4. Becomes(c, "idle", Primary[c], "all_failed", z)
    BY <2>3 DEF Becomes
  <2>5. Fits(c, "idle", Primary[c], "all_failed", z)
    BY <2>1, <2>2 DEF Fits
  <2>6. QED
    BY <2>4, <2>5, OtherChats
<1>3. ASSUME NEW p \in Rest(c), \A q \in Rest(c) : p <= q,
             pc' = [pc EXCEPT ![c] = "ready"], prov' = [prov EXCEPT ![c] = p],
             UNCHANGED result
      PROVE  AskedInv'
  <2>1. Before(p, Primary[c]) \subseteq z
    BY <1>1, <1>3, NextIsInTurn
  <2>2. p \in Providers
    BY DEF Rest
  <2>3. /\ result' = [result EXCEPT ![c] = result[c]]
        /\ result[c] # "all_failed"
        /\ result[c] \in {"none", "ok", "raised", "all_failed"}
    BY <1>3 DEF AskedInv, ChatInv
  <2>4. Becomes(c, "ready", p, result[c], z)
    BY <1>3, <2>3 DEF Becomes
  <2>5. Fits(c, "ready", p, result[c], z)
    BY <2>1, <2>2, <2>3 DEF Fits
  <2>6. QED
    BY <2>4, <2>5, OtherChats
<1>4. QED
  BY <1>2, <1>3 DEF NextProvider

LEMMA AfterErrorAsks ==
  ASSUME AskedInv, NEW c \in Calls, NEW z, z \in SUBSET Providers,
         pc[c] # "idle", asked' = [asked EXCEPT ![c] = z],
         Before(prov[c], Primary[c]) \cup {prov[c]} \subseteq z,
         AfterProviderError(c)
  PROVE  AskedInv'
<1>1. CASE pc' = [pc EXCEPT ![c] = "ready"] /\ UNCHANGED <<prov, result>>
  <2>1. /\ result' = [result EXCEPT ![c] = result[c]]
        /\ prov' = [prov EXCEPT ![c] = prov[c]]
        /\ result[c] # "all_failed" /\ prov[c] \in Providers
        /\ result[c] \in {"none", "ok", "raised", "all_failed"}
    BY <1>1 DEF AskedInv, ChatInv
  <2>2. Becomes(c, "ready", prov[c], result[c], z)
    BY <1>1, <2>1 DEF Becomes
  <2>3. Fits(c, "ready", prov[c], result[c], z)
    BY <2>1 DEF Fits
  <2>4. QED
    BY <2>2, <2>3, OtherChats
<1>2. CASE NextProvider(c)
  BY <1>2, NextProviderAsks
<1>3. QED
  BY <1>1, <1>2 DEF AfterProviderError

\* A chat that ends otherwise than by giving up.
LEMMA LeaveAsks ==
  ASSUME AskedInv, NEW c \in Calls, NEW r \in {"ok", "raised"}, Leave(c, r)
  PROVE  AskedInv'
<1>1. Primary[c] \in Providers
  BY GatewayAssumption DEF Providers
<1>2. Becomes(c, "idle", Primary[c], r, {})
  BY DEF Leave, End, Becomes
<1>3. Fits(c, "idle", Primary[c], r, {})
  BY <1>1 DEF Fits
<1>4. QED
  BY <1>2, <1>3, OtherChats

\* What a chat in flight has asked by now, its provider included.
LEMMA FlightAsked ==
  ASSUME AskedInv, NEW c \in Calls, pc[c] = "flight", UNCHANGED asked
  PROVE  /\ asked' = [asked EXCEPT ![c] = asked[c]] /\ asked[c] \in SUBSET Providers
         /\ Before(prov[c], Primary[c]) \cup {prov[c]} \subseteq asked[c]
BY DEF AskedInv, ChatInv

LEMMA AskedStep ==
  ASSUME AskedInv, [Next]_vars
  PROVE  AskedInv'
<1>1. ASSUME NEW c \in Calls, Chat(c) PROVE AskedInv'
  <2>1. Primary[c] \in Providers /\ Before(Primary[c], Primary[c]) = {}
    BY GatewayAssumption DEF Providers, Before
  <2>2. Becomes(c, "ready", Primary[c], "none", {})
    BY <1>1 DEF Chat, Becomes
  <2>3. Fits(c, "ready", Primary[c], "none", {})
    BY <2>1 DEF Fits
  <2>4. QED
    BY <2>2, <2>3, OtherChats
<1>2. ASSUME NEW c \in Calls, Send(c) PROVE AskedInv'
  <2>1. /\ prov' = [prov EXCEPT ![c] = prov[c]] /\ prov[c] \in Providers
        /\ result' = [result EXCEPT ![c] = result[c]] /\ result[c] # "all_failed"
        /\ result[c] \in {"none", "ok", "raised", "all_failed"}
        /\ Before(prov[c], Primary[c]) \subseteq asked[c] /\ asked[c] \in SUBSET Providers
    BY <1>2 DEF Send, AskedInv, ChatInv
  <2> DEFINE z == asked[c] \cup {prov[c]}
  <2>2. z \in SUBSET Providers /\ prov[c] \in z /\ Before(prov[c], Primary[c]) \subseteq z
    BY <2>1
  <2>3. pc' = [pc EXCEPT ![c] = "flight"] /\ asked' = [asked EXCEPT ![c] = z]
    BY <1>2 DEF Send
  <2> HIDE DEF z
  <2>4. Becomes(c, "flight", prov[c], result[c], z)
    BY <2>1, <2>3 DEF Becomes
  <2>5. Fits(c, "flight", prov[c], result[c], z)
    BY <2>1, <2>2 DEF Fits
  <2>6. QED
    BY <2>4, <2>5, OtherChats
<1>3. ASSUME NEW c \in Calls, Refuse(c) PROVE AskedInv'
  <2> DEFINE z == asked[c] \cup {prov[c]}
  <2>1. z \in SUBSET Providers /\ Before(prov[c], Primary[c]) \cup {prov[c]} \subseteq z
    BY <1>3 DEF Refuse, AskedInv, ChatInv
  <2>2. asked' = [asked EXCEPT ![c] = z] /\ pc[c] # "idle" /\ AfterProviderError(c)
    BY <1>3 DEF Refuse
  <2> HIDE DEF z
  <2>3. QED
    BY <2>1, <2>2, AfterErrorAsks
<1>4. ASSUME NEW c \in Calls, Answer(c) PROVE AskedInv'
  <2>1. /\ prov' = [prov EXCEPT ![c] = prov[c]] /\ prov[c] \in Providers
        /\ result' = [result EXCEPT ![c] = result[c]] /\ result[c] # "all_failed"
        /\ result[c] \in {"none", "ok", "raised", "all_failed"}
        /\ asked' = [asked EXCEPT ![c] = asked[c]] /\ asked[c] \in SUBSET Providers
        /\ Before(prov[c], Primary[c]) \subseteq asked[c]
    BY <1>4 DEF Answer, AskedInv, ChatInv
  <2>2. Becomes(c, "response", prov[c], result[c], asked[c])
    BY <1>4, <2>1 DEF Answer, Becomes
  <2>3. Fits(c, "response", prov[c], result[c], asked[c])
    BY <2>1 DEF Fits
  <2>4. QED
    BY <2>2, <2>3, OtherChats
<1>5. ASSUME NEW c \in Calls, NEW e \in BOOLEAN, Fail(c, e) PROVE AskedInv'
  <2>1. pc[c] = "flight" /\ UNCHANGED asked /\ AfterProviderError(c)
    BY <1>5 DEF Fail
  <2>2. QED
    BY <2>1, FlightAsked, AfterErrorAsks
<1>6. ASSUME NEW c \in Calls, Break(c) PROVE AskedInv'
  <2>1. pc[c] = "flight"
    BY <1>6 DEF Break
  <2>2. CASE Leave(c, "raised")
    BY <2>2, LeaveAsks
  <2>3. CASE NextProvider(c) /\ UNCHANGED asked
    BY <2>1, <2>3, FlightAsked, NextProviderAsks
  <2>4. QED
    BY <1>6, <2>2, <2>3 DEF Break
<1>7. ASSUME NEW c \in Calls, Cancel(c) PROVE AskedInv'
  BY <1>7, LeaveAsks DEF Cancel
<1>8. ASSUME NEW c \in Calls, Return(c) PROVE AskedInv'
  BY <1>8, LeaveAsks DEF Return
<1>9. ASSUME UNCHANGED <<pc, prov, result, asked>> PROVE AskedInv'
  BY <1>9 DEF AskedInv, ChatInv
<1>10. QED
  <2>1. CASE Tick
    BY <1>9, <2>1 DEF Tick, where
  <2>2. CASE UNCHANGED vars
    BY <1>9, <2>2 DEF vars, where
  <2>3. QED
    BY <1>1, <1>2, <1>3, <1>4, <1>5, <1>6, <1>7, <1>8, <2>1, <2>2 DEF Next, Step

\* What a chat has asked, at every point of it.
THEOREM AskedInvariant == Spec => []AskedInv
<1>1. Init => AskedInv
  BY GatewayAssumption DEF Init, AskedInv, ChatInv, Providers
<1>2. AskedInv /\ [Next]_vars => AskedInv'
  BY AskedStep
<1>3. QED
  BY <1>1, <1>2, PTL DEF Spec

\* A chat gives up only after every provider was asked or its breaker refused
\* (gateway.py:352-372), whichever of them its model resolves to.
THEOREM GivingUpIsDeserved == Spec => []AllFailedMeansAllAsked
<1>1. AskedInv => AllFailedMeansAllAsked
  BY DEF AskedInv, ChatInv, AllFailedMeansAllAsked
<1>2. QED
  BY <1>1, AskedInvariant, PTL
-----------------------------------------------------------------------------
(* Resilience. *)

\* Which calls are trials: calls in flight, of a half-open breaker only.  A
\* slot taken is accounted for, and a trial has taken a slot.  The two counts
\* differ because the success of a call sent before the breaker opened is
\* counted like that of a trial.
SlotInv ==
  /\ IsFiniteSet(mine)
  /\ \A c \in mine : at[c] = "flight"
  /\ mine # {} => state = "HALF_OPEN"
  /\ state = "HALF_OPEN" =>
       /\ Cardinality(mine) <= trials
       /\ trials <= Cardinality(mine) + successes + unrecorded

BreakerInv == CircuitTypeOK /\ SlotInv /\ ClosedBelowThreshold
-----------------------------------------------------------------------------
\* A trial that ends leaves at most one slot to be accounted for.
LEMMA TrialEnds ==
  ASSUME IsFiniteSet(mine), NEW c
  PROVE  /\ IsFiniteSet(mine \ {c})
         /\ Cardinality(mine \ {c}) \in Nat /\ Cardinality(mine) \in Nat
         /\ Cardinality(mine \ {c}) <= Cardinality(mine)
         /\ Cardinality(mine) <= Cardinality(mine \ {c}) + 1
<1>1. Cardinality(mine) \in Nat
  BY FS_CardinalityType
<1>2. IsFiniteSet(mine \ {c})
      /\ Cardinality(mine \ {c}) = IF c \in mine THEN Cardinality(mine) - 1 ELSE Cardinality(mine)
  BY FS_RemoveElement
<1>3. Cardinality(mine \ {c}) \in Nat
  BY <1>2, FS_CardinalityType
<1>4. QED
  BY <1>1, <1>2, <1>3

\* A call that was not in flight becomes one more trial.
LEMMA TrialBegins ==
  ASSUME IsFiniteSet(mine), NEW c, c \notin mine
  PROVE  /\ IsFiniteSet(mine \cup {c})
         /\ Cardinality(mine) \in Nat
         /\ Cardinality(mine \cup {c}) = Cardinality(mine) + 1
BY FS_AddElement, FS_CardinalityType

\* No trial, one trial.
LEMMA FewTrials ==
  /\ IsFiniteSet({}) /\ Cardinality({}) = 0
  /\ \A c : IsFiniteSet({c}) /\ Cardinality({c}) = 1
BY FS_EmptySet, FS_Singleton
-----------------------------------------------------------------------------
LEMMA InitBreakerInv == CircuitInit => BreakerInv
BY ResilienceAssumption, FewTrials DEF CircuitInit, BreakerInv, CircuitTypeOK, SlotInv, ClosedBelowThreshold

\* Every step keeps the types.
LEMMA NextCircuitTypeOK == CircuitTypeOK /\ [CircuitNext]_circuitVars => CircuitTypeOK'
<1> SUFFICES ASSUME CircuitTypeOK, [CircuitNext]_circuitVars PROVE CircuitTypeOK'
  OBVIOUS
<1> USE ResilienceAssumption DEF CircuitTypeOK
<1>1. ASSUME NEW c \in Callers, Begin(c) PROVE CircuitTypeOK'
  BY <1>1 DEF Begin, circuit
<1>2. ASSUME NEW c \in Callers, Allow(c) PROVE CircuitTypeOK'
  <2>1. CASE state = "CLOSED" /\ UNCHANGED <<circuit, mine>>
    BY <1>2, <2>1 DEF Allow, circuit
  <2>2. CASE TurnsHalfOpen /\ FirstTrial(c)
    BY <1>2, <2>2 DEF Allow, FirstTrial
  <2>3. CASE /\ HasSlot
             /\ trials' = trials + 1
             /\ mine' = mine \cup {c}
             /\ UNCHANGED <<state, failures, since, successes>>
    BY <1>2, <2>3 DEF Allow, HasSlot
  <2>4. QED
    BY <1>2, <2>1, <2>2, <2>3 DEF Allow
<1>3. ASSUME NEW c \in Callers, FailFast(c) PROVE CircuitTypeOK'
  BY <1>3 DEF FailFast, circuit
<1>4. ASSUME NEW c \in Callers, OnSuccess(c) PROVE CircuitTypeOK'
  BY <1>4 DEF OnSuccess, EnoughSuccesses
<1>5. ASSUME NEW c \in Callers, OnFailure(c) PROVE CircuitTypeOK'
  BY <1>5 DEF OnFailure, FailureOpens
<1>6. ASSUME NEW c \in Callers, Unrecorded(c) PROVE CircuitTypeOK'
  BY <1>6 DEF Unrecorded, circuit
<1>7. ASSUME Reset PROVE CircuitTypeOK'
  BY <1>7 DEF Reset
<1>8. ASSUME TimePasses PROVE CircuitTypeOK'
  BY <1>8 DEF TimePasses
<1>9. ASSUME UNCHANGED circuitVars PROVE CircuitTypeOK'
  BY <1>9 DEF circuitVars, circuit
<1>10. QED
  BY <1>1, <1>2, <1>3, <1>4, <1>5, <1>6, <1>7, <1>8, <1>9 DEF CircuitNext, Caller

\* Every step keeps the account of the slots.
LEMMA NextSlotInv == CircuitTypeOK /\ SlotInv /\ [CircuitNext]_circuitVars => SlotInv'
<1> SUFFICES ASSUME CircuitTypeOK, SlotInv, [CircuitNext]_circuitVars PROVE SlotInv'
  OBVIOUS
<1> USE ResilienceAssumption DEF CircuitTypeOK
<1>1. Cardinality(mine) \in Nat
  BY FS_CardinalityType DEF SlotInv
<1>2. ASSUME NEW c \in Callers, Begin(c) PROVE SlotInv'
  BY <1>2 DEF Begin, circuit, SlotInv
<1>3. ASSUME NEW c \in Callers, Allow(c) PROVE SlotInv'
  <2>1. c \notin mine /\ at' = [at EXCEPT ![c] = "flight"] /\ UNCHANGED unrecorded
    BY <1>3 DEF Allow, SlotInv
  <2>2. CASE state = "CLOSED" /\ UNCHANGED <<circuit, mine>>
    BY <2>1, <2>2 DEF circuit, SlotInv
  <2>3. CASE TurnsHalfOpen /\ FirstTrial(c)
    <3>1. IsFiniteSet({c}) /\ Cardinality({c}) = 1
      BY FewTrials
    <3>2. /\ mine' = {c} /\ state' = "HALF_OPEN"
          /\ trials' = 1 /\ successes' = 0 /\ unrecorded' = unrecorded
      BY <2>1, <2>3 DEF FirstTrial
    <3>3. \A d \in mine' : at'[d] = "flight"
      BY <2>1, <3>2
    <3>4. IsFiniteSet(mine') /\ Cardinality(mine') = 1
      BY <3>1, <3>2, Zenon
    <3>5. 1 <= 1 + 0 + unrecorded
      OBVIOUS
    <3>6. 1 <= trials' /\ trials' <= 1 + successes' + unrecorded'
      BY <3>2, <3>5
    <3>7. QED
      BY <3>2, <3>3, <3>4, <3>6 DEF SlotInv
  <2>4. CASE /\ HasSlot
             /\ trials' = trials + 1
             /\ mine' = mine \cup {c}
             /\ UNCHANGED <<state, failures, since, successes>>
    <3>1. IsFiniteSet(mine') /\ Cardinality(mine') = Cardinality(mine) + 1
      BY <2>1, <2>4, TrialBegins DEF SlotInv
    <3>2. QED
      BY <1>1, <2>1, <2>4, <3>1 DEF HasSlot, SlotInv
  <2>5. QED
    BY <1>3, <2>2, <2>3, <2>4 DEF Allow
<1>4. ASSUME NEW c \in Callers, FailFast(c) PROVE SlotInv'
  BY <1>4 DEF FailFast, circuit, SlotInv
<1>5. ASSUME NEW c \in Callers, OnSuccess(c) PROVE SlotInv'
  <2>1. CASE state = "HALF_OPEN" /\ EnoughSuccesses
    BY <1>5, <2>1, FewTrials DEF OnSuccess, SlotInv
  <2>2. CASE state = "HALF_OPEN" /\ ~EnoughSuccesses
    <3>1. /\ mine' = mine \ {c} /\ successes' = successes + 1
          /\ UNCHANGED <<state, trials, unrecorded>>
          /\ at' = [at EXCEPT ![c] = "idle"]
      BY <1>5, <2>2 DEF OnSuccess
    <3>2. /\ IsFiniteSet(mine') /\ Cardinality(mine') \in Nat
          /\ Cardinality(mine') <= Cardinality(mine)
          /\ Cardinality(mine) <= Cardinality(mine') + 1
      BY <3>1, TrialEnds DEF SlotInv
    <3>3. \A d \in mine' : at'[d] = "flight"
      BY <3>1 DEF SlotInv
    <3>4. QED
      BY <1>1, <2>2, <3>1, <3>2, <3>3 DEF SlotInv
  <2>3. CASE state # "HALF_OPEN"
    BY <1>5, <2>3 DEF OnSuccess, SlotInv
  <2>4. QED
    BY <2>1, <2>2, <2>3
<1>6. ASSUME NEW c \in Callers, OnFailure(c) PROVE SlotInv'
  BY <1>6, FewTrials DEF OnFailure, SlotInv
<1>7. ASSUME NEW c \in Callers, Unrecorded(c) PROVE SlotInv'
  <2>1. /\ mine' = mine \ {c} /\ unrecorded' = unrecorded + 1
        /\ UNCHANGED circuit
        /\ at' = [at EXCEPT ![c] = "idle"]
    BY <1>7 DEF Unrecorded
  <2>2. /\ IsFiniteSet(mine') /\ Cardinality(mine') \in Nat
        /\ Cardinality(mine') <= Cardinality(mine)
        /\ Cardinality(mine) <= Cardinality(mine') + 1
    BY <2>1, TrialEnds DEF SlotInv
  <2>3. \A d \in mine' : at'[d] = "flight"
    BY <2>1 DEF SlotInv
  <2>4. QED
    BY <1>1, <2>1, <2>2, <2>3 DEF SlotInv, circuit
<1>8. ASSUME Reset PROVE SlotInv'
  BY <1>8, FewTrials DEF Reset, SlotInv
<1>9. ASSUME TimePasses PROVE SlotInv'
  BY <1>9 DEF TimePasses, SlotInv
<1>10. ASSUME UNCHANGED circuitVars PROVE SlotInv'
  BY <1>10 DEF circuitVars, circuit, SlotInv
<1>11. QED
  BY <1>2, <1>3, <1>4, <1>5, <1>6, <1>7, <1>8, <1>9, <1>10 DEF CircuitNext, Caller

\* Every step keeps the count of a closed breaker below the threshold.
LEMMA NextClosedBelowThreshold ==
  CircuitTypeOK /\ ClosedBelowThreshold /\ [CircuitNext]_circuitVars => ClosedBelowThreshold'
<1> SUFFICES ASSUME CircuitTypeOK, ClosedBelowThreshold, [CircuitNext]_circuitVars PROVE ClosedBelowThreshold'
  OBVIOUS
<1> USE ResilienceAssumption DEF CircuitTypeOK, ClosedBelowThreshold
<1>1. ASSUME NEW c \in Callers, Begin(c) \/ FailFast(c) \/ Unrecorded(c)
      PROVE  ClosedBelowThreshold'
  BY <1>1 DEF Begin, FailFast, Unrecorded, circuit
<1>2. ASSUME NEW c \in Callers, Allow(c) PROVE ClosedBelowThreshold'
  BY <1>2 DEF Allow, FirstTrial, circuit
<1>3. ASSUME NEW c \in Callers, OnSuccess(c) PROVE ClosedBelowThreshold'
  BY <1>3 DEF OnSuccess
<1>4. ASSUME NEW c \in Callers, OnFailure(c) PROVE ClosedBelowThreshold'
  BY <1>4 DEF OnFailure, FailureOpens
<1>5. ASSUME Reset \/ TimePasses PROVE ClosedBelowThreshold'
  BY <1>5 DEF Reset, TimePasses
<1>6. ASSUME UNCHANGED circuitVars PROVE ClosedBelowThreshold'
  BY <1>6 DEF circuitVars, circuit
<1>7. QED
  BY <1>1, <1>2, <1>3, <1>4, <1>5, <1>6 DEF CircuitNext, Caller
-----------------------------------------------------------------------------
\* The account of the slots and the threshold hold at every point, whatever calls
\* are in flight (resilience.py:194-239).
THEOREM BreakerInvariant == CircuitSpec => []BreakerInv
<1>1. BreakerInv /\ [CircuitNext]_circuitVars => BreakerInv'
  BY NextCircuitTypeOK, NextSlotInv, NextClosedBelowThreshold DEF BreakerInv
<1>2. QED
  BY InitBreakerInv, <1>1, PTL DEF CircuitSpec

\* Calls let through while half open never outnumber half_open_max_requests
\* (resilience.py:203-213).
THEOREM TrialsBounded == CircuitSpec => []TrialsAreBounded
<1>1. BreakerInv => TrialsAreBounded
  <2> SUFFICES ASSUME BreakerInv PROVE TrialsAreBounded
    OBVIOUS
  <2>1. Cardinality(mine) \in Nat
    BY FS_CardinalityType DEF BreakerInv, SlotInv
  <2>2. CASE state = "HALF_OPEN"
    BY <2>1, <2>2, ResilienceAssumption DEF BreakerInv, SlotInv, CircuitTypeOK, TrialsAreBounded
  <2>3. CASE state # "HALF_OPEN"
    BY <2>3, FewTrials, ResilienceAssumption DEF BreakerInv, SlotInv, TrialsAreBounded
  <2>4. QED
    BY <2>2, <2>3
<1>2. QED
  BY BreakerInvariant, <1>1, PTL

\* A slot that was taken is held, was turned into a success, or was lost with a
\* call whose end was not recorded (resilience.py:203-239).
THEOREM SlotsAccounted == CircuitSpec => []NoSlotLeaks
<1>1. BreakerInv => NoSlotLeaks
  BY DEF BreakerInv, SlotInv, NoSlotLeaks
<1>2. QED
  BY BreakerInvariant, <1>1, PTL

\* A closed breaker has counted fewer failures than its threshold
\* (resilience.py:215-239).
THEOREM ThresholdOpens == CircuitSpec => []ClosedBelowThreshold
<1>1. BreakerInv => ClosedBelowThreshold
  BY DEF BreakerInv
<1>2. QED
  BY BreakerInvariant, <1>1, PTL
=============================================================================
