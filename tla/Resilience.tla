----------------------------- MODULE Resilience -----------------------------
(***************************************************************************)
(* resilience.CircuitBreaker shared by concurrent callers, used either     *)
(* with "async with"/protect (every exception is recorded) or through      *)
(* resilient (only exceptions in retry_on are; the call is retried).       *)
(*                                                                         *)
(* failures is counted up to the threshold it is compared with; since is   *)
(* the age of last_failure_time, up to the recovery timeout.  The clock is *)
(* taken not to run backwards.                                             *)
(***************************************************************************)
EXTENDS Naturals, FiniteSets

CONSTANTS
  Callers,
  FailureThreshold,   \* failure_threshold
  RecoveryTimeout,    \* recovery_timeout, in ticks
  HalfOpenMax,        \* half_open_max_requests
  SuccessThreshold,   \* success_threshold
  MaxAttempts,        \* max_attempts of resilient; 1 for "async with"
  MaxUnrecorded       \* bound: exceptions that are not recorded; none happens
                      \* with "async with"

ASSUME ResilienceAssumption ==
  /\ FailureThreshold \in Nat \ {0} /\ RecoveryTimeout \in Nat \ {0}
  /\ HalfOpenMax \in Nat \ {0} /\ SuccessThreshold \in Nat \ {0}
  /\ MaxAttempts \in Nat \ {0} /\ MaxUnrecorded \in Nat

VARIABLES
  state, failures, since,   \* the breaker
  successes, trials,        \* successes_in_half_open, half_open_attempts
  at, tries,                \* of each caller: idle, call (about to ask), flight
  mine,                     \* history: trials of this half-open period in flight
  unrecorded                \* calls the breaker heard nothing of

circuit == <<state, failures, since, successes, trials>>
circuitVars == <<circuit, at, tries, mine, unrecorded>>

CircuitInit ==
  /\ state = "CLOSED" /\ failures = 0 /\ since = RecoveryTimeout
  /\ successes = 0 /\ trials = 0
  /\ at = [c \in Callers |-> "idle"]
  /\ tries = [c \in Callers |-> 1]
  /\ mine = {}
  /\ unrecorded = 0

-----------------------------------------------------------------------------
\* _maybe_transition_to_half_open, the first thing _allow does.
TurnsHalfOpen == state = "OPEN" /\ since >= RecoveryTimeout

Begin(c) ==
  /\ at[c] = "idle"
  /\ at' = [at EXCEPT ![c] = "call"]
  /\ tries' = [tries EXCEPT ![c] = 1]
  /\ UNCHANGED <<circuit, mine, unrecorded>>

HasSlot == state = "HALF_OPEN" /\ trials < HalfOpenMax

\* Mutant: the call that turns the breaker half open is not counted.
FirstTrialUncounted(c) ==
  /\ state' = "HALF_OPEN" /\ trials' = 0 /\ successes' = 0
  /\ mine' = {c}
  /\ UNCHANGED <<failures, since>>

FirstTrial(c) ==
  /\ state' = "HALF_OPEN" /\ trials' = 1 /\ successes' = 0
  /\ mine' = {c}
  /\ UNCHANGED <<failures, since>>

\* _allow lets the call through, as a trial when half open.
Allow(c) ==
  /\ at[c] = "call"
  /\ \/ /\ state = "CLOSED"
        /\ UNCHANGED <<circuit, mine>>
     \/ TurnsHalfOpen /\ FirstTrial(c)
     \/ /\ HasSlot
        /\ trials' = trials + 1
        /\ mine' = mine \cup {c}
        /\ UNCHANGED <<state, failures, since, successes>>
  /\ at' = [at EXCEPT ![c] = "flight"]
  /\ UNCHANGED <<tries, unrecorded>>

\* Mutant: the trial is counted before it is refused.
FailFastCounts(c) ==
  /\ at[c] = "call"
  /\ state # "CLOSED" /\ ~TurnsHalfOpen /\ ~HasSlot
  /\ at' = [at EXCEPT ![c] = "idle"]
  /\ trials' = IF state = "HALF_OPEN" THEN trials + 1 ELSE trials
  /\ UNCHANGED <<state, failures, since, successes, tries, mine, unrecorded>>

\* CircuitOpenError leaves the decorator: it is raised outside its try.
FailFast(c) ==
  /\ at[c] = "call"
  /\ state # "CLOSED" /\ ~TurnsHalfOpen /\ ~HasSlot
  /\ at' = [at EXCEPT ![c] = "idle"]
  /\ UNCHANGED <<circuit, tries, mine, unrecorded>>

\* Mutant: one success too many is asked for.
EnoughSuccessesLate == successes + 1 > SuccessThreshold

EnoughSuccesses == successes + 1 >= SuccessThreshold

OnSuccess(c) ==
  /\ at[c] = "flight"
  /\ at' = [at EXCEPT ![c] = "idle"]
  /\ \/ /\ state = "HALF_OPEN" /\ EnoughSuccesses
        /\ state' = "CLOSED" /\ failures' = 0 /\ successes' = 0 /\ trials' = 0
        /\ mine' = {}
     \/ /\ state = "HALF_OPEN" /\ ~EnoughSuccesses
        /\ successes' = successes + 1
        /\ mine' = mine \ {c}
        /\ UNCHANGED <<state, failures, trials>>
     \/ /\ state = "CLOSED"
        /\ failures' = 0
        /\ UNCHANGED <<state, successes, trials, mine>>
     \/ /\ state = "OPEN"
        /\ UNCHANGED <<state, failures, successes, trials, mine>>
  /\ UNCHANGED <<since, tries, unrecorded>>

FailureOpens == failures + 1 >= FailureThreshold

\* A recorded exception, whatever the state the breaker is in by now; resilient
\* asks again after its backoff while it has attempts left.
OnFailure(c) ==
  LET n == IF failures < FailureThreshold THEN failures + 1 ELSE FailureThreshold IN
  /\ at[c] = "flight"
  /\ failures' = n
  /\ since' = 0
  /\ \/ /\ state = "HALF_OPEN"
        /\ state' = "OPEN" /\ successes' = 0 /\ trials' = 0 /\ mine' = {}
     \/ /\ state = "CLOSED"
        /\ state' = IF FailureOpens THEN "OPEN" ELSE "CLOSED"
        /\ UNCHANGED <<successes, trials, mine>>
     \/ /\ state = "OPEN"
        /\ UNCHANGED <<state, successes, trials, mine>>
  /\ at' = [at EXCEPT ![c] = IF tries[c] < MaxAttempts THEN "call" ELSE "idle"]
  /\ tries' = [tries EXCEPT ![c] = IF @ < MaxAttempts THEN @ + 1 ELSE @]
  /\ UNCHANGED unrecorded

\* resilient: an exception outside retry_on, or a cancellation, passes its
\* handler; the breaker hears nothing of the call.
Unrecorded(c) ==
  /\ at[c] = "flight"
  /\ unrecorded < MaxUnrecorded /\ unrecorded' = unrecorded + 1
  /\ at' = [at EXCEPT ![c] = "idle"]
  /\ mine' = mine \ {c}
  /\ UNCHANGED <<circuit, tries>>

Reset ==
  /\ state' = "CLOSED" /\ failures' = 0 /\ since' = RecoveryTimeout
  /\ successes' = 0 /\ trials' = 0
  /\ mine' = {}
  /\ UNCHANGED <<at, tries, unrecorded>>

TimePasses ==
  /\ since < RecoveryTimeout
  /\ since' = since + 1
  /\ UNCHANGED <<state, failures, successes, trials, at, tries, mine, unrecorded>>

Caller(c) ==
  Begin(c) \/ Allow(c) \/ FailFast(c) \/ OnSuccess(c) \/ OnFailure(c) \/ Unrecorded(c)

CircuitNext == (\E c \in Callers : Caller(c)) \/ Reset \/ TimePasses

CircuitSpec == CircuitInit /\ [][CircuitNext]_circuitVars

\* Time passes, callers keep calling, and every call returns.
FairCircuit ==
  /\ CircuitSpec
  /\ WF_circuitVars(TimePasses)
  /\ \A c \in Callers : WF_circuitVars(Caller(c))

-----------------------------------------------------------------------------
\* Every variable has its type; the trials stay within half_open_max_requests.
CircuitTypeOK ==
  /\ state \in {"CLOSED", "OPEN", "HALF_OPEN"}
  /\ failures \in 0..FailureThreshold /\ since \in 0..RecoveryTimeout
  /\ successes \in 0..SuccessThreshold /\ trials \in 0..HalfOpenMax
  /\ at \in [Callers -> {"idle", "call", "flight"}]
  /\ tries \in [Callers -> 1..MaxAttempts]
  /\ mine \subseteq Callers
  /\ unrecorded \in 0..MaxUnrecorded

\* Calls let through while half open never outnumber the trials allowed, also
\* when calls of the closed period and of earlier trials are still in flight
\* (resilience.py:203-213).
TrialsAreBounded ==
  /\ Cardinality(mine) <= HalfOpenMax
  /\ mine # {} => state = "HALF_OPEN"

\* A half-open slot is held by a trial in flight, was turned into a success, or
\* was lost with a call whose end was not recorded: a slot that leaks is never
\* given back (resilience.py:203-239).
NoSlotLeaks ==
  state = "HALF_OPEN" => trials <= Cardinality(mine) + successes + unrecorded

\* The breaker is closed only while the failures since the last success are
\* below the threshold, whatever late calls report (resilience.py:215-239).
ClosedBelowThreshold == state = "CLOSED" => failures < FailureThreshold

\* "one trial request after cooldown; success -> CLOSED, fail -> OPEN"
\* (resilience.py:149): a half-open breaker does not stay half open for ever.
\* With the defaults, one trial and one success, a single call whose end is not
\* recorded refutes it (resilience.py:299-311).
HalfOpenResolves == (state = "HALF_OPEN") ~> (state # "HALF_OPEN")

\* The successes counted, the trials in flight and the slots that are free are
\* together fewer than the successes that close the breaker.
OutOfTrials ==
  successes + Cardinality(mine) + (HalfOpenMax - trials) < SuccessThreshold

\* Nothing else keeps a breaker half open: it is closed or open again in the end,
\* unless so many trials ended without a record that those left cannot close it,
\* whatever late calls report and however callers are refused in between
\* (resilience.py:203-239, 295-311).
HalfOpenResolvesUnlessLost ==
  (state = "HALF_OPEN") ~> (state # "HALF_OPEN" \/ OutOfTrials)
=============================================================================
