--------------------------- MODULE CircuitBreaker ---------------------------
(***************************************************************************)
(* The gateway's CircuitBreaker as a value: a record and what each method  *)
(* makes of it.  since is the age of _last_failure_time, counted up to the *)
(* recovery timeout; failures is counted up to the threshold, the only     *)
(* number it is compared with.  _success_count is never read.              *)
(***************************************************************************)
EXTENDS Naturals

CONSTANTS
  Threshold,   \* failure_threshold
  Recovery     \* recovery_timeout, in ticks

ASSUME BreakerAssumption == Threshold \in Nat \ {0} /\ Recovery \in Nat \ {0}

BreakerStates == {"closed", "open", "half_open"}
Breakers == [state : BreakerStates, failures : 0..Threshold, since : 0..Recovery]

NewBreaker == [state |-> "closed", failures |-> 0, since |-> Recovery]

\* Reading the state moves an open breaker whose timeout is over.
Read(b) ==
  IF b.state = "open" /\ b.since >= Recovery THEN [b EXCEPT !.state = "half_open"] ELSE b

\* allow_request, asked of a breaker whose state was just read.
Allows(b) == b.state # "open"

\* Mutant: only the success of a half-open breaker clears the count.
RecordSuccessOnce(b) ==
  IF b.state = "half_open" THEN [b EXCEPT !.state = "closed", !.failures = 0] ELSE b

\* record_success looks at the stored state: an open breaker stays open, its
\* count is cleared all the same.
RecordSuccess(b) ==
  [state |-> IF b.state = "half_open" THEN "closed" ELSE b.state,
   failures |-> 0, since |-> b.since]

\* record_failure: a client error (a status below 429) leaves no trace.
RecordFailure(b, clientError) ==
  LET n == IF b.failures < Threshold THEN b.failures + 1 ELSE Threshold
  IN  IF clientError THEN b
      ELSE [state |-> IF n >= Threshold THEN "open" ELSE b.state, failures |-> n, since |-> 0]

Older(b) == [b EXCEPT !.since = IF @ < Recovery THEN @ + 1 ELSE @]
=============================================================================
