---------------------------- MODULE ToolExecutor ----------------------------
(***************************************************************************)
(* ToolExecutor.execute for the concurrent calls of one idempotent tool:   *)
(* the result cache, the attempts with timeout and backoff, the breaker.   *)
(* The calls suspend in policy.enforce, in an attempt and in the backoff;  *)
(* between two suspensions a call runs alone.  time() and monotonic() are  *)
(* one clock.  What a call returns is the time at which it read the world. *)
(***************************************************************************)
EXTENDS Integers, Sequences, SequencesExt

CONSTANTS
  Calls,       \* calls of the tool, each made once
  KeyOf,       \* the key of a call: its parameters
  MaxSize,     \* _IDEM_MAX_SIZE
  Ttl,         \* _IDEM_TTL_SECONDS
  Timeout, Retries,
  Delays,      \* what _backoff_delay may return, 0 among it or not
  Threshold, Window, Cooldown,
  MaxNow       \* bound: the clock

ASSUME ToolAssumption ==
  /\ MaxSize \in Nat \ {0} /\ Ttl \in Nat \ {0} /\ Timeout \in Nat \ {0}
  /\ Retries \in Nat /\ Delays \subseteq Nat
  /\ Threshold \in Nat \ {0} /\ Window \in Nat /\ Cooldown \in Nat \ {0}
  /\ MaxNow \in Nat

VARIABLES
  now,
  cache,       \* _idem, the least recently used entry first
  failures,    \* _cb_failures of the tool
  openUntil,   \* _cb_open_until of the tool, 0 when there is none
  pc,          \* of each call
  since,       \* start of its attempt, or end of its backoff
  attempt,
  answer,      \* the ToolResult of a call that is done
  outcomes     \* history: what the calls that ran came to, in order

vars == <<now, cache, failures, openUntil, pc, since, attempt, answer, outcomes>>

InFlight == {"enforcing", "attempting", "sleeping"}

Entry == [key : {KeyOf[c] : c \in Calls}, seen : Nat, ts : Nat]

\* A content, with when it was given, and history: the calls that were in
\* flight then, and those that had not been made.
Content(seen) ==
  [is |-> "content", seen |-> seen, at |-> now,
   during |-> {c \in Calls : pc[c] \in InFlight}, before |-> {c \in Calls : pc[c] = "idle"}]

Plain(is, at) == [is |-> is, seen |-> 0, at |-> at, during |-> {}, before |-> {}]

NoResult == Plain("none", 0)
Error == Plain("error", 0)

Init ==
  /\ now = 0
  /\ cache = <<>>
  /\ failures = <<>>
  /\ openUntil = 0
  /\ pc = [c \in Calls |-> "idle"]
  /\ since = [c \in Calls |-> 0]
  /\ attempt = [c \in Calls |-> 0]
  /\ answer = [c \in Calls |-> NoResult]
  /\ outcomes = <<>>

-----------------------------------------------------------------------------
Return(c, result) ==
  /\ pc' = [pc EXCEPT ![c] = "done"]
  /\ answer' = [answer EXCEPT ![c] = result]
  /\ since' = [since EXCEPT ![c] = 0]
  /\ attempt' = [attempt EXCEPT ![c] = 0]
  /\ UNCHANGED now

\* Up to the await of policy.enforce.
Execute(c) ==
  /\ pc[c] = "idle"
  /\ pc' = [pc EXCEPT ![c] = "enforcing"]
  /\ UNCHANGED <<now, cache, failures, openUntil, since, attempt, answer, outcomes>>

\* _check_perms, the policy or the registry refuses the call.
Refuse(c) ==
  /\ pc[c] \in {"idle", "enforcing"}
  /\ Return(c, Error)
  /\ UNCHANGED <<cache, failures, openUntil, outcomes>>

\* The cache without the entry of a key.
Without(k) ==
  IF \E i \in DOMAIN cache : cache[i].key = k
  THEN RemoveAt(cache, CHOOSE i \in DOMAIN cache : cache[i].key = k)
  ELSE cache

IsFresh(e) == now - e.ts < Ttl

Has(k) == \E i \in DOMAIN cache : cache[i].key = k /\ IsFresh(cache[i])

\* Mutant: an entry that is used is dated anew.
IdemGetRenews(c) ==
  \E i \in DOMAIN cache :
    /\ cache[i].key = KeyOf[c] /\ IsFresh(cache[i])
    /\ cache' = Append(Without(KeyOf[c]), [cache[i] EXCEPT !.ts = now])
    /\ Return(c, Content(cache[i].seen))

\* _idem_get of an entry that has not expired.
IdemGet(c) ==
  \E i \in DOMAIN cache :
    /\ cache[i].key = KeyOf[c] /\ IsFresh(cache[i])
    /\ cache' = Append(Without(KeyOf[c]), cache[i])
    /\ Return(c, Content(cache[i].seen))

CacheHit(c) ==
  /\ pc[c] = "enforcing"
  /\ IdemGet(c)
  /\ UNCHANGED <<failures, openUntil, outcomes>>

\* An entry that has expired is dropped.
CacheMiss(c) ==
  /\ pc[c] = "enforcing"
  /\ ~Has(KeyOf[c])
  /\ cache' = Without(KeyOf[c])

CircuitOpen(c) ==
  /\ CacheMiss(c)
  /\ now < openUntil
  /\ Return(c, Plain("skip", now))
  /\ UNCHANGED <<failures, openUntil, outcomes>>

StartAttempt(c) ==
  /\ pc' = [pc EXCEPT ![c] = "attempting"]
  /\ since' = [since EXCEPT ![c] = now]

\* The first attempt; a cooldown that is over closes the circuit.
BeginAttempts(c) ==
  /\ CacheMiss(c)
  /\ now >= openUntil
  /\ failures' = IF openUntil # 0 THEN <<>> ELSE failures
  /\ openUntil' = 0
  /\ StartAttempt(c)
  /\ UNCHANGED <<now, attempt, answer, outcomes>>

\* Mutant: what is in the cache stays.
IdemPutFirst(k, seen) ==
  LET all == IF \E i \in DOMAIN cache : cache[i].key = k THEN cache
             ELSE Append(cache, [key |-> k, seen |-> seen, ts |-> now])
  IN  cache' = IF Len(all) > MaxSize THEN Tail(all) ELSE all

IdemPut(k, seen) ==
  LET all == Append(Without(k), [key |-> k, seen |-> seen, ts |-> now])
  IN  cache' = IF Len(all) > MaxSize THEN Tail(all) ELSE all

\* Mutant: a success leaves the failures counted so far.
KeepFailures == UNCHANGED failures

CbRecordSuccess == failures' = <<>>

Succeed(c) ==
  /\ pc[c] = "attempting"
  /\ \E seen \in since[c]..now :
       IdemPut(KeyOf[c], seen) /\ Return(c, Content(seen))
  /\ CbRecordSuccess
  /\ outcomes' = Append(outcomes, [at |-> now, failed |-> FALSE])
  /\ UNCHANGED openUntil

\* A failure drops those before the window.  One that is recorded while the
\* circuit is open prolongs the cooldown.
CbRecordFailure ==
  LET all == Append(failures, now)
  IN  \E first \in DOMAIN all :
        /\ now - all[first] <= Window
        /\ \A i \in 1..(first - 1) : now - all[i] > Window
        /\ failures' = SubSeq(all, first, Len(all))
        /\ openUntil' = IF Len(all) - first + 1 >= Threshold THEN now + Cooldown ELSE openUntil

\* The tool raises, or wait_for times out: a backoff, or the end.
AttemptFails(c) ==
  /\ pc[c] = "attempting"
  /\ attempt[c] < Retries
  /\ attempt' = [attempt EXCEPT ![c] = @ + 1]
  /\ \E delay \in Delays :
       IF delay = 0 THEN StartAttempt(c)
       ELSE /\ pc' = [pc EXCEPT ![c] = "sleeping"]
            /\ since' = [since EXCEPT ![c] = now + delay]
  /\ UNCHANGED <<now, cache, failures, openUntil, answer, outcomes>>

Wake(c) ==
  /\ pc[c] = "sleeping"
  /\ now = since[c]
  /\ StartAttempt(c)
  /\ UNCHANGED <<now, cache, failures, openUntil, attempt, answer, outcomes>>

LastAttemptFails(c) ==
  /\ pc[c] = "attempting"
  /\ attempt[c] = Retries
  /\ CbRecordFailure
  /\ Return(c, Error)
  /\ outcomes' = Append(outcomes, [at |-> now, failed |-> TRUE])
  /\ UNCHANGED cache

\* The task is cancelled: nothing of execute catches that.
Cancel(c) ==
  /\ pc[c] \in InFlight
  /\ Return(c, NoResult)
  /\ UNCHANGED <<cache, failures, openUntil, outcomes>>

\* An attempt ends, and a sleeper wakes, in time.
Tick ==
  /\ now < MaxNow
  /\ \A c \in Calls :
       /\ pc[c] = "attempting" => now < since[c] + Timeout
       /\ pc[c] = "sleeping" => now < since[c]
  /\ now' = now + 1
  /\ UNCHANGED <<cache, failures, openUntil, pc, since, attempt, answer, outcomes>>

Next ==
  \/ \E c \in Calls :
       \/ Execute(c) \/ Refuse(c) \/ CacheHit(c) \/ CircuitOpen(c) \/ BeginAttempts(c)
       \/ Succeed(c) \/ AttemptFails(c) \/ Wake(c) \/ LastAttemptFails(c) \/ Cancel(c)
  \/ Tick

Spec == Init /\ [][Next]_vars

-----------------------------------------------------------------------------
\* Every variable has its type.
TypeOK ==
  /\ now \in 0..MaxNow
  /\ cache \in Seq(Entry)
  /\ failures \in Seq(Nat)
  /\ openUntil \in Nat
  /\ pc \in [Calls -> InFlight \union {"idle", "done"}]
  /\ since \in [Calls -> Nat]
  /\ attempt \in [Calls -> 0..Retries]
  /\ answer \in [Calls -> [is : {"none", "content", "skip", "error"},
                           seen : Nat, at : Nat, during : SUBSET Calls, before : SUBSET Calls]]
  /\ outcomes \in Seq([at : Nat, failed : BOOLEAN])

\* "short-circuit if breaker is open": a call is skipped only when, less than a
\* cooldown ago, there had been Threshold failed calls within the window and no
\* success between them - whatever calls were in flight as the circuit opened
\* and closed, and however old their failures and successes were by then.
SkipsAreEarned ==
  \A c \in Calls : answer[c].is = "skip" =>
    \E last \in Threshold..Len(outcomes) :
      /\ outcomes[last].at <= answer[c].at /\ answer[c].at < outcomes[last].at + Cooldown
      /\ \A i \in (last - Threshold + 1)..last :
           outcomes[i].failed /\ outcomes[last].at - outcomes[i].at <= Window

\* "entries also have TTL to prevent stale results": no answer tells of the world
\* longer ago than the TTL and the timeout of the attempt that read it, however
\* often the entry was used meanwhile.
AnswersAreRecent ==
  \A c \in Calls : answer[c].is = "content" => answer[c].at - answer[c].seen < Ttl + Timeout

\* A call made after another one was answered gets an older result only from
\* a call that was in flight when that answer was given: such a call, as it
\* ends, puts its own over the newer one.
NewerUnlessOverlapped ==
  \A b, c \in Calls :
    /\ answer[b].is = "content" /\ answer[c].is = "content"
    /\ c \in answer[b].before /\ KeyOf[c] = KeyOf[b]
    /\ answer[c].seen < answer[b].seen
    => \E a \in answer[b].during \ {b} :
         answer[a].is = "content" /\ KeyOf[a] = KeyOf[c] /\ answer[a].seen = answer[c].seen

=============================================================================
