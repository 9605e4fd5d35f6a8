------------------------------ MODULE RateLimit ------------------------------
(* The token bucket of one (tenant, key) as RedisRateLimiter keeps it: every
   call runs the Lua script with the time the caller's own clock showed when
   the request left, and acquire repeats that until it is granted or too late.
   A limiter's first calls load the script before.  InMemoryRateLimiter is the
   instance without latency, skew and expiry.
   Time is counted in the unit in which a tenant earns Rate tokens. *)
EXTENDS Integers

CONSTANTS
  Callers,     \* the coroutines that share the bucket
  Limiters,    \* the RedisRateLimiter objects, each in a process of its own
  LimiterOf,   \* which one a caller calls
  SkewOf,      \* how far a caller's clock is ahead of the slowest one
  MaxSkew,
  Rate,        \* rate_per_sec
  Burst,       \* burst
  KeyTtl,      \* EXPIRE key 3600
  Latency,     \* the longest a round trip to Redis takes
  Costs,       \* the costs asked for
  Timeouts,    \* the timeouts acquire is given
  MaxAttempts, \* bound: requests to Redis
  LastTime     \* bound: the clock

ASSUME RateAssumption ==
  /\ LimiterOf \in [Callers -> Limiters]
  /\ MaxSkew \in Nat
  /\ SkewOf \in [Callers -> 0..MaxSkew]
  /\ Rate \in Nat \ {0}
  /\ Burst \in Nat \ {0}
  /\ KeyTtl \in Nat
  /\ Latency \in Nat
  /\ Costs \subseteq Nat
  /\ Timeouts \subseteq Nat \ {0}
  /\ MaxAttempts \in Nat
  /\ LastTime \in Nat

VARIABLES
  now,      \* the slowest clock; a caller reads now + SkewOf
  bucket,   \* the hash at the key, NoBucket before the first call
  sha,      \* does a limiter know the script's SHA
  pc, stamp, cost, deadline, wake,  \* of each caller
  loaded,   \* has its attempt waited for the script
  attempts,
  granted,  \* tokens handed out since the start
  first,    \* the stamp that created the bucket
  rewound,  \* how far the bucket's clock was turned back, in all
  lapses    \* how often the key expired before the rate had earned a burst

caller == <<pc, stamp, cost, deadline, wake, loaded>>
account == <<granted, first, rewound, lapses>>
vars == <<now, bucket, sha, caller, attempts, account>>

NoBucket == [tokens |-> 0, last |-> 0, expires |-> 0]
NoDeadline == 0

Init ==
  /\ now = 1
  /\ bucket = NoBucket
  /\ pc = [c \in Callers |-> "idle"]
  /\ stamp = [c \in Callers |-> 0]
  /\ cost = [c \in Callers |-> 0]
  /\ deadline = [c \in Callers |-> NoDeadline]
  /\ wake = [c \in Callers |-> 0]
  /\ loaded = [c \in Callers |-> FALSE]
  /\ sha = [l \in Limiters |-> FALSE]
  /\ attempts = 0
  /\ granted = 0 /\ first = 0 /\ rewound = 0 /\ lapses = 0

(* The call is over, and with it its locals. *)
End(c) ==
  /\ pc' = [pc EXCEPT ![c] = "idle"]
  /\ stamp' = [stamp EXCEPT ![c] = 0]
  /\ cost' = [cost EXCEPT ![c] = 0]
  /\ deadline' = [deadline EXCEPT ![c] = NoDeadline]
  /\ wake' = [wake EXCEPT ![c] = 0]
  /\ loaded' = [loaded EXCEPT ![c] = FALSE]
  /\ UNCHANGED <<now, bucket, sha, attempts, account>>

(* A request to Redis leaves at the time that the caller's clock shows. *)
Request(c, step) ==
  /\ pc' = [pc EXCEPT ![c] = step]
  /\ stamp' = [stamp EXCEPT ![c] = now + SkewOf[c]]

(* try_acquire sends SHA and time.time(), or loads the script first. *)
Attempt(c) ==
  /\ attempts < MaxAttempts
  /\ attempts' = attempts + 1
  /\ Request(c, IF sha[LimiterOf[c]] THEN "sent" ELSE "loading")
  /\ loaded' = [loaded EXCEPT ![c] = ~sha[LimiterOf[c]]]

(* acquire(cost, timeout); timeout None and timeout 0 both mean no deadline.
   try_acquire is the call whose deadline is now: one attempt decides. *)
Call(c, k, d) ==
  /\ pc[c] = "idle"
  /\ Attempt(c)
  /\ cost' = [cost EXCEPT ![c] = k]
  /\ deadline' = [deadline EXCEPT ![c] = d]
  /\ UNCHANGED <<now, bucket, sha, wake, account>>

Deadlines == {NoDeadline, now} \cup {now + t : t \in Timeouts}

(* _ensure_script is back; others of the process may still be loading. *)
ScriptLoaded(c) ==
  /\ pc[c] = "loading"
  /\ sha' = [sha EXCEPT ![LimiterOf[c]] = TRUE]
  /\ Request(c, "sent")
  /\ UNCHANGED <<now, bucket, cost, deadline, wake, loaded, attempts, account>>

Missing == now >= bucket.expires

Earned(c) == IF stamp[c] > bucket.last THEN Rate * (stamp[c] - bucket.last) ELSE 0

Refilled(c) ==
  IF Missing \/ bucket.tokens + Earned(c) > Burst
    THEN Burst
    ELSE bucket.tokens + Earned(c)

\* Mutant: a refused call leaves last_refill alone but stores the tokens.
StoredIfAllowed(c, tokens) ==
  [tokens |-> tokens,
   last |-> IF Refilled(c) >= cost[c] \/ Missing THEN stamp[c] ELSE bucket.last,
   expires |-> now + KeyTtl]

(* What the script writes back: the caller's time replaces last_refill whether
   the tokens were granted or not, and also when it is the earlier one. *)
Stored(c, tokens) ==
  [tokens |-> tokens, last |-> stamp[c], expires |-> now + KeyTtl]

(* The script, which Redis runs alone. *)
EvalSha(c) ==
  /\ pc[c] = "sent"
  /\ LET allowed == Refilled(c) >= cost[c]
         paid == IF allowed THEN cost[c] ELSE 0
     IN /\ pc' = [pc EXCEPT ![c] = IF allowed THEN "granted" ELSE "refused"]
        /\ bucket' = Stored(c, Refilled(c) - paid)
        /\ granted' = granted + paid
  /\ first' = IF bucket = NoBucket THEN stamp[c] ELSE first
  /\ rewound' = rewound + IF stamp[c] < bucket.last THEN bucket.last - stamp[c] ELSE 0
  /\ lapses' = lapses + IF bucket # NoBucket /\ Missing /\ Earned(c) < Burst THEN 1 ELSE 0
  /\ UNCHANGED <<now, sha, stamp, cost, deadline, wake, loaded, attempts>>

Return(c) ==
  /\ pc[c] = "granted"
  /\ End(c)

TimedOut(c) == deadline[c] # NoDeadline /\ deadline[c] <= now

(* cost / rate, but at least the smallest wait. *)
FullWait(c) == IF cost[c] <= Rate THEN 1 ELSE (cost[c] + Rate - 1) \div Rate

\* Mutant: the wait is not cut to what remains of the timeout.
WakeAfterFullWait(c) == now + FullWait(c)

WakeTime(c) ==
  IF deadline[c] # NoDeadline /\ deadline[c] < now + FullWait(c)
    THEN deadline[c]
    ELSE now + FullWait(c)

Sleep(c) ==
  /\ pc[c] = "refused"
  /\ ~TimedOut(c)
  /\ pc' = [pc EXCEPT ![c] = "asleep"]
  /\ wake' = [wake EXCEPT ![c] = WakeTime(c)]
  /\ UNCHANGED <<now, bucket, sha, stamp, cost, deadline, loaded, attempts, account>>

GiveUp(c) ==
  /\ pc[c] = "refused"
  /\ TimedOut(c)
  /\ End(c)

Retry(c) ==
  /\ pc[c] = "asleep"
  /\ wake[c] <= now
  /\ Attempt(c)
  /\ wake' = [wake EXCEPT ![c] = 0]
  /\ UNCHANGED <<now, bucket, sha, cost, deadline, account>>

(* The caller is cancelled at an await, or Redis raises. *)
Abort(c) ==
  /\ pc[c] # "idle"
  /\ End(c)

(* Time passes while no round trip outlasts Latency and nobody oversleeps. *)
OnTime(c) ==
  CASE pc[c] = "idle" -> TRUE
    [] pc[c] = "asleep" -> now < wake[c]
    [] OTHER -> now < stamp[c] - SkewOf[c] + Latency

Tick ==
  /\ now < LastTime
  /\ \A c \in Callers : OnTime(c)
  /\ now' = now + 1
  /\ UNCHANGED <<bucket, sha, caller, attempts, account>>

Next ==
  \/ Tick
  \/ \E c \in Callers :
       \/ \E k \in Costs, d \in Deadlines : Call(c, k, d)
       \/ ScriptLoaded(c)
       \/ EvalSha(c)
       \/ Return(c)
       \/ Sleep(c)
       \/ GiveUp(c)
       \/ Retry(c)
       \/ Abort(c)

Spec == Init /\ [][Next]_vars

-----------------------------------------------------------------------------

(* However the requests of several processes are delayed and reordered, a
   tenant gets its burst and what its rate earned since the first call, plus
   what was earned twice because a late or slow-clocked request turned the
   bucket's clock back, plus a burst for every time that the key expired before
   the rate had earned one, which takes the life of a key each: never a token
   more. *)
GrantsAreBounded ==
  /\ granted <= Burst * (1 + lapses) + Rate * (now + MaxSkew - first + rewound)
  /\ lapses * KeyTtl < now

(* acquire with a timeout ends within one round trip of its deadline, two if its
   last attempt had to load the script, whoever competes for the tokens and
   however long the full wait would be. *)
EndsInTime ==
  \A c \in Callers :
    pc[c] # "idle" /\ deadline[c] # NoDeadline =>
      now <= deadline[c] + (IF loaded[c] /\ pc[c] # "loading" THEN 2 * Latency ELSE Latency)
=============================================================================
