--------------------------- MODULE RateLimitProofs ---------------------------
(* For every number of callers and limiters, skew, latency, rate, burst and life
   of the key: the tokens handed out are paid by the movement of the bucket's
   clock and by the keys that expired early, and a call with a timeout ends in
   time. *)
EXTENDS RateLimit, TLAPS

Buckets == [tokens : Nat, last : Nat, expires : Nat]

Steps == {"idle", "loading", "sent", "granted", "refused", "asleep"}

(* Every variable has its type; the clock starts after 0, which means none. *)
TypeOK ==
  /\ now \in Nat \ {0}
  /\ bucket \in Buckets
  /\ sha \in [Limiters -> BOOLEAN]
  /\ pc \in [Callers -> Steps]
  /\ stamp \in [Callers -> Nat]
  /\ cost \in [Callers -> Nat]
  /\ deadline \in [Callers -> Nat]
  /\ wake \in [Callers -> Nat]
  /\ loaded \in [Callers -> BOOLEAN]
  /\ attempts \in Nat
  /\ granted \in Nat
  /\ first \in Nat
  /\ rewound \in Nat
  /\ lapses \in Nat

(* Every token in the bucket or handed out is one of the first burst, or of the
   burst of a key that expired early, or was earned by a forward movement of the
   bucket's clock. *)
Paid ==
  IF bucket = NoBucket
    THEN granted = 0 /\ first = 0 /\ rewound = 0 /\ lapses = 0
    ELSE bucket.tokens + granted
           <= Burst * (1 + lapses) + Rate * (bucket.last - first + rewound)

(* The bucket's clock is no further ahead than the callers' clocks were when
   the key's life was last extended. *)
ClockOfBucket ==
  bucket # NoBucket =>
    /\ bucket.last <= bucket.expires - KeyTtl + MaxSkew
    /\ bucket.expires <= now + KeyTtl

(* Every key that expired early lived for KeyTtl before. *)
LapsesTakeTime ==
  bucket # NoBucket => lapses * KeyTtl + KeyTtl < bucket.expires

Busy(c) == pc[c] \in {"loading", "sent", "granted", "refused"}

(* A round trip takes no longer than Latency. *)
Prompt ==
  \A c \in Callers : Busy(c) =>
    stamp[c] - SkewOf[c] <= now /\ now <= stamp[c] - SkewOf[c] + Latency

(* How long after the deadline the request in flight may have left. *)
Grace(c) == IF loaded[c] /\ pc[c] # "loading" THEN Latency ELSE 0

(* No attempt starts, and nobody sleeps, beyond the deadline. *)
InTime ==
  \A c \in Callers :
    /\ Busy(c) /\ deadline[c] # NoDeadline =>
         stamp[c] - SkewOf[c] <= deadline[c] + Grace(c)
    /\ pc[c] = "loading" => loaded[c]
    /\ pc[c] = "asleep" => now <= wake[c]
    /\ pc[c] = "asleep" /\ deadline[c] # NoDeadline => wake[c] <= deadline[c]

RateInv == TypeOK /\ Paid /\ ClockOfBucket /\ LapsesTakeTime /\ Prompt /\ InTime

-----------------------------------------------------------------------------

(* Multiplication by the rate is monotonic and distributes. *)
LEMMA RateGrows ==
  ASSUME NEW a \in Int, NEW b \in Int, a <= b
  PROVE  Rate * a <= Rate * b
BY RateAssumption

LEMMA RateSplits ==
  ASSUME NEW a \in Int, NEW b \in Int
  PROVE  Rate * (a + b) = Rate * a + Rate * b /\ Rate * a \in Int /\ Rate * b \in Int
BY RateAssumption

(* One lapse more is one burst and one life of a key more. *)
LEMMA LapseAdds ==
  ASSUME NEW n \in Nat
  PROVE  /\ Burst * (1 + (n + 1)) = Burst * (1 + n) + Burst
         /\ (n + 1) * KeyTtl = n * KeyTtl + KeyTtl
         /\ Burst * (1 + n) \in Nat /\ n * KeyTtl \in Nat
BY RateAssumption

(* A full wait is a natural number of units. *)
LEMMA WaitIsNat ==
  ASSUME TypeOK, NEW c \in Callers
  PROVE  FullWait(c) \in Nat
<1>1. cost[c] \in Nat /\ cost[c] + Rate - 1 \in Nat /\ Rate \in Nat \ {0}
  BY RateAssumption DEF TypeOK
<1>2. (cost[c] + Rate - 1) \div Rate \in Nat
  <2> DEFINE n == cost[c] + Rate - 1
  <2>1. n \in Nat BY <1>1
  <2> HIDE DEF n
  <2>2. n \div Rate \in Nat BY <2>1, <1>1
  <2> QED BY <2>2 DEF n
<1> QED BY <1>2 DEF FullWait

(* The refilled bucket holds between nothing and a burst. *)
LEMMA RefilledIsNat ==
  ASSUME TypeOK, NEW c \in Callers
  PROVE  Refilled(c) \in Nat /\ Earned(c) \in Nat
<1>1. stamp[c] \in Nat /\ bucket.last \in Nat /\ bucket.tokens \in Nat
  BY DEF TypeOK, Buckets
<1>2. Earned(c) \in Nat
  BY <1>1, RateAssumption DEF Earned
<1> QED BY <1>1, <1>2, RateAssumption DEF Refilled

(* Every step keeps the types. *)
LEMMA TypeStep ==
  ASSUME TypeOK, [Next]_vars
  PROVE  TypeOK'
<1> USE DEF TypeOK
<1>1. CASE Tick BY <1>1 DEF Tick, caller, account
<1>r. ASSUME NEW c \in Callers, NEW step \in Steps, Request(c, step)
      PROVE  stamp' \in [Callers -> Nat] /\ pc' \in [Callers -> Steps]
  <2>1. now + SkewOf[c] \in Nat
    BY RateAssumption
  <2> QED BY <1>r, <2>1 DEF Request
<1>2. ASSUME NEW c \in Callers, Attempt(c)
      PROVE  /\ attempts' \in Nat /\ stamp' \in [Callers -> Nat]
             /\ pc' \in [Callers -> Steps] /\ loaded' \in [Callers -> BOOLEAN]
  <2>1. LimiterOf[c] \in Limiters
    BY RateAssumption
  <2>2. sha[LimiterOf[c]] \in BOOLEAN
    BY <2>1
  <2>3. (IF sha[LimiterOf[c]] THEN "sent" ELSE "loading") \in Steps
    BY DEF Steps
  <2> QED BY <1>2, <1>r, <2>2, <2>3 DEF Attempt
<1>3. ASSUME NEW c \in Callers, NEW k \in Costs, NEW d \in Deadlines, Call(c, k, d)
      PROVE  TypeOK'
  <2>1. d \in Nat /\ k \in Nat
    BY RateAssumption DEF Deadlines, NoDeadline
  <2> QED BY <1>2, <1>3, <2>1 DEF Call, account
<1>l. ASSUME NEW c \in Callers, ScriptLoaded(c) PROVE TypeOK'
  <2>1. stamp' \in [Callers -> Nat] /\ pc' \in [Callers -> Steps]
    BY <1>l, <1>r DEF ScriptLoaded, Steps
  <2> QED BY <1>l, <2>1 DEF ScriptLoaded, account
<1>4. ASSUME NEW c \in Callers, EvalSha(c) PROVE TypeOK'
  <2>1. Refilled(c) \in Nat /\ cost[c] \in Nat /\ stamp[c] \in Nat
    BY RefilledIsNat
  <2>2. bucket' \in Buckets
    BY <1>4, <2>1, RateAssumption DEF EvalSha, Stored, Buckets
  <2>3. granted' \in Nat /\ first' \in Nat /\ rewound' \in Nat /\ lapses' \in Nat
    BY <1>4, <2>1, RateAssumption DEF EvalSha, Buckets
  <2> QED BY <1>4, <2>2, <2>3 DEF EvalSha, Steps
<1>5. ASSUME NEW c \in Callers, End(c) PROVE TypeOK'
  BY <1>5 DEF End, account, Steps, NoDeadline
<1>6. ASSUME NEW c \in Callers, Sleep(c) PROVE TypeOK'
  <2>1. WakeTime(c) \in Nat
    BY WaitIsNat DEF WakeTime
  <2> QED BY <1>6, <2>1 DEF Sleep, account, Steps
<1>7. ASSUME NEW c \in Callers, Retry(c) PROVE TypeOK'
  BY <1>2, <1>7 DEF Retry, account
<1>8. CASE UNCHANGED vars BY <1>8 DEF vars, caller, account
<1> QED BY <1>1, <1>3, <1>l, <1>4, <1>5, <1>6, <1>7, <1>8 DEF Next, Return, GiveUp, Abort

(* The script hands out what is paid for. *)
LEMMA EvalPays ==
  ASSUME RateInv, NEW c \in Callers, EvalSha(c)
  PROVE  Paid'
<1> DEFINE paid == IF Refilled(c) >= cost[c] THEN cost[c] ELSE 0
           t == stamp[c]
           last == bucket.last
           back == IF t < last THEN last - t ELSE 0
           moved == last - first + rewound
           lapse == bucket # NoBucket /\ Missing /\ Earned(c) < Burst
<1>1. /\ t \in Nat /\ last \in Nat /\ bucket.tokens \in Nat /\ granted \in Nat
      /\ first \in Nat /\ rewound \in Nat /\ paid \in Nat /\ cost[c] \in Nat
      /\ now \in Nat \ {0} /\ bucket.expires \in Nat /\ lapses \in Nat
      /\ Burst \in Nat \ {0} /\ Rate \in Nat \ {0} /\ KeyTtl \in Nat
  BY RateAssumption DEF RateInv, TypeOK, Buckets
<1>2. Refilled(c) \in Nat /\ Earned(c) \in Nat
  BY RefilledIsNat DEF RateInv
<1>3. /\ bucket' = [tokens |-> Refilled(c) - paid, last |-> t, expires |-> now + KeyTtl]
      /\ granted' = granted + paid
      /\ first' = IF bucket = NoBucket THEN t ELSE first
      /\ rewound' = rewound + back
      /\ lapses' = lapses + IF lapse THEN 1 ELSE 0
  BY DEF EvalSha, Stored
<1>4. bucket' # NoBucket
  BY <1>1, <1>3 DEF NoBucket
<1>5. SUFFICES bucket'.tokens + granted'
                 <= Burst * (1 + lapses') + Rate * (bucket'.last - first' + rewound')
  BY <1>4 DEF Paid
<1>6. bucket'.tokens + granted' = Refilled(c) + granted /\ bucket'.last = t
  BY <1>1, <1>2, <1>3
<1>7. CASE bucket = NoBucket
  <2>1. granted = 0 /\ rewound = 0 /\ back = 0 /\ first' = t /\ lapses' = 0
    BY <1>1, <1>3, <1>7 DEF RateInv, Paid, NoBucket
  <2>2. Rate * (bucket'.last - first' + rewound') = 0 /\ Burst * (1 + lapses') = Burst
    BY <1>1, <1>3, <1>6, <2>1
  <2>3. Refilled(c) = Burst
    BY <1>1, <1>7 DEF Refilled, Missing, NoBucket
  <2> QED BY <1>1, <1>6, <2>1, <2>2, <2>3
<1>8. CASE bucket # NoBucket
  <2>1. bucket.tokens + granted <= Burst * (1 + lapses) + Rate * moved
    BY <1>8 DEF RateInv, Paid
  <2>2. first' = first /\ moved \in Int /\ back \in Nat /\ t - last + back \in Nat
    BY <1>1, <1>3, <1>8
  <2>3. bucket'.last - first' + rewound' = moved + (t - last + back)
    BY <1>1, <1>3, <1>6, <2>2
  <2>4. Rate * (moved + (t - last + back)) = Rate * moved + Rate * (t - last + back)
        /\ Rate * moved \in Int /\ Rate * (t - last + back) \in Int
    <3> DEFINE m == t - last + back
    <3>1. m \in Int BY <2>2
    <3> HIDE DEF m
    <3>2. Rate * (moved + m) = Rate * moved + Rate * m /\ Rate * moved \in Int /\ Rate * m \in Int
      BY <2>2, <3>1, RateSplits
    <3> QED BY <3>2 DEF m
  <2>5. Earned(c) = Rate * (t - last + back)
    <3>1. CASE t > last
      <4>1. t - last + back = t - last BY <1>1, <3>1
      <4> QED BY <3>1, <4>1 DEF Earned
    <3>2. CASE ~(t > last)
      <4>1. t - last + back = 0 BY <1>1, <3>2
      <4> QED BY <1>1, <3>2, <4>1 DEF Earned
    <3> QED BY <3>1, <3>2
  <2>6. /\ Burst * (1 + (lapses + 1)) = Burst * (1 + lapses) + Burst
        /\ Burst * (1 + lapses) \in Nat
    BY <1>1, LapseAdds
  <2>7. CASE lapse
    <3>1. lapses' = lapses + 1 /\ Refilled(c) = Burst
      BY <1>1, <1>3, <2>7 DEF Refilled
    <3> HIDE DEF moved, back, t, last, paid, lapse
    <3> QED BY <1>1, <1>2, <1>6, <2>1, <2>3, <2>4, <2>5, <2>6, <3>1
  <2>8. CASE ~lapse
    <3>1. lapses' = lapses
      BY <1>1, <1>3, <2>8
    <3>2. Refilled(c) <= bucket.tokens + Earned(c)
      BY <1>1, <1>2, <1>8, <2>8 DEF Refilled
    <3> HIDE DEF moved, back, t, last, paid, lapse
    <3> QED BY <1>1, <1>2, <1>6, <2>1, <2>3, <2>4, <2>5, <2>6, <3>1, <3>2
  <2> QED BY <2>7, <2>8
<1> QED BY <1>7, <1>8

(* Every step keeps the account. *)
LEMMA PaidStep ==
  ASSUME RateInv, [Next]_vars
  PROVE  Paid'
<1>1. CASE UNCHANGED <<bucket, granted, first, rewound, lapses>>
  BY <1>1 DEF RateInv, Paid
<1>2. ASSUME NEW c \in Callers, EvalSha(c) PROVE Paid'
  BY <1>2, EvalPays
<1>3. \/ UNCHANGED <<bucket, granted, first, rewound, lapses>>
      \/ \E c \in Callers : EvalSha(c)
  BY DEF Next, vars, caller, account, Tick, Call, ScriptLoaded, Return, End, Sleep, GiveUp, Retry, Abort
<1> QED BY <1>1, <1>2, <1>3

(* Every step keeps the bucket's clock behind the key's life. *)
LEMMA ClockStep ==
  ASSUME RateInv, [Next]_vars
  PROVE  ClockOfBucket'
<1>1. now \in Nat /\ now' \in Nat /\ now <= now'
  BY TypeStep DEF RateInv, TypeOK, Next, vars, caller, account, Tick, Call,
     ScriptLoaded, EvalSha, Return,
     End, Sleep, GiveUp, Retry, Abort
<1>2. CASE UNCHANGED bucket
  BY <1>1, <1>2, RateAssumption DEF RateInv, TypeOK, Buckets, ClockOfBucket
<1>3. ASSUME NEW c \in Callers, EvalSha(c) PROVE ClockOfBucket'
  <2>1. bucket'.last = stamp[c] /\ bucket'.expires = now + KeyTtl /\ now' = now
    BY <1>3 DEF EvalSha, Stored
  <2>2. stamp[c] - SkewOf[c] <= now
    BY <1>3 DEF RateInv, Prompt, Busy, EvalSha
  <2>3. stamp[c] \in Nat /\ SkewOf[c] \in 0..MaxSkew /\ MaxSkew \in Nat /\ KeyTtl \in Nat
    BY RateAssumption DEF RateInv, TypeOK
  <2> QED BY <1>1, <2>1, <2>2, <2>3 DEF ClockOfBucket
<1>4. UNCHANGED bucket \/ \E c \in Callers : EvalSha(c)
  BY DEF Next, vars, caller, account, Tick, Call, ScriptLoaded, Return, End, Sleep, GiveUp, Retry, Abort
<1> QED BY <1>2, <1>3, <1>4

(* Every step keeps the count of lapses behind the clock. *)
LEMMA LapseStep ==
  ASSUME RateInv, [Next]_vars
  PROVE  LapsesTakeTime'
<1>1. ASSUME NEW c \in Callers, EvalSha(c) PROVE LapsesTakeTime'
  <2>1. /\ now \in Nat \ {0} /\ KeyTtl \in Nat /\ lapses \in Nat /\ bucket.expires \in Nat
    BY RateAssumption DEF RateInv, TypeOK, Buckets
  <2>2. bucket'.expires = now + KeyTtl
    BY <1>1 DEF EvalSha, Stored
  <2>3. CASE bucket = NoBucket
    <3>1. lapses' = 0
      BY <1>1, <2>1, <2>3 DEF EvalSha, RateInv, Paid
    <3>2. lapses' * KeyTtl = 0
      BY <2>1, <3>1
    <3> QED BY <2>1, <2>2, <3>2 DEF LapsesTakeTime
  <2>4. CASE bucket # NoBucket
    <3>1. /\ lapses * KeyTtl + KeyTtl < bucket.expires
          /\ bucket.expires <= now + KeyTtl
      BY <2>4 DEF RateInv, LapsesTakeTime, ClockOfBucket
    <3>2. (lapses + 1) * KeyTtl = lapses * KeyTtl + KeyTtl /\ lapses * KeyTtl \in Nat
      BY <2>1, LapseAdds
    <3>3. CASE lapses' = lapses
      BY <2>1, <2>2, <3>1, <3>2, <3>3 DEF LapsesTakeTime
    <3>4. CASE lapses' = lapses + 1 /\ bucket.expires <= now
      BY <2>1, <2>2, <3>1, <3>2, <3>4 DEF LapsesTakeTime
    <3>5. lapses' = lapses \/ (lapses' = lapses + 1 /\ bucket.expires <= now)
      BY <1>1, <2>1 DEF EvalSha, Missing
    <3> QED BY <3>3, <3>4, <3>5
  <2> QED BY <2>3, <2>4
<1>2. CASE UNCHANGED <<bucket, lapses>>
  BY <1>2 DEF RateInv, LapsesTakeTime
<1>3. UNCHANGED <<bucket, lapses>> \/ \E c \in Callers : EvalSha(c)
  BY DEF Next, vars, caller, account, Tick, Call, ScriptLoaded, Return, End, Sleep, GiveUp, Retry,
     Abort
<1> QED BY <1>1, <1>2, <1>3

(* Every step keeps round trips prompt. *)
LEMMA PromptStep ==
  ASSUME RateInv, [Next]_vars
  PROVE  Prompt'
<1> USE DEF RateInv, TypeOK, Prompt, Busy
<1>0. \A c \in Callers : SkewOf[c] \in Nat /\ Latency \in Nat
  BY RateAssumption
<1>1. CASE Tick
  <2> SUFFICES ASSUME NEW c \in Callers, Busy(c)
               PROVE  stamp[c] - SkewOf[c] <= now' /\ now' <= stamp[c] - SkewOf[c] + Latency
    BY <1>1 DEF Tick, caller
  <2>1. now < stamp[c] - SkewOf[c] + Latency /\ now' = now + 1
    BY <1>1 DEF Tick, OnTime
  <2> QED BY <1>0, <2>1
<1>2. ASSUME NEW c \in Callers, NEW step, Request(c, step), now' = now PROVE Prompt'
  <2> SUFFICES ASSUME NEW x \in Callers, Busy(x)'
               PROVE  stamp'[x] - SkewOf[x] <= now /\ now <= stamp'[x] - SkewOf[x] + Latency
    BY <1>2
  <2>1. CASE x = c
    <3>1. stamp'[x] = now + SkewOf[x] BY <1>2, <2>1 DEF Request
    <3> QED BY <1>0, <3>1
  <2>2. CASE x # c
    BY <1>2, <2>2 DEF Request
  <2> QED BY <2>1, <2>2
<1>3. ASSUME NEW c \in Callers, EvalSha(c) PROVE Prompt'
  BY <1>3 DEF EvalSha
<1>4. ASSUME NEW c \in Callers, End(c) PROVE Prompt'
  BY <1>4 DEF End
<1>5. ASSUME NEW c \in Callers, Sleep(c) PROVE Prompt'
  BY <1>5 DEF Sleep
<1>6. CASE UNCHANGED vars
  BY <1>6 DEF vars, caller
<1> QED
  BY <1>1, <1>2, <1>3, <1>4, <1>5, <1>6
  DEF Next, Call, ScriptLoaded, Retry, Attempt, Return, GiveUp, Abort

(* Every step keeps attempts and sleeps within the deadline. *)
LEMMA InTimeStep ==
  ASSUME RateInv, [Next]_vars
  PROVE  InTime'
<1> USE DEF RateInv, TypeOK, InTime, Busy, Grace
<1>0. \A c \in Callers : SkewOf[c] \in Nat /\ Latency \in Nat
  BY RateAssumption
<1>1. CASE Tick
  <2> SUFFICES ASSUME NEW c \in Callers, pc[c] = "asleep" PROVE now' <= wake[c]
    BY <1>1 DEF Tick, caller
  <2>1. now < wake[c] /\ now' = now + 1
    BY <1>1 DEF Tick, OnTime
  <2> QED BY <2>1
<1>2. ASSUME NEW c \in Callers, NEW k \in Costs, NEW d \in Deadlines, Call(c, k, d)
      PROVE  InTime'
  <2>1. stamp'[c] - SkewOf[c] = now
    BY <1>0, <1>2 DEF Call, Attempt, Request
  <2>2. d \in Nat /\ (d # NoDeadline => now <= d)
    <3>1. \A t \in Timeouts : now + t \in Nat /\ now <= now + t
      BY RateAssumption
    <3>2. d = NoDeadline \/ d = now \/ \E t \in Timeouts : d = now + t
      BY DEF Deadlines
    <3> QED BY <3>1, <3>2 DEF NoDeadline
  <2>3. pc'[c] = (IF loaded'[c] THEN "loading" ELSE "sent")
    BY <1>2 DEF Call, Attempt, Request
  <2>4. /\ deadline'[c] = d
        /\ \A x \in Callers \ {c} : /\ pc'[x] = pc[x] /\ stamp'[x] = stamp[x]
                                    /\ deadline'[x] = deadline[x] /\ loaded'[x] = loaded[x]
        /\ UNCHANGED <<now, wake>>
    BY <1>2 DEF Call, Attempt, Request
  <2> QED BY <1>0, <2>1, <2>2, <2>3, <2>4
<1>l. ASSUME NEW c \in Callers, ScriptLoaded(c) PROVE InTime'
  <2>1. stamp'[c] - SkewOf[c] = now
    BY <1>0, <1>l DEF ScriptLoaded, Request
  <2>2. deadline[c] # NoDeadline => now <= deadline[c] + Latency
    BY <1>0, <1>l DEF ScriptLoaded, Prompt
  <2>3. /\ pc[c] = "loading" /\ pc'[c] = "sent" /\ UNCHANGED <<now, deadline, wake, loaded>>
        /\ \A x \in Callers \ {c} : pc'[x] = pc[x] /\ stamp'[x] = stamp[x]
    BY <1>l DEF ScriptLoaded, Request
  <2>4. loaded[c]
    BY <2>3
  <2> QED BY <2>1, <2>2, <2>3, <2>4
<1>3. ASSUME NEW c \in Callers, EvalSha(c) PROVE InTime'
  BY <1>3 DEF EvalSha
<1>4. ASSUME NEW c \in Callers, End(c) PROVE InTime'
  BY <1>4 DEF End
<1>5. ASSUME NEW c \in Callers, Sleep(c) PROVE InTime'
  <2>1. /\ pc'[c] = "asleep" /\ wake'[c] = WakeTime(c)
        /\ \A x \in Callers \ {c} : pc'[x] = pc[x] /\ wake'[x] = wake[x]
        /\ UNCHANGED <<now, stamp, deadline, loaded>>
    BY <1>5 DEF Sleep
  <2>2. now <= WakeTime(c) /\ (deadline[c] # NoDeadline => WakeTime(c) <= deadline[c])
    <3>1. deadline[c] # NoDeadline => deadline[c] > now
      BY <1>5 DEF Sleep, TimedOut
    <3>2. FullWait(c) \in Nat
      BY WaitIsNat
    <3> QED BY <3>1, <3>2 DEF WakeTime
  <2> QED BY <2>1, <2>2
<1>6. ASSUME NEW c \in Callers, Retry(c) PROVE InTime'
  <2>1. stamp'[c] - SkewOf[c] = now
    BY <1>0, <1>6 DEF Retry, Attempt, Request
  <2>2. deadline[c] # NoDeadline => now <= deadline[c]
    BY <1>6 DEF Retry
  <2>3. /\ pc'[c] = (IF loaded'[c] THEN "loading" ELSE "sent")
        /\ \A x \in Callers \ {c} : /\ pc'[x] = pc[x] /\ stamp'[x] = stamp[x]
                                    /\ wake'[x] = wake[x] /\ loaded'[x] = loaded[x]
        /\ UNCHANGED <<now, deadline>>
    BY <1>6 DEF Retry, Attempt, Request
  <2> QED BY <1>0, <2>1, <2>2, <2>3
<1>7. CASE UNCHANGED vars
  BY <1>7 DEF vars, caller
<1> QED BY <1>1, <1>2, <1>l, <1>3, <1>4, <1>5, <1>6, <1>7 DEF Next, Return, GiveUp, Abort

-----------------------------------------------------------------------------

(* The inductive invariant of the limiter. *)
THEOREM RateInvariant == Spec => []RateInv
<1>1. Init => RateInv
  BY RateAssumption DEF Init, RateInv, TypeOK, Buckets, NoBucket, NoDeadline, Paid,
     ClockOfBucket, LapsesTakeTime, Prompt, Busy, InTime, Steps
<1>2. RateInv /\ [Next]_vars => RateInv'
  BY TypeStep, PaidStep, ClockStep, LapseStep, PromptStep, InTimeStep DEF RateInv
<1> QED BY <1>1, <1>2, PTL DEF Spec

(* A tenant gets its burst, what its rate earned, what a turned back clock of
   the bucket let it earn twice, and a burst for every key that expired early,
   of which there is at most one in the life of a key. *)
THEOREM GrantsBound == Spec => []GrantsAreBounded
<1>1. RateInv => GrantsAreBounded
  <2> SUFFICES ASSUME RateInv PROVE GrantsAreBounded
    OBVIOUS
  <2>1. /\ now \in Nat \ {0} /\ first \in Nat /\ rewound \in Nat /\ granted \in Nat
        /\ bucket.tokens \in Nat /\ bucket.last \in Nat /\ bucket.expires \in Nat
        /\ Rate \in Nat /\ Burst \in Nat /\ MaxSkew \in Nat /\ KeyTtl \in Nat /\ lapses \in Nat
    BY RateAssumption DEF RateInv, TypeOK, Buckets
  <2> DEFINE moved == bucket.last - first + rewound
             most == now + MaxSkew - first + rewound
             bursts == Burst * (1 + lapses)
             lives == lapses * KeyTtl
  <2>2. moved \in Int /\ most \in Int
    BY <2>1
  <2>a. bursts \in Nat /\ lives \in Nat
    BY <2>1, LapseAdds
  <2>3. CASE bucket = NoBucket
    <3>1. granted = 0 /\ most \in Nat /\ lapses = 0
      BY <2>1, <2>3 DEF RateInv, Paid
    <3>2. Rate * 0 <= Rate * most /\ Rate * most \in Int
      <4> HIDE DEF most
      <4> QED BY <2>1, <3>1, RateGrows
    <3>3. lives = 0
      BY <2>1, <3>1
    <3> HIDE DEF most, bursts, lives
    <3>4. granted <= bursts + Rate * most /\ lives < now
      BY <2>1, <2>a, <3>1, <3>2, <3>3
    <3> QED BY <3>4 DEF GrantsAreBounded, most, bursts, lives
  <2>4. CASE bucket # NoBucket
    <3>1. bucket.tokens + granted <= bursts + Rate * moved
      BY <2>4 DEF RateInv, Paid
    <3>2. moved <= most
      BY <2>1, <2>4 DEF RateInv, ClockOfBucket
    <3>5. lives + KeyTtl < bucket.expires /\ bucket.expires <= now + KeyTtl
      BY <2>4 DEF RateInv, LapsesTakeTime, ClockOfBucket
    <3> HIDE DEF moved, most, bursts, lives
    <3>3. Rate * moved <= Rate * most /\ Rate * moved \in Int /\ Rate * most \in Int
      BY <2>1, <2>2, <3>2, RateGrows
    <3>4. granted <= bursts + Rate * most /\ lives < now
      BY <2>1, <2>a, <3>1, <3>3, <3>5
    <3> QED BY <3>4 DEF GrantsAreBounded, most, bursts, lives
  <2> QED BY <2>3, <2>4
<1> QED BY <1>1, RateInvariant, PTL

(* A call with a timeout is over one round trip after its deadline, two when its
   last attempt had to load the script. *)
THEOREM DeadlinesAreKept == Spec => []EndsInTime
<1>1. RateInv => EndsInTime
  <2> SUFFICES ASSUME RateInv, NEW c \in Callers, pc[c] # "idle", deadline[c] # NoDeadline
               PROVE  now <= deadline[c]
                        + (IF loaded[c] /\ pc[c] # "loading" THEN 2 * Latency ELSE Latency)
    BY DEF EndsInTime
  <2>1. /\ now \in Nat /\ deadline[c] \in Nat /\ stamp[c] \in Nat /\ wake[c] \in Nat
        /\ SkewOf[c] \in Nat /\ Latency \in Nat
        /\ pc[c] \in Steps
    BY RateAssumption DEF RateInv, TypeOK
  <2> QED BY <2>1 DEF RateInv, Prompt, InTime, Busy, Grace, Steps
<1> QED BY <1>1, RateInvariant, PTL
=============================================================================
