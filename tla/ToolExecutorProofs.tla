------------------------- MODULE ToolExecutorProofs -------------------------
(***************************************************************************)
(* For any calls, keys, sizes and times: cached answers are recent, an     *)
(* older answer comes from an overlapping call, and skips are earned.      *)
(***************************************************************************)
EXTENDS ToolExecutor, SequenceTheorems, TLAPS

Elems(q) == {q[i] : i \in DOMAIN q}

Unique(q) == \A i, j \in DOMAIN q : q[i].key = q[j].key => i = j

\* The entries of the cache are what attempts of at most Timeout have read.
CacheInv ==
  /\ Unique(cache)
  /\ \A e \in Elems(cache) : e.seen <= e.ts /\ e.ts <= now /\ e.ts - e.seen <= Timeout

AttemptInv == \A c \in Calls : pc[c] = "attempting" => since[c] <= now /\ now <= since[c] + Timeout

AnswerInv ==
  \A b \in Calls :
    /\ answer[b].is # "none" => pc[b] = "done"
    /\ answer[b].seen <= answer[b].at /\ answer[b].at <= now

\* Some call that was in flight when b was answered has read the world at a time.
ReadBesides(b, seen) ==
  \E a \in answer[b].during \ {b} :
    answer[a].is = "content" /\ KeyOf[a] = KeyOf[b] /\ answer[a].seen = seen

\* What is still to come after the answer of b is newer, or of a call in flight then.
OrderInv ==
  \A b \in Calls : answer[b].is = "content" =>
    /\ \A c \in Calls :
         pc[c] = "attempting" => c \in answer[b].during \/ answer[b].at <= since[c]
    /\ \A e \in Elems(cache) :
         e.key = KeyOf[b] => e.seen >= answer[b].seen \/ ReadBesides(b, e.seen)

CallsInv == CacheInv /\ AttemptInv /\ AnswerInv /\ OrderInv

-----------------------------------------------------------------------------
\* A sequence without one of its elements.
LEMMA Removing ==
  ASSUME NEW S, NEW s \in Seq(S), NEW i \in DOMAIN s
  PROVE  /\ RemoveAt(s, i) \in Seq(S)
         /\ Len(RemoveAt(s, i)) = Len(s) - 1
         /\ \A j \in 1..(Len(s) - 1) : RemoveAt(s, i)[j] = IF j < i THEN s[j] ELSE s[j + 1]
<1> DEFINE p == SubSeq(s, 1, i - 1)
           q == SubSeq(s, i + 1, Len(s))
           n == Len(s)
<1>0. n \in Nat /\ i \in 1..n /\ \A j \in 1..n : s[j] \in S
  OBVIOUS
<1> HIDE DEF n
<1>1. /\ p \in Seq(S) /\ Len(p) = i - 1
      /\ \A j \in 1..(i - 1) : p[j] = s[j]
  <2>1. i - 1 \in Int /\ \A j \in 1..(i - 1) : s[j] \in S
    BY <1>0
  <2>2. /\ p \in Seq(S) /\ Len(p) = (IF 1 <= i - 1 THEN (i - 1) - 1 + 1 ELSE 0)
        /\ \A j \in 1..((i - 1) - 1 + 1) : p[j] = s[1 + j - 1]
    BY <2>1, SubSeqProperties
  <2>3. (i - 1) - 1 + 1 = i - 1
    BY <1>0
  <2>4. \A j \in 1..(i - 1) : 1 + j - 1 = j
    BY <1>0
  <2>5. (IF 1 <= i - 1 THEN i - 1 ELSE 0) = i - 1
    BY <1>0
  <2> HIDE DEF p
  <2>6. Len(p) = i - 1
    BY <2>2, <2>3, <2>5
  <2>7. \A j \in 1..(i - 1) : p[j] = s[j]
    BY <2>2, <2>3, <2>4
  <2> QED
    BY <2>2, <2>6, <2>7
<1>2. /\ q \in Seq(S) /\ Len(q) = n - i
      /\ \A j \in 1..(n - i) : q[j] = s[i + j]
  <2>1. i + 1 \in Int /\ n \in Int /\ \A j \in (i + 1)..n : s[j] \in S
    BY <1>0
  <2>2. /\ q \in Seq(S) /\ Len(q) = (IF i + 1 <= n THEN n - (i + 1) + 1 ELSE 0)
        /\ \A j \in 1..(n - (i + 1) + 1) : q[j] = s[(i + 1) + j - 1]
    BY <2>1, SubSeqProperties DEF n
  <2>3. n - (i + 1) + 1 = n - i
    BY <1>0
  <2>4. \A j \in 1..(n - i) : (i + 1) + j - 1 = i + j
    BY <1>0
  <2>5. (IF i + 1 <= n THEN n - i ELSE 0) = n - i
    BY <1>0
  <2> HIDE DEF q
  <2>6. Len(q) = n - i
    BY <2>2, <2>3, <2>5
  <2>7. \A j \in 1..(n - i) : q[j] = s[i + j]
    BY <2>2, <2>3, <2>4
  <2> QED
    BY <2>2, <2>6, <2>7
<1>3. RemoveAt(s, i) = p \o q
  BY DEF RemoveAt
<1> HIDE DEF p, q
<1>4. /\ p \o q \in Seq(S) /\ Len(p \o q) = (i - 1) + (n - i)
      /\ \A j \in 1..((i - 1) + (n - i)) :
           (p \o q)[j] = IF j <= i - 1 THEN p[j] ELSE q[j - (i - 1)]
  <2>1. /\ p \o q \in Seq(S) /\ Len(p \o q) = Len(p) + Len(q)
        /\ \A j \in 1..(Len(p) + Len(q)) : (p \o q)[j] = IF j <= Len(p) THEN p[j] ELSE q[j - Len(p)]
    BY <1>1, <1>2, ConcatProperties
  <2>2. Len(p) = i - 1 /\ Len(q) = n - i
    BY <1>1, <1>2
  <2> QED
    BY <2>1, <2>2
<1>5. (i - 1) + (n - i) = n - 1
  BY <1>0
<1>6. ASSUME NEW j \in 1..(n - 1)
      PROVE  (p \o q)[j] = IF j < i THEN s[j] ELSE s[j + 1]
  <2>1. (p \o q)[j] = IF j <= i - 1 THEN p[j] ELSE q[j - (i - 1)]
    BY <1>4, <1>5
  <2>2. CASE j < i
    <3>1. j <= i - 1 /\ j \in 1..(i - 1)
      BY <1>0, <2>2
    <3> QED
      BY <1>1, <2>1, <2>2, <3>1
  <2>3. CASE ~(j < i)
    <3>1. ~(j <= i - 1) /\ j - (i - 1) \in 1..(n - i) /\ i + (j - (i - 1)) = j + 1
      BY <1>0, <2>3
    <3> QED
      BY <1>2, <2>1, <2>3, <3>1
  <2> QED
    BY <2>2, <2>3
<1>7. Len(p \o q) = n - 1
  BY <1>4, <1>5
<1> QED
  BY <1>3, <1>4, <1>6, <1>7 DEF n

\* The cache without a key.
LEMMA WithoutKey ==
  ASSUME cache \in Seq(Entry), Unique(cache), NEW k
  PROVE  /\ Without(k) \in Seq(Entry) /\ Unique(Without(k))
         /\ Elems(Without(k)) \subseteq Elems(cache)
         /\ \A e \in Elems(Without(k)) : e.key # k
<1>1. CASE \E i \in DOMAIN cache : cache[i].key = k
  <2> DEFINE i == CHOOSE x \in DOMAIN cache : cache[x].key = k
             w == RemoveAt(cache, i)
  <2>1. i \in DOMAIN cache /\ cache[i].key = k
    BY <1>1
  <2>2. Without(k) = w
    BY <1>1 DEF Without
  <2> HIDE DEF i
  <2>3. /\ w \in Seq(Entry) /\ Len(w) = Len(cache) - 1
        /\ \A j \in 1..(Len(cache) - 1) : w[j] = IF j < i THEN cache[j] ELSE cache[j + 1]
    BY <2>1, Removing
  <2> HIDE DEF w
  <2>4. DOMAIN cache = 1..Len(cache) /\ DOMAIN w = 1..(Len(cache) - 1) /\ Len(cache) \in Nat
    BY <2>3
  <2>5. \A j \in DOMAIN w :
          LET x == IF j < i THEN j ELSE j + 1
          IN  x \in DOMAIN cache /\ x # i /\ w[j] = cache[x]
    BY <2>1, <2>3, <2>4
  <2>6. \A j \in DOMAIN w : w[j] \in Elems(cache) /\ w[j].key # k
    BY <2>1, <2>5 DEF Elems, Unique
  <2>7. Unique(w)
    <3> SUFFICES ASSUME NEW j \in DOMAIN w, NEW m \in DOMAIN w, w[j].key = w[m].key PROVE j = m
      BY DEF Unique
    <3> DEFINE x == IF j < i THEN j ELSE j + 1
               y == IF m < i THEN m ELSE m + 1
    <3>1. x \in DOMAIN cache /\ y \in DOMAIN cache /\ cache[x].key = cache[y].key
      BY <2>5
    <3>2. x = y
      BY <3>1 DEF Unique
    <3> QED
      BY <2>1, <2>4, <3>2
  <2> QED
    BY <2>2, <2>3, <2>6, <2>7 DEF Elems
<1>2. CASE ~\E i \in DOMAIN cache : cache[i].key = k
  BY <1>2 DEF Without, Elems
<1> QED
  BY <1>1, <1>2

\* A sequence of entries with one of another key at its end, and without its first.
LEMMA Adding ==
  ASSUME NEW q \in Seq(Entry), Unique(q), NEW new \in Entry, \A e \in Elems(q) : e.key # new.key
  PROVE  /\ Append(q, new) \in Seq(Entry) /\ Unique(Append(q, new))
         /\ Elems(Append(q, new)) = Elems(q) \union {new}
         /\ Tail(Append(q, new)) \in Seq(Entry) /\ Unique(Tail(Append(q, new)))
         /\ Elems(Tail(Append(q, new))) \subseteq Elems(q) \union {new}
<1> DEFINE a == Append(q, new)
           t == Tail(a)
<1>1. /\ a \in Seq(Entry) /\ Len(a) = Len(q) + 1 /\ Len(q) \in Nat
      /\ DOMAIN a = 1..(Len(q) + 1) /\ DOMAIN q = 1..Len(q)
      /\ \A i \in 1..Len(q) : a[i] = q[i]
      /\ a[Len(q) + 1] = new
  OBVIOUS
<1> HIDE DEF a
<1>2. Unique(a)
  <2>1. \A i \in 1..Len(q) : a[i].key # new.key
    BY <1>1 DEF Elems
  <2>2. \A i \in DOMAIN a : i \in 1..Len(q) \/ i = Len(q) + 1
    BY <1>1
  <2> QED
    BY <1>1, <2>1, <2>2 DEF Unique
<1>3. Elems(a) = Elems(q) \union {new}
  <2>1. \A i \in DOMAIN a : a[i] \in Elems(q) \union {new}
    BY <1>1 DEF Elems
  <2>2. \A i \in DOMAIN q : q[i] \in Elems(a)
    BY <1>1 DEF Elems
  <2>3. new \in Elems(a)
    BY <1>1 DEF Elems
  <2> QED
    BY <2>1, <2>2, <2>3 DEF Elems
<1>4. /\ t \in Seq(Entry) /\ Len(t) = Len(a) - 1
      /\ \A i \in 1..Len(t) : t[i] = a[i + 1]
  BY <1>1, HeadTailProperties
<1> HIDE DEF t
<1>5. DOMAIN t = 1..Len(q) /\ \A i \in DOMAIN t : i + 1 \in DOMAIN a /\ t[i] = a[i + 1]
  BY <1>1, <1>4
<1>6. Unique(t)
  <2> SUFFICES ASSUME NEW i \in DOMAIN t, NEW j \in DOMAIN t, t[i].key = t[j].key PROVE i = j
    BY DEF Unique
  <2>1. i + 1 = j + 1
    BY <1>2, <1>5 DEF Unique
  <2> QED
    BY <1>5, <2>1
<1>7. \A i \in DOMAIN t : t[i] \in Elems(a)
  BY <1>5 DEF Elems
<1>8. Elems(t) \subseteq Elems(q) \union {new}
  BY <1>3, <1>7 DEF Elems
<1> QED
  BY <1>1, <1>2, <1>3, <1>4, <1>6, <1>8 DEF a, t

-----------------------------------------------------------------------------
\* Each result is of its type.
LEMMA ResultTypes ==
  ASSUME TypeOK
  PROVE  LET R == [is : {"none", "content", "skip", "error"},
                   seen : Nat, at : Nat, during : SUBSET Calls, before : SUBSET Calls]
         IN  NoResult \in R /\ Error \in R /\ Plain("skip", now) \in R
             /\ \A seen \in Nat : Content(seen) \in R
  BY ToolAssumption DEF TypeOK, NoResult, Error, Plain, Content

\* What _idem_put leaves in the cache: the new result, once.
LEMMA Putting ==
  ASSUME TypeOK, Unique(cache), NEW c \in Calls, NEW seen \in Nat, IdemPut(KeyOf[c], seen)
  PROVE  /\ cache' \in Seq(Entry) /\ Unique(cache')
         /\ \A e \in Elems(cache') :
              \/ e \in Elems(cache) /\ e.key # KeyOf[c]
              \/ e = [key |-> KeyOf[c], seen |-> seen, ts |-> now]
<1> DEFINE new == [key |-> KeyOf[c], seen |-> seen, ts |-> now]
           w == Without(KeyOf[c])
<1>1. new \in Entry /\ new.key = KeyOf[c]
  BY ToolAssumption DEF TypeOK, Entry
<1>2. /\ w \in Seq(Entry) /\ Unique(w) /\ Elems(w) \subseteq Elems(cache)
      /\ \A e \in Elems(w) : e.key # new.key
  BY <1>1, WithoutKey DEF TypeOK
<1>3. cache' = Append(w, new) \/ cache' = Tail(Append(w, new))
  BY DEF IdemPut
<1> HIDE DEF new, w
<1>4. cache' \in Seq(Entry) /\ Unique(cache') /\ Elems(cache') \subseteq Elems(w) \union {new}
  <2> DEFINE a == Append(w, new)
  <2>1. /\ a \in Seq(Entry) /\ Unique(a) /\ Elems(a) = Elems(w) \union {new}
        /\ Tail(a) \in Seq(Entry) /\ Unique(Tail(a)) /\ Elems(Tail(a)) \subseteq Elems(w) \union {new}
    BY <1>1, <1>2, Adding
  <2>2. cache' = a \/ cache' = Tail(a)
    BY <1>3
  <2> HIDE DEF a
  <2> QED
    BY <2>1, <2>2
<1> QED
  BY <1>1, <1>2, <1>4 DEF new

\* What _idem_get leaves there: the same entries.
LEMMA Getting ==
  ASSUME TypeOK, Unique(cache), NEW c \in Calls, NEW i \in DOMAIN cache,
         cache[i].key = KeyOf[c], cache' = Append(Without(KeyOf[c]), cache[i])
  PROVE  /\ cache' \in Seq(Entry) /\ Unique(cache')
         /\ Elems(cache') \subseteq Elems(cache)
         /\ \A e \in Elems(cache') : e.key = KeyOf[c] => e = cache[i]
<1> DEFINE w == Without(KeyOf[c])
<1>1. cache[i] \in Entry /\ cache[i] \in Elems(cache)
  BY DEF TypeOK, Elems
<1>2. /\ w \in Seq(Entry) /\ Unique(w) /\ Elems(w) \subseteq Elems(cache)
      /\ \A e \in Elems(w) : e.key # cache[i].key
  BY WithoutKey DEF TypeOK
<1> HIDE DEF w
<1>3. cache' \in Seq(Entry) /\ Unique(cache') /\ Elems(cache') = Elems(w) \union {cache[i]}
  <2>1. cache' = Append(w, cache[i])
    BY DEF w
  <2> QED
    BY <1>1, <1>2, <2>1, Adding
<1> QED
  BY <1>1, <1>2, <1>3

\* What a failure leaves in the window.
LEMMA Recording ==
  ASSUME TypeOK, CbRecordFailure
  PROVE  failures' \in Seq(Nat) /\ openUntil' \in Nat
<1> DEFINE all == Append(failures, now)
<1>1. now \in Nat /\ now + Cooldown \in Nat
  BY ToolAssumption DEF TypeOK
<1>2. all \in Seq(Nat)
  BY <1>1 DEF TypeOK
<1>3. PICK first \in DOMAIN all :
        /\ failures' = SubSeq(all, first, Len(all))
        /\ openUntil' = IF Len(all) - first + 1 >= Threshold THEN now + Cooldown ELSE openUntil
  BY DEF CbRecordFailure
<1> HIDE DEF all
<1>4. first \in Int /\ Len(all) \in Int /\ \A j \in first..Len(all) : all[j] \in Nat
  BY <1>2
<1>5. SubSeq(all, first, Len(all)) \in Seq(Nat)
  BY <1>4, SubSeqProperties
<1> QED
  BY <1>1, <1>3, <1>5 DEF TypeOK

\* Types are kept by every step, and no key is in the cache twice.
LEMMA TypesAreKept ==
  ASSUME TypeOK, Unique(cache), [Next]_vars
  PROVE  TypeOK' /\ Unique(cache')
<1> DEFINE R == [is : {"none", "content", "skip", "error"},
                 seen : Nat, at : Nat, during : SUBSET Calls, before : SUBSET Calls]
<1>1. /\ NoResult \in R /\ Error \in R /\ Plain("skip", now) \in R
      /\ \A seen \in Nat : Content(seen) \in R
  BY ResultTypes
<1>2. ASSUME NEW c \in Calls, NEW r \in R, Return(c, r)
      PROVE  /\ now' \in 0..MaxNow /\ since' \in [Calls -> Nat] /\ attempt' \in [Calls -> 0..Retries]
             /\ pc' \in [Calls -> InFlight \union {"idle", "done"}]
             /\ answer' \in [Calls -> R]
  BY <1>2, ToolAssumption DEF Return, TypeOK, InFlight
<1>3. ASSUME NEW c \in Calls, StartAttempt(c)
      PROVE  /\ since' \in [Calls -> Nat]
             /\ pc' \in [Calls -> InFlight \union {"idle", "done"}]
  BY <1>3, ToolAssumption DEF StartAttempt, TypeOK, InFlight
<1>4. ASSUME NEW c \in Calls, CacheMiss(c) PROVE cache' \in Seq(Entry) /\ Unique(cache')
  BY <1>4, WithoutKey DEF CacheMiss, TypeOK
<1>5. ASSUME NEW r, r \in [at : Nat, failed : BOOLEAN], outcomes' = Append(outcomes, r)
      PROVE  outcomes' \in Seq([at : Nat, failed : BOOLEAN])
  BY <1>5 DEF TypeOK
<1>6. now \in Nat
  BY ToolAssumption DEF TypeOK
<1> HIDE DEF R
<1>7. TypeOK => answer \in [Calls -> R]
  BY DEF TypeOK, R
<1>8. ASSUME NEW c \in Calls, Execute(c) \/ Refuse(c) \/ Cancel(c)
      PROVE  TypeOK' /\ Unique(cache')
  <2>1. CASE Execute(c)
    BY <2>1 DEF Execute, TypeOK, InFlight
  <2>2. CASE Refuse(c)
    BY <1>1, <1>2, <2>2 DEF Refuse, TypeOK, R
  <2>3. CASE Cancel(c)
    BY <1>1, <1>2, <2>3 DEF Cancel, TypeOK, R
  <2> QED
    BY <1>8, <2>1, <2>2, <2>3
<1>9. ASSUME NEW c \in Calls, CacheHit(c) PROVE TypeOK' /\ Unique(cache')
  <2>1. PICK i \in DOMAIN cache :
          /\ cache[i].key = KeyOf[c] /\ cache' = Append(Without(KeyOf[c]), cache[i])
          /\ Return(c, Content(cache[i].seen))
    BY <1>9 DEF CacheHit, IdemGet
  <2>2. cache' \in Seq(Entry) /\ Unique(cache')
    BY <2>1, Getting
  <2>3. cache[i].seen \in Nat
    <3>1. cache[i] \in Entry
      BY DEF TypeOK
    <3> QED
      BY <3>1 DEF Entry
  <2> QED
    BY <1>1, <1>2, <1>9, <2>1, <2>2, <2>3 DEF CacheHit, TypeOK, R
<1>10. ASSUME NEW c \in Calls, CircuitOpen(c) PROVE TypeOK' /\ Unique(cache')
  BY <1>1, <1>2, <1>4, <1>10 DEF CircuitOpen, TypeOK, R
<1>11. ASSUME NEW c \in Calls, BeginAttempts(c) PROVE TypeOK' /\ Unique(cache')
  <2>1. failures' \in Seq(Nat) /\ openUntil' \in Nat
    BY <1>11 DEF BeginAttempts, TypeOK
  <2> QED
    BY <1>3, <1>4, <1>11, <2>1 DEF BeginAttempts, TypeOK
<1>12. ASSUME NEW c \in Calls, Succeed(c) PROVE TypeOK' /\ Unique(cache')
  <2>1. PICK seen \in since[c]..now : IdemPut(KeyOf[c], seen) /\ Return(c, Content(seen))
    BY <1>12 DEF Succeed
  <2>2. seen \in Nat
    BY <1>6, <2>1 DEF TypeOK
  <2>3. cache' \in Seq(Entry) /\ Unique(cache')
    BY <2>1, <2>2, Putting
  <2>4. outcomes' \in Seq([at : Nat, failed : BOOLEAN])
    BY <1>5, <1>6, <1>12 DEF Succeed
  <2>5. failures' \in Seq(Nat) /\ openUntil' = openUntil
    BY <1>12 DEF Succeed, CbRecordSuccess
  <2> QED
    BY <1>1, <1>2, <2>1, <2>2, <2>3, <2>4, <2>5 DEF TypeOK, R
<1>13. ASSUME NEW c \in Calls, AttemptFails(c) \/ Wake(c) PROVE TypeOK' /\ Unique(cache')
  <2>1. CASE AttemptFails(c)
    <3>1. attempt' \in [Calls -> 0..Retries]
      <4>1. attempt[c] + 1 \in 0..Retries
        BY <2>1, ToolAssumption DEF AttemptFails, TypeOK
      <4> QED
        BY <2>1, <4>1 DEF AttemptFails, TypeOK
    <3>2. PICK delay \in Delays :
            IF delay = 0 THEN StartAttempt(c)
            ELSE /\ pc' = [pc EXCEPT ![c] = "sleeping"]
                 /\ since' = [since EXCEPT ![c] = now + delay]
      BY <2>1 DEF AttemptFails
    <3>3. now + delay \in Nat
      BY <1>6, ToolAssumption
    <3>4. /\ since' \in [Calls -> Nat]
          /\ pc' \in [Calls -> InFlight \union {"idle", "done"}]
      <4>1. CASE delay = 0
        BY <1>3, <3>2, <4>1
      <4>2. CASE delay # 0
        <5>1. since \in [Calls -> Nat] /\ pc \in [Calls -> InFlight \union {"idle", "done"}]
          BY DEF TypeOK
        <5> QED
          BY <3>2, <3>3, <4>2, <5>1 DEF InFlight
      <4> QED
        BY <4>1, <4>2
    <3> QED
      BY <2>1, <3>1, <3>4 DEF AttemptFails, TypeOK
  <2>2. CASE Wake(c)
    BY <1>3, <2>2 DEF Wake, TypeOK
  <2> QED
    BY <1>13, <2>1, <2>2
<1>14. ASSUME NEW c \in Calls, LastAttemptFails(c) PROVE TypeOK' /\ Unique(cache')
  <2>1. outcomes' \in Seq([at : Nat, failed : BOOLEAN])
    BY <1>5, <1>6, <1>14 DEF LastAttemptFails
  <2>2. failures' \in Seq(Nat) /\ openUntil' \in Nat
    BY <1>14, Recording DEF LastAttemptFails
  <2> QED
    BY <1>1, <1>2, <1>14, <2>1, <2>2 DEF LastAttemptFails, TypeOK, R
<1>15. CASE Tick
  <2>1. now' \in 0..MaxNow
    BY <1>15, ToolAssumption DEF Tick, TypeOK
  <2> QED
    BY <1>15, <2>1 DEF Tick, TypeOK
<1>16. CASE UNCHANGED vars
  BY <1>16 DEF vars, TypeOK
<1> QED
  BY <1>8, <1>9, <1>10, <1>11, <1>12, <1>13, <1>14, <1>15, <1>16 DEF Next

-----------------------------------------------------------------------------
\* Only a success puts anything new into the cache.
LEMMA FewerEntries ==
  ASSUME TypeOK, Unique(cache), [Next]_vars, \A c \in Calls : ~Succeed(c)
  PROVE  Elems(cache') \subseteq Elems(cache)
<1>1. ASSUME NEW c \in Calls, CacheHit(c) PROVE Elems(cache') \subseteq Elems(cache)
  BY <1>1, Getting DEF CacheHit, IdemGet
<1>2. ASSUME NEW c \in Calls, CacheMiss(c) PROVE Elems(cache') \subseteq Elems(cache)
  BY <1>2, WithoutKey DEF CacheMiss, TypeOK
<1>3. CASE cache' = cache
  BY <1>3
<1> QED
  BY <1>1, <1>2, <1>3 DEF Next, vars, Execute, Refuse, CircuitOpen, BeginAttempts, AttemptFails,
     Wake, LastAttemptFails, Cancel, Tick

\* A call changes its own state only, and an attempt starts now.
LEMMA OneAtATime ==
  ASSUME TypeOK, [Next]_vars
  PROVE  /\ now' = now \/ (Tick /\ now' = now + 1 /\ UNCHANGED <<pc, since, answer>>)
         /\ \A c \in Calls : pc'[c] = "attempting" =>
              (pc[c] = "attempting" /\ since'[c] = since[c]) \/ (now' = now /\ since'[c] = now)
<1>1. ASSUME NEW c \in Calls, NEW r, Return(c, r)
      PROVE  /\ now' = now /\ pc'[c] = "done"
             /\ \A d \in Calls \ {c} : pc'[d] = pc[d] /\ since'[d] = since[d]
  BY <1>1 DEF Return, TypeOK
<1>2. ASSUME NEW c \in Calls, StartAttempt(c), now' = now
      PROVE  /\ now' = now /\ since'[c] = now
             /\ \A d \in Calls \ {c} : pc'[d] = pc[d] /\ since'[d] = since[d]
  BY <1>2 DEF StartAttempt, TypeOK
<1>3. ASSUME NEW c \in Calls, Execute(c)
      PROVE  /\ now' = now /\ pc'[c] = "enforcing"
             /\ \A d \in Calls \ {c} : pc'[d] = pc[d] /\ since'[d] = since[d]
  BY <1>3 DEF Execute, TypeOK
<1>4. ASSUME NEW c \in Calls, AttemptFails(c)
      PROVE  /\ now' = now
             /\ (pc'[c] = "attempting" => since'[c] = now)
             /\ \A d \in Calls \ {c} : pc'[d] = pc[d] /\ since'[d] = since[d]
  <2>1. now' = now
    BY <1>4 DEF AttemptFails
  <2>2. CASE StartAttempt(c)
    BY <1>2, <2>1, <2>2
  <2>3. CASE pc' = [pc EXCEPT ![c] = "sleeping"] /\ \E t : since' = [since EXCEPT ![c] = t]
    BY <2>1, <2>3 DEF TypeOK
  <2> QED
    BY <1>4, <2>2, <2>3 DEF AttemptFails
<1>5. ASSUME NEW c \in Calls, CacheHit(c) PROVE \E r : Return(c, r)
  BY <1>5 DEF CacheHit, IdemGet
<1>6. ASSUME NEW c \in Calls, Succeed(c) PROVE \E r : Return(c, r)
  BY <1>6 DEF Succeed
<1>7. CASE Tick \/ UNCHANGED vars
  BY <1>7 DEF Tick, vars
<1>8. CASE \E c \in Calls : Execute(c)
  BY <1>3, <1>8
<1>9. CASE \E c \in Calls : Refuse(c) \/ CircuitOpen(c) \/ LastAttemptFails(c) \/ Cancel(c)
  BY <1>1, <1>9 DEF Refuse, CircuitOpen, LastAttemptFails, Cancel
<1>10. CASE \E c \in Calls : CacheHit(c) \/ Succeed(c)
  BY <1>1, <1>5, <1>6, <1>10
<1>11. CASE \E c \in Calls : BeginAttempts(c) \/ Wake(c)
  BY <1>2, <1>11 DEF BeginAttempts, Wake
<1>12. CASE \E c \in Calls : AttemptFails(c)
  BY <1>4, <1>12
<1> QED
  BY <1>7, <1>8, <1>9, <1>10, <1>11, <1>12 DEF Next

\* No attempt lasts longer than its timeout.
LEMMA AttemptsKept ==
  ASSUME TypeOK, AttemptInv, [Next]_vars
  PROVE  AttemptInv'
<1> SUFFICES ASSUME NEW c \in Calls, pc'[c] = "attempting"
             PROVE  since'[c] <= now' /\ now' <= since'[c] + Timeout
  BY DEF AttemptInv
<1>1. now \in Nat /\ since[c] \in Nat
  BY ToolAssumption DEF TypeOK
<1>2. CASE now' = now
  BY <1>1, <1>2, OneAtATime, ToolAssumption DEF AttemptInv
<1>3. CASE Tick
  BY <1>1, <1>3, ToolAssumption DEF Tick, AttemptInv
<1> QED
  BY <1>2, <1>3, OneAtATime

\* What is in the cache was read within a timeout of its being put there.
LEMMA CacheKept ==
  ASSUME TypeOK, CacheInv, AttemptInv, [Next]_vars
  PROVE  CacheInv'
<1>1. Unique(cache)'
  BY TypesAreKept DEF CacheInv, Unique
<1>2. now \in Nat /\ now' \in Nat /\ now <= now'
  <2>1. now \in Nat
    BY ToolAssumption DEF TypeOK
  <2> QED
    BY <2>1, OneAtATime
<1>3. ASSUME NEW e \in Elems(cache') PROVE e.seen <= e.ts /\ e.ts <= now' /\ e.ts - e.seen <= Timeout
  <2>1. CASE e \in Elems(cache)
    <3>1. e.ts \in Nat /\ e.seen <= e.ts /\ e.ts <= now /\ e.ts - e.seen <= Timeout
      <4>1. e \in Entry
        BY <2>1 DEF Elems, TypeOK
      <4> QED
        BY <2>1, <4>1 DEF CacheInv, Entry
    <3> QED
      BY <1>2, <3>1
  <2>2. ASSUME NEW c \in Calls, Succeed(c), e \notin Elems(cache)
        PROVE  e.seen <= e.ts /\ e.ts <= now' /\ e.ts - e.seen <= Timeout
    <3>1. PICK seen \in since[c]..now : IdemPut(KeyOf[c], seen)
      BY <2>2 DEF Succeed
    <3>2. since[c] \in Nat /\ now <= since[c] + Timeout
      BY <2>2 DEF Succeed, AttemptInv, TypeOK
    <3>3. seen \in Nat /\ seen <= now /\ now - seen <= Timeout
      BY <1>2, <3>1, <3>2, ToolAssumption
    <3>4. e = [key |-> KeyOf[c], seen |-> seen, ts |-> now]
      BY <2>2, <3>1, <3>3, Putting DEF CacheInv
    <3> QED
      BY <1>2, <3>3, <3>4
  <2> QED
    BY <2>1, <2>2, FewerEntries DEF CacheInv
<1> QED
  BY <1>1, <1>3 DEF CacheInv, Unique, Elems

-----------------------------------------------------------------------------
\* The ways a call is answered.
AnsweredPlainly(b) ==
  answer'[b].is # "content" /\ answer'[b].seen = 0 /\ answer'[b].at \in {0, now}

AnsweredFromCache(b) ==
  \E i \in DOMAIN cache :
    /\ pc[b] = "enforcing" /\ cache[i].key = KeyOf[b] /\ IsFresh(cache[i])
    /\ cache' = Append(Without(KeyOf[b]), cache[i])
    /\ answer'[b] = Content(cache[i].seen)

AnsweredByTool(b) ==
  \E seen \in since[b]..now :
    pc[b] = "attempting" /\ IdemPut(KeyOf[b], seen) /\ answer'[b] = Content(seen)

\* A call is answered once, by a step of its own that takes no time.
LEMMA AnsweredOnce ==
  ASSUME TypeOK, AnswerInv, [Next]_vars, NEW b \in Calls
  PROVE  \/ answer'[b] = answer[b] /\ (pc[b] = "done" => pc'[b] = "done")
         \/ /\ pc[b] # "done" /\ pc'[b] = "done" /\ now' = now
            /\ \A a \in Calls \ {b} : answer'[a] = answer[a] /\ pc'[a] = pc[a]
            /\ AnsweredPlainly(b) \/ AnsweredFromCache(b) \/ AnsweredByTool(b)
<1>1. ASSUME NEW c \in Calls, NEW r, Return(c, r)
      PROVE  /\ now' = now /\ pc'[c] = "done" /\ answer'[c] = r
             /\ \A a \in Calls \ {c} : answer'[a] = answer[a] /\ pc'[a] = pc[a]
  BY <1>1 DEF Return, TypeOK
<1>2. ASSUME NEW c \in Calls, Refuse(c) \/ CircuitOpen(c) \/ LastAttemptFails(c) \/ Cancel(c)
      PROVE  pc[c] # "done" /\ AnsweredPlainly(c) /\ \E r : Return(c, r)
  BY <1>1, <1>2 DEF Refuse, CircuitOpen, CacheMiss, LastAttemptFails, Cancel, InFlight,
     AnsweredPlainly, Plain, Error, NoResult
<1>3. ASSUME NEW c \in Calls, CacheHit(c)
      PROVE  pc[c] # "done" /\ AnsweredFromCache(c) /\ \E r : Return(c, r)
  BY <1>1, <1>3 DEF CacheHit, IdemGet, AnsweredFromCache
<1>4. ASSUME NEW c \in Calls, Succeed(c)
      PROVE  pc[c] # "done" /\ AnsweredByTool(c) /\ \E r : Return(c, r)
  BY <1>1, <1>4 DEF Succeed, AnsweredByTool
<1>5. ASSUME NEW c \in Calls,
             Execute(c) \/ BeginAttempts(c) \/ AttemptFails(c) \/ Wake(c)
      PROVE  answer' = answer /\ (pc[b] = "done" => pc'[b] = "done")
  <2>1. pc[c] # "done" /\ answer' = answer
    BY <1>5 DEF Execute, BeginAttempts, CacheMiss, AttemptFails, Wake
  <2>2. b # c => pc'[b] = pc[b]
    BY <1>5 DEF Execute, BeginAttempts, StartAttempt, AttemptFails, Wake, TypeOK
  <2> QED
    BY <2>1, <2>2
<1>6. CASE Tick \/ UNCHANGED vars
  BY <1>6 DEF Tick, vars
<1>7. ASSUME NEW c \in Calls, pc[c] # "done", \E r : Return(c, r),
             AnsweredPlainly(c) \/ AnsweredFromCache(c) \/ AnsweredByTool(c)
      PROVE  \/ answer'[b] = answer[b] /\ (pc[b] = "done" => pc'[b] = "done")
             \/ /\ pc[b] # "done" /\ pc'[b] = "done" /\ now' = now
                /\ \A a \in Calls \ {b} : answer'[a] = answer[a] /\ pc'[a] = pc[a]
                /\ AnsweredPlainly(b) \/ AnsweredFromCache(b) \/ AnsweredByTool(b)
  BY <1>1, <1>7
<1> QED
  BY <1>2, <1>3, <1>4, <1>5, <1>6, <1>7 DEF Next

\* Answers tell of the past, and only calls that are done have one.
LEMMA AnswersKept ==
  ASSUME TypeOK, CacheInv, AnswerInv, [Next]_vars
  PROVE  AnswerInv'
<1> SUFFICES ASSUME NEW b \in Calls
             PROVE  /\ answer'[b].is # "none" => pc'[b] = "done"
                    /\ answer'[b].seen <= answer'[b].at /\ answer'[b].at <= now'
  BY DEF AnswerInv
<1>1. now \in Nat /\ now' \in Nat /\ now <= now'
  <2>1. now \in Nat
    BY ToolAssumption DEF TypeOK
  <2> QED
    BY <2>1, OneAtATime
<1>2. CASE answer'[b] = answer[b] /\ (pc[b] = "done" => pc'[b] = "done")
  <2>1. answer[b].seen \in Nat /\ answer[b].at \in Nat
    BY DEF TypeOK
  <2> QED
    BY <1>1, <1>2, <2>1 DEF AnswerInv
<1>3. CASE pc'[b] = "done" /\ now' = now /\ AnsweredPlainly(b)
  BY <1>1, <1>3 DEF AnsweredPlainly
<1>4. CASE pc'[b] = "done" /\ now' = now /\ AnsweredFromCache(b)
  <2>1. PICK i \in DOMAIN cache : answer'[b] = Content(cache[i].seen)
    BY <1>4 DEF AnsweredFromCache
  <2>2. cache[i] \in Entry /\ cache[i].ts <= now
    BY <2>1 DEF TypeOK, CacheInv, Elems
  <2>3. cache[i].seen <= now
    <3>1. cache[i].seen <= cache[i].ts /\ cache[i].seen \in Nat /\ cache[i].ts \in Nat
      BY <2>2 DEF CacheInv, Elems, Entry
    <3> QED
      BY <1>1, <2>2, <3>1
  <2> QED
    BY <1>1, <1>4, <2>1, <2>3 DEF Content
<1>5. CASE pc'[b] = "done" /\ now' = now /\ AnsweredByTool(b)
  <2>1. PICK seen \in since[b]..now : answer'[b] = Content(seen)
    BY <1>5 DEF AnsweredByTool
  <2> QED
    BY <1>1, <1>5, <2>1 DEF Content, TypeOK
<1> QED
  BY <1>2, <1>3, <1>4, <1>5, AnsweredOnce

\* What was in the cache or in flight when b was answered stays the only source
\* of anything older.
LEMMA OrderKept ==
  ASSUME TypeOK, CacheInv, AnswerInv, OrderInv, [Next]_vars
  PROVE  OrderInv'
<1> SUFFICES ASSUME NEW b \in Calls, answer'[b].is = "content"
             PROVE  /\ \A c \in Calls :
                         pc'[c] = "attempting" =>
                           c \in answer'[b].during \/ answer'[b].at <= since'[c]
                    /\ \A e \in Elems(cache') : e.key = KeyOf[b] =>
                         e.seen >= answer'[b].seen \/ ReadBesides(b, e.seen)'
  BY DEF OrderInv, Elems, ReadBesides
<1>1. now \in Nat /\ answer[b].seen \in Nat /\ answer[b].at \in Nat
  BY ToolAssumption DEF TypeOK
<1>2. CASE answer'[b] = answer[b]
  <2>1. pc[b] = "done" /\ answer[b].at <= now /\ answer[b].seen <= answer[b].at
    BY <1>2 DEF AnswerInv
  <2>2. ASSUME NEW c \in Calls, pc'[c] = "attempting"
        PROVE  c \in answer[b].during \/ answer[b].at <= since'[c]
    BY <1>2, <2>1, <2>2, OneAtATime DEF OrderInv
  <2>3. ASSUME NEW seen, ReadBesides(b, seen) PROVE ReadBesides(b, seen)'
    <3>1. PICK a \in answer[b].during \ {b} :
            answer[a].is = "content" /\ KeyOf[a] = KeyOf[b] /\ answer[a].seen = seen
      BY <2>3 DEF ReadBesides
    <3>2. a \in Calls /\ pc[a] = "done"
      BY <3>1 DEF AnswerInv, TypeOK
    <3>3. answer'[a] = answer[a]
      BY <3>2, AnsweredOnce
    <3> QED
      BY <1>2, <3>1, <3>3 DEF ReadBesides
  <2>4. ASSUME NEW e \in Elems(cache'), e.key = KeyOf[b]
        PROVE  e.seen >= answer[b].seen \/ ReadBesides(b, e.seen)'
    <3>1. CASE e \in Elems(cache)
      BY <1>2, <2>3, <2>4, <3>1 DEF OrderInv
    <3>2. ASSUME NEW c \in Calls, Succeed(c), e \notin Elems(cache)
          PROVE  e.seen >= answer[b].seen \/ ReadBesides(b, e.seen)'
      <4>1. PICK seen \in since[c]..now : IdemPut(KeyOf[c], seen) /\ Return(c, Content(seen))
        BY <3>2 DEF Succeed
      <4>2. since[c] \in Nat /\ seen \in Nat /\ since[c] <= seen
        BY <1>1, <4>1 DEF TypeOK
      <4>3. e = [key |-> KeyOf[c], seen |-> seen, ts |-> now]
        BY <3>2, <4>1, <4>2, Putting DEF CacheInv
      <4>4. pc[c] = "attempting" /\ c # b
        BY <2>1, <3>2 DEF Succeed
      <4>5. CASE c \in answer[b].during
        <5>1. answer'[c] = Content(seen)
          BY <4>1 DEF Return, TypeOK
        <5>2. /\ c \in answer'[b].during \ {b} /\ answer'[c].is = "content"
              /\ KeyOf[c] = KeyOf[b] /\ answer'[c].seen = e.seen
          BY <1>2, <2>4, <4>3, <4>4, <4>5, <5>1 DEF Content
        <5> QED
          BY <5>2 DEF ReadBesides
      <4>6. CASE answer[b].at <= since[c]
        BY <1>1, <2>1, <4>2, <4>3, <4>6
      <4> QED
        BY <1>2, <4>4, <4>5, <4>6 DEF OrderInv
    <3> QED
      BY <3>1, <3>2, FewerEntries DEF CacheInv
  <2> QED
    BY <1>2, <2>2, <2>4
<1>3. ASSUME NEW seen \in Nat, answer'[b] = Content(seen), pc'[b] = "done",
             \A a \in Calls \ {b} : pc'[a] = pc[a],
             \A e \in Elems(cache') : e.key = KeyOf[b] => e.seen = seen
      PROVE  /\ \A c \in Calls :
                  pc'[c] = "attempting" =>
                    c \in answer'[b].during \/ answer'[b].at <= since'[c]
             /\ \A e \in Elems(cache') : e.key = KeyOf[b] =>
                  e.seen >= answer'[b].seen \/ ReadBesides(b, e.seen)'
  <2>1. answer'[b].during = {c \in Calls : pc[c] \in InFlight} /\ answer'[b].seen = seen
    BY <1>3 DEF Content
  <2>2. ASSUME NEW c \in Calls, pc'[c] = "attempting" PROVE c \in answer'[b].during
    BY <1>3, <2>1, <2>2 DEF InFlight
  <2>3. \A e \in Elems(cache') : e.key = KeyOf[b] => e.seen >= answer'[b].seen
    BY <1>3, <2>1
  <2> QED
    BY <2>2, <2>3
<1>4. CASE AnsweredFromCache(b) /\ pc'[b] = "done" /\ \A a \in Calls \ {b} : pc'[a] = pc[a]
  <2>1. PICK i \in DOMAIN cache :
          /\ cache[i].key = KeyOf[b] /\ cache' = Append(Without(KeyOf[b]), cache[i])
          /\ answer'[b] = Content(cache[i].seen)
    BY <1>4 DEF AnsweredFromCache
  <2>2. cache[i].seen \in Nat
    <3>1. cache[i] \in Entry
      BY DEF TypeOK
    <3> QED
      BY <3>1 DEF Entry
  <2>3. \A e \in Elems(cache') : e.key = KeyOf[b] => e.seen = cache[i].seen
    BY <2>1, Getting DEF CacheInv
  <2> QED
    BY <1>3, <1>4, <2>1, <2>2, <2>3
<1>5. CASE AnsweredByTool(b) /\ pc'[b] = "done" /\ \A a \in Calls \ {b} : pc'[a] = pc[a]
  <2>1. PICK seen \in since[b]..now : IdemPut(KeyOf[b], seen) /\ answer'[b] = Content(seen)
    BY <1>5 DEF AnsweredByTool
  <2>2. seen \in Nat
    BY <1>1, <2>1 DEF TypeOK
  <2>3. \A e \in Elems(cache') : e.key = KeyOf[b] => e.seen = seen
    BY <2>1, <2>2, Putting DEF CacheInv
  <2> QED
    BY <1>3, <1>5, <2>1, <2>2, <2>3
<1>6. ~AnsweredPlainly(b)
  BY DEF AnsweredPlainly
<1> QED
  BY <1>2, <1>4, <1>5, <1>6, AnsweredOnce

\* How recent answers are, over a step.
LEMMA RecentKept ==
  ASSUME TypeOK, CacheInv, AttemptInv, AnswerInv, AnswersAreRecent, [Next]_vars
  PROVE  AnswersAreRecent'
<1> SUFFICES ASSUME NEW b \in Calls, answer'[b].is = "content"
             PROVE  answer'[b].at - answer'[b].seen < Ttl + Timeout
  BY DEF AnswersAreRecent
<1>1. now \in Nat
  BY ToolAssumption DEF TypeOK
<1>2. CASE answer'[b] = answer[b]
  BY <1>2 DEF AnswersAreRecent
<1>3. CASE AnsweredFromCache(b)
  <2>1. PICK i \in DOMAIN cache : IsFresh(cache[i]) /\ answer'[b] = Content(cache[i].seen)
    BY <1>3 DEF AnsweredFromCache
  <2>2. cache[i] \in Entry /\ cache[i] \in Elems(cache)
    BY DEF TypeOK, Elems
  <2>3. /\ cache[i].ts \in Nat /\ cache[i].seen \in Nat
        /\ cache[i].ts - cache[i].seen <= Timeout /\ now - cache[i].ts < Ttl
    BY <2>1, <2>2 DEF CacheInv, Entry, IsFresh
  <2>4. now - cache[i].seen < Ttl + Timeout
    BY <1>1, <2>3, ToolAssumption
  <2> QED
    BY <2>1, <2>4 DEF Content
<1>4. CASE AnsweredByTool(b)
  <2>1. PICK seen \in since[b]..now : pc[b] = "attempting" /\ answer'[b] = Content(seen)
    BY <1>4 DEF AnsweredByTool
  <2>2. since[b] \in Nat /\ now <= since[b] + Timeout
    BY <2>1 DEF AttemptInv, TypeOK
  <2>3. now - seen < Ttl + Timeout
    BY <1>1, <2>1, <2>2, ToolAssumption
  <2> QED
    BY <2>1, <2>3 DEF Content
<1>5. ~AnsweredPlainly(b)
  BY DEF AnsweredPlainly
<1> QED
  BY <1>2, <1>3, <1>4, <1>5, AnsweredOnce

\* An older answer comes from an overlapping call, over a step.
LEMMA NewerKept ==
  ASSUME TypeOK, CacheInv, AnswerInv, OrderInv, NewerUnlessOverlapped, [Next]_vars
  PROVE  NewerUnlessOverlapped'
<1> SUFFICES ASSUME NEW b \in Calls, NEW c \in Calls,
                    answer'[b].is = "content", answer'[c].is = "content",
                    c \in answer'[b].before, KeyOf[c] = KeyOf[b],
                    answer'[c].seen < answer'[b].seen
             PROVE  \E a \in answer'[b].during \ {b} :
                      /\ answer'[a].is = "content" /\ KeyOf[a] = KeyOf[c]
                      /\ answer'[a].seen = answer'[c].seen
  BY DEF NewerUnlessOverlapped
<1>1. /\ answer[b].seen \in Nat /\ answer[b].at \in Nat /\ now \in Nat
  <2>1. answer[b].seen \in Nat /\ answer[b].at \in Nat
    BY DEF TypeOK
  <2>2. now \in Nat
    BY ToolAssumption DEF TypeOK
  <2> QED
    BY <2>1, <2>2
<1>2. ASSUME NEW a \in Calls, answer[a].is = "content" PROVE answer'[a] = answer[a] /\ pc[a] = "done"
  <2>1. pc[a] = "done"
    BY <1>2 DEF AnswerInv
  <2> QED
    BY <2>1, AnsweredOnce
<1>3. CASE answer'[b] = answer[b]
  <2>1. pc[b] = "done" /\ answer[b].seen <= answer[b].at
    BY <1>2, <1>3 DEF AnswerInv
  <2>2. ASSUME ReadBesides(b, answer'[c].seen)
        PROVE  \E a \in answer'[b].during \ {b} :
                 /\ answer'[a].is = "content" /\ KeyOf[a] = KeyOf[c]
                 /\ answer'[a].seen = answer'[c].seen
    BY <1>2, <1>3, <2>2 DEF ReadBesides, TypeOK
  <2>3. CASE answer'[c] = answer[c]
    BY <1>2, <1>3, <2>2, <2>3 DEF NewerUnlessOverlapped, ReadBesides
  <2>4. CASE AnsweredFromCache(c)
    <3>1. PICK i \in DOMAIN cache : cache[i].key = KeyOf[c] /\ answer'[c] = Content(cache[i].seen)
      BY <2>4 DEF AnsweredFromCache
    <3>2. cache[i].seen \in Nat /\ cache[i] \in Elems(cache) /\ answer'[c].seen = cache[i].seen
      <4>1. cache[i] \in Entry /\ cache[i] \in Elems(cache)
        BY DEF TypeOK, Elems
      <4> QED
        BY <3>1, <4>1 DEF Entry, Content
    <3>3. ~(cache[i].seen >= answer[b].seen)
      BY <1>1, <1>3, <3>2
    <3> QED
      BY <1>3, <2>2, <3>1, <3>2, <3>3 DEF OrderInv
  <2>5. CASE AnsweredByTool(c) /\ answer'[c] # answer[c]
    <3>1. PICK seen \in since[c]..now : pc[c] = "attempting" /\ answer'[c] = Content(seen)
      BY <2>5 DEF AnsweredByTool
    <3>2. seen \in Nat /\ since[c] \in Nat /\ since[c] <= seen /\ answer'[c].seen = seen
      BY <1>1, <3>1 DEF TypeOK, Content
    <3>3. ~(answer[b].at <= since[c])
      BY <1>1, <1>3, <2>1, <3>2
    <3>4. c \in answer[b].during \ {b}
      BY <1>3, <2>1, <3>1, <3>3 DEF OrderInv
    <3> QED
      BY <1>3, <3>4
  <2>6. ~AnsweredPlainly(c)
    BY DEF AnsweredPlainly
  <2> QED
    BY <2>3, <2>4, <2>5, <2>6, AnsweredOnce
<1>4. CASE answer'[b] # answer[b]
  <2>1. answer'[b].before = {a \in Calls : pc[a] = "idle"}
    <3>1. AnsweredFromCache(b) \/ AnsweredByTool(b)
      BY <1>4, AnsweredOnce DEF AnsweredPlainly
    <3>2. \E seen : answer'[b] = Content(seen)
      BY <3>1 DEF AnsweredFromCache, AnsweredByTool
    <3>3. \A seen : Content(seen).before = {a \in Calls : pc[a] = "idle"}
      BY DEF Content
    <3> QED
      BY <3>2, <3>3
  <2>2. pc[c] = "idle" /\ pc[c] # "done"
    BY <2>1
  <2>3. answer'[c] # answer[c]
    BY <1>2, <2>2
  <2>4. AnsweredFromCache(c) \/ AnsweredByTool(c)
    BY <2>3, AnsweredOnce DEF AnsweredPlainly
  <2> QED
    BY <2>2, <2>4 DEF AnsweredFromCache, AnsweredByTool
<1> QED
  BY <1>3, <1>4

-----------------------------------------------------------------------------
\* The invariant the two properties of answers rest on.
THEOREM CallsInvariant == Spec => [](TypeOK /\ CallsInv)
<1>1. Init => TypeOK /\ CallsInv
  <2> SUFFICES ASSUME Init PROVE TypeOK /\ CallsInv
    OBVIOUS
  <2>1. TypeOK
    BY ToolAssumption DEF Init, TypeOK, NoResult, Plain
  <2>2. Elems(cache) = {} /\ Unique(cache)
    BY DEF Init, Elems, Unique
  <2>3. \A b \in Calls : answer[b] = NoResult
    BY DEF Init
  <2>4. \A b \in Calls :
          answer[b].is = "none" /\ answer[b].seen = 0 /\ answer[b].at = 0 /\ now = 0 /\ pc[b] = "idle"
    BY <2>3 DEF NoResult, Plain, Init
  <2> QED
    BY <2>1, <2>2, <2>4 DEF CallsInv, CacheInv, AttemptInv, AnswerInv, OrderInv
<1>2. TypeOK /\ CallsInv /\ [Next]_vars => (TypeOK /\ CallsInv)'
  BY TypesAreKept, CacheKept, AttemptsKept, AnswersKept, OrderKept DEF CallsInv, CacheInv
<1> QED
  BY <1>1, <1>2, PTL DEF Spec

\* Whatever is put, used and evicted: a cached answer is never older than the TTL
\* and one timeout.
THEOREM RecentAnswers == Spec => []AnswersAreRecent
<1>1. Init => AnswersAreRecent
  BY DEF Init, AnswersAreRecent, NoResult, Plain
<1>2. TypeOK /\ CallsInv /\ AnswersAreRecent /\ [Next]_vars => AnswersAreRecent'
  BY RecentKept DEF CallsInv
<1> QED
  BY <1>1, <1>2, CallsInvariant, PTL DEF Spec

\* A call sees an older world than an earlier answer only by way of a call that
\* overlapped with that answer.
THEOREM OlderOnlyByOverlap == Spec => []NewerUnlessOverlapped
<1>1. Init => NewerUnlessOverlapped
  BY DEF Init, NewerUnlessOverlapped, NoResult, Plain
<1>2. TypeOK /\ CallsInv /\ NewerUnlessOverlapped /\ [Next]_vars => NewerUnlessOverlapped'
  BY NewerKept DEF CallsInv
<1> QED
  BY <1>1, <1>2, CallsInvariant, PTL DEF Spec

-----------------------------------------------------------------------------
\* The failures counted are the outcomes since the last success or closing.
FailInv ==
  /\ Len(failures) <= Len(outcomes)
  /\ \A j \in 1..Len(failures) :
       /\ outcomes[Len(outcomes) - Len(failures) + j].failed
       /\ outcomes[Len(outcomes) - Len(failures) + j].at = failures[j]
  /\ \A i, j \in 1..Len(failures) : i <= j => failures[i] <= failures[j]
  /\ \A j \in 1..Len(failures) : failures[j] <= now

\* An outcome with which the breaker had reason to open.
Opened(q, last) ==
  /\ last \in Threshold..Len(q)
  /\ \A i \in (last - Threshold + 1)..last : q[i].failed /\ q[last].at - q[i].at <= Window

BreakerInv ==
  /\ FailInv
  /\ \A i \in 1..Len(outcomes) : outcomes[i].at <= now
  /\ openUntil # 0 => \E last \in 1..Len(outcomes) :
                       Opened(outcomes, last) /\ openUntil = outcomes[last].at + Cooldown

\* A reason stays a reason as more outcomes come in.
LEMMA OpenedLonger ==
  ASSUME TypeOK, NEW r \in [at : Nat, failed : BOOLEAN], outcomes' = Append(outcomes, r),
         NEW last \in 1..Len(outcomes)
  PROVE  /\ last \in 1..Len(outcomes') /\ outcomes'[last] = outcomes[last]
         /\ Opened(outcomes, last) => Opened(outcomes', last)
<1>1. /\ Len(outcomes) \in Nat /\ Len(outcomes') = Len(outcomes) + 1
      /\ \A i \in 1..Len(outcomes) : outcomes'[i] = outcomes[i]
  BY DEF TypeOK
<1>2. \A i \in (last - Threshold + 1)..last : last >= Threshold => i \in 1..Len(outcomes)
  BY <1>1, ToolAssumption
<1> QED
  BY <1>1, <1>2, ToolAssumption DEF Opened

\* A failure that is recorded.
LEMMA FailureKept ==
  ASSUME TypeOK, BreakerInv, CbRecordFailure, now' = now,
         outcomes' = Append(outcomes, [at |-> now, failed |-> TRUE])
  PROVE  BreakerInv'
<1> DEFINE all == Append(failures, now)
           f == Len(failures)
           n == Len(outcomes)
<1>1. now \in Nat /\ f \in Nat /\ n \in Nat /\ f <= n
  BY ToolAssumption DEF TypeOK, BreakerInv, FailInv
<1>2. /\ all \in Seq(Nat) /\ Len(all) = f + 1 /\ DOMAIN all = 1..(f + 1) /\ all[f + 1] = now
      /\ \A m \in 1..f : all[m] = failures[m]
  BY <1>1 DEF TypeOK
<1>3. /\ Len(outcomes') = n + 1 /\ outcomes'[n + 1] = [at |-> now, failed |-> TRUE]
      /\ \A i \in 1..n : outcomes'[i] = outcomes[i]
  BY <1>1 DEF TypeOK
<1>4. PICK first \in DOMAIN all :
        /\ now - all[first] <= Window
        /\ failures' = SubSeq(all, first, Len(all))
        /\ openUntil' = IF Len(all) - first + 1 >= Threshold THEN now + Cooldown ELSE openUntil
  BY DEF CbRecordFailure
<1>5. \A m \in 1..f : /\ outcomes[n - f + m].failed /\ outcomes[n - f + m].at = failures[m]
                       /\ failures[m] \in Nat /\ failures[m] <= now
  <2>1. \A m \in 1..f : failures[m] \in Nat
    <3>1. failures \in Seq(Nat)
      BY DEF TypeOK
    <3> QED
      BY <3>1
  <2> QED
    BY <2>1 DEF BreakerInv, FailInv
<1>6. \A i, j \in 1..f : i <= j => failures[i] <= failures[j]
  BY DEF BreakerInv, FailInv
<1> HIDE DEF all, f, n
<1>7. ASSUME NEW m \in 1..(f + 1)
      PROVE  /\ n - f + m \in 1..(n + 1)
             /\ outcomes'[n - f + m].failed /\ outcomes'[n - f + m].at = all[m]
             /\ all[m] \in Nat /\ all[m] <= now
  <2>1. n - f + m \in 1..(n + 1)
    BY <1>1
  <2>2. CASE m \in 1..f
    <3>1. n - f + m \in 1..n
      BY <1>1, <2>2
    <3> QED
      BY <1>2, <1>3, <1>5, <2>1, <2>2, <3>1
  <2>3. CASE m = f + 1
    <3>1. n - f + m = n + 1
      BY <1>1, <2>3
    <3> QED
      BY <1>1, <1>2, <1>3, <2>1, <2>3, <3>1
  <2>4. m \in 1..f \/ m = f + 1
    BY <1>1
  <2> QED
    BY <2>2, <2>3, <2>4
<1>8. ASSUME NEW i \in 1..(f + 1), NEW j \in 1..(f + 1), i <= j PROVE all[i] <= all[j]
  <2>1. CASE j = f + 1
    BY <1>2, <1>7, <2>1
  <2>2. CASE j # f + 1
    <3>1. i \in 1..f /\ j \in 1..f
      BY <1>1, <1>8, <2>2
    <3> QED
      BY <1>2, <1>6, <1>8, <3>1
  <2> QED
    BY <2>1, <2>2
<1>9. first \in 1..(f + 1)
  BY <1>2, <1>4
<1> DEFINE l == f + 1 - first + 1
<1>10. /\ l \in Nat /\ Len(failures') = l
       /\ \A j \in 1..l : failures'[j] = all[first + j - 1]
  <2> DEFINE g == f + 1
  <2>1. first \in Int /\ g \in Int /\ \A j \in first..g : all[j] \in Nat
    BY <1>1, <1>7, <1>9
  <2> HIDE DEF g
  <2>2. /\ SubSeq(all, first, g) \in Seq(Nat)
        /\ Len(SubSeq(all, first, g)) = IF first <= g THEN g - first + 1 ELSE 0
        /\ \A j \in 1..(g - first + 1) : SubSeq(all, first, g)[j] = all[first + j - 1]
    BY <2>1, SubSeqProperties
  <2>3. failures' = SubSeq(all, first, g) /\ first <= g
    BY <1>1, <1>2, <1>4, <1>9 DEF g
  <2>4. l \in Nat /\ l = g - first + 1
    BY <1>1, <1>9 DEF g
  <2> HIDE DEF l
  <2> QED
    BY <2>2, <2>3, <2>4
<1>11. ASSUME NEW j \in 1..l
       PROVE  /\ first + j - 1 \in 1..(f + 1)
              /\ n - f + (first + j - 1) = (n + 1) - l + j
  BY <1>1, <1>9
<1>12. l <= n + 1
  BY <1>1, <1>9
<1>13. l = Len(all) - first + 1
  BY <1>1, <1>2, <1>9
<1> HIDE DEF l
<1>14. FailInv'
  <2>1. \A j \in 1..l :
          /\ outcomes'[(n + 1) - l + j].failed /\ outcomes'[(n + 1) - l + j].at = failures'[j]
          /\ failures'[j] <= now
    <3> SUFFICES ASSUME NEW j \in 1..l
                 PROVE  /\ outcomes'[(n + 1) - l + j].failed
                        /\ outcomes'[(n + 1) - l + j].at = failures'[j]
                        /\ failures'[j] <= now
      OBVIOUS
    <3> DEFINE m == first + j - 1
    <3>1. m \in 1..(f + 1) /\ n - f + m = (n + 1) - l + j /\ failures'[j] = all[m]
      BY <1>10, <1>11
    <3> HIDE DEF m
    <3> QED
      BY <1>7, <3>1
  <2>2. ASSUME NEW i \in 1..l, NEW j \in 1..l, i <= j PROVE failures'[i] <= failures'[j]
    <3>1. first + i - 1 <= first + j - 1
      BY <1>9, <1>10, <2>2
    <3> QED
      BY <1>8, <1>10, <1>11, <3>1
  <2>3. Len(outcomes') = n + 1 /\ Len(failures') = l /\ now' = now
    BY <1>3, <1>10
  <2>4. Len(failures') <= Len(outcomes')
    BY <1>12, <2>3
  <2>5. \A j \in 1..Len(failures') :
          /\ outcomes'[Len(outcomes') - Len(failures') + j].failed
          /\ outcomes'[Len(outcomes') - Len(failures') + j].at = failures'[j]
          /\ failures'[j] <= now'
    BY <2>1, <2>3
  <2>6. \A i, j \in 1..Len(failures') : i <= j => failures'[i] <= failures'[j]
    BY <2>2, <2>3
  <2> QED
    BY <2>4, <2>5, <2>6 DEF FailInv
<1>15. \A i \in 1..Len(outcomes') : outcomes'[i].at <= now'
  <2>1. \A i \in 1..n : outcomes[i].at <= now
    BY DEF BreakerInv, n
  <2>2. \A i \in 1..(n + 1) : i \in 1..n \/ i = n + 1
    BY <1>1
  <2> QED
    BY <1>1, <1>3, <2>1, <2>2
<1>16. CASE l >= Threshold
  <2>1. openUntil' = now + Cooldown
    BY <1>4, <1>13, <1>16
  <2>2. n + 1 \in Threshold..(n + 1)
    BY <1>1, <1>10, <1>12, <1>16, ToolAssumption
  <2>3. ASSUME NEW i \in ((n + 1) - Threshold + 1)..(n + 1)
        PROVE  outcomes'[i].failed /\ outcomes'[n + 1].at - outcomes'[i].at <= Window
    <3> DEFINE m == i - (n - f)
    <3>1. m \in first..(f + 1) /\ n - f + m = i
      BY <1>1, <1>9, <1>10, <1>16, <2>3, ToolAssumption DEF l
    <3> HIDE DEF m
    <3>2. m \in 1..(f + 1) /\ first <= m
      BY <1>9, <3>1
    <3>3. outcomes'[i].failed /\ outcomes'[i].at = all[m] /\ all[m] \in Nat /\ all[first] \in Nat
      BY <1>7, <1>9, <3>1, <3>2
    <3>4. all[first] <= all[m]
      BY <1>8, <1>9, <3>2
    <3>5. now - all[m] <= Window
      BY <1>1, <1>4, <3>3, <3>4, ToolAssumption
    <3>6. outcomes'[n + 1].at = now
      BY <1>3
    <3> QED
      BY <3>3, <3>5, <3>6
  <2>4. Opened(outcomes', n + 1)
    BY <1>3, <2>2, <2>3 DEF Opened
  <2>5. n + 1 \in 1..Len(outcomes') /\ openUntil' = outcomes'[n + 1].at + Cooldown
    BY <1>1, <1>3, <2>1
  <2> QED
    BY <1>14, <1>15, <2>4, <2>5 DEF BreakerInv, Opened
<1>17. CASE ~(l >= Threshold)
  <2>1. openUntil' = openUntil
    BY <1>4, <1>13, <1>17
  <2>2. \A last \in 1..Len(outcomes) :
          /\ last \in 1..Len(outcomes') /\ outcomes'[last] = outcomes[last]
          /\ Opened(outcomes, last) => Opened(outcomes', last)
    <3>1. [at |-> now, failed |-> TRUE] \in [at : Nat, failed : BOOLEAN]
      BY <1>1
    <3> QED
      BY <3>1, OpenedLonger
  <2> QED
    BY <1>14, <1>15, <2>1, <2>2 DEF BreakerInv, Opened
<1> QED
  BY <1>16, <1>17

\* The breaker's own state, over every step.
LEMMA BreakerKept ==
  ASSUME TypeOK, BreakerInv, [Next]_vars
  PROVE  BreakerInv'
<1>1. now \in Nat /\ now' \in Nat /\ now <= now'
  <2>1. now \in Nat
    BY ToolAssumption DEF TypeOK
  <2> QED
    BY <2>1, OneAtATime
<1>2. CASE UNCHANGED <<failures, openUntil, outcomes>>
  <2>1. \A i \in 1..Len(outcomes) : outcomes[i].at <= now'
    <3>1. \A i \in 1..Len(outcomes) : outcomes[i].at \in Nat /\ outcomes[i].at <= now
      <4> DEFINE O == [at : Nat, failed : BOOLEAN]
      <4>1. \A o \in O : o.at \in Nat
        OBVIOUS
      <4>2. outcomes \in Seq(O)
        BY DEF TypeOK
      <4> HIDE DEF O
      <4> QED
        BY <4>1, <4>2 DEF BreakerInv
    <3> QED
      BY <1>1, <3>1
  <2>2. \A i \in 1..Len(failures) : failures[i] <= now'
    <3>1. \A i \in 1..Len(failures) : failures[i] \in Nat /\ failures[i] <= now
      <4>1. failures \in Seq(Nat)
        BY DEF TypeOK
      <4>2. \A i \in 1..Len(failures) : failures[i] \in Nat
        BY <4>1
      <4> QED
        BY <4>2 DEF BreakerInv, FailInv
    <3> QED
      BY <1>1, <3>1
  <2> QED
    BY <1>2, <2>1, <2>2 DEF BreakerInv, FailInv, Opened
<1>3. ASSUME NEW c \in Calls, BeginAttempts(c) PROVE BreakerInv'
  <2>1. /\ now' = now /\ outcomes' = outcomes /\ openUntil' = 0
        /\ failures' = failures \/ failures' = <<>>
    BY <1>3 DEF BeginAttempts
  <2>2. Len(<<>>) = 0 /\ Len(outcomes) \in Nat
    BY DEF TypeOK
  <2>3. FailInv'
    <3>1. CASE failures' = failures
      BY <2>1, <3>1 DEF BreakerInv, FailInv
    <3>2. CASE failures' = <<>>
      BY <2>1, <2>2, <3>2 DEF FailInv
    <3> QED
      BY <2>1, <3>1, <3>2
  <2> QED
    BY <2>1, <2>3 DEF BreakerInv
<1>4. ASSUME NEW c \in Calls, Succeed(c) PROVE BreakerInv'
  <2> DEFINE r == [at |-> now, failed |-> FALSE]
  <2>1. /\ now' = now /\ outcomes' = Append(outcomes, r) /\ openUntil' = openUntil
        /\ failures' = <<>> /\ r \in [at : Nat, failed : BOOLEAN] /\ r.at = now
    BY <1>1, <1>4 DEF Succeed, CbRecordSuccess, Return
  <2> HIDE DEF r
  <2>2. /\ Len(outcomes) \in Nat /\ Len(outcomes') = Len(outcomes) + 1
        /\ outcomes'[Len(outcomes) + 1] = r
        /\ \A i \in 1..Len(outcomes) : outcomes'[i] = outcomes[i]
    BY <2>1 DEF TypeOK
  <2>3. FailInv'
    BY <2>1, <2>2 DEF FailInv
  <2>4. \A i \in 1..Len(outcomes') : outcomes'[i].at <= now'
    <3>1. \A i \in 1..Len(outcomes') : i \in 1..Len(outcomes) \/ i = Len(outcomes) + 1
      BY <2>2
    <3> QED
      BY <1>1, <2>1, <2>2, <3>1 DEF BreakerInv
  <2>5. \A last \in 1..Len(outcomes) :
          /\ last \in 1..Len(outcomes') /\ outcomes'[last] = outcomes[last]
          /\ Opened(outcomes, last) => Opened(outcomes', last)
    BY <2>1, OpenedLonger
  <2> QED
    BY <2>1, <2>3, <2>4, <2>5 DEF BreakerInv, Opened
<1>5. ASSUME NEW c \in Calls, LastAttemptFails(c) PROVE BreakerInv'
  BY <1>5, FailureKept DEF LastAttemptFails, Return
<1> QED
  BY <1>2, <1>3, <1>4, <1>5 DEF Next, vars, Execute, Refuse, CacheHit, CircuitOpen, AttemptFails,
     Wake, Cancel, Tick

\* A call that was skipped had reason to be, over every step.
LEMMA SkipsKept ==
  ASSUME TypeOK, AnswerInv, BreakerInv, SkipsAreEarned, [Next]_vars
  PROVE  SkipsAreEarned'
<1> DEFINE Reason(q, at) ==
      \E last \in Threshold..Len(q) :
        /\ q[last].at <= at /\ at < q[last].at + Cooldown
        /\ \A i \in (last - Threshold + 1)..last : q[i].failed /\ q[last].at - q[i].at <= Window
<1>1. Len(outcomes) \in Nat
  BY DEF TypeOK
<1>2. ASSUME NEW at, Reason(outcomes, at) PROVE Reason(outcomes', at)
  <2>1. PICK last \in Threshold..Len(outcomes) :
          /\ outcomes[last].at <= at /\ at < outcomes[last].at + Cooldown
          /\ \A i \in (last - Threshold + 1)..last :
               outcomes[i].failed /\ outcomes[last].at - outcomes[i].at <= Window
    BY <1>2
  <2>2. last \in 1..Len(outcomes) /\ Opened(outcomes, last)
    BY <1>1, <2>1, ToolAssumption DEF Opened
  <2>3. CASE outcomes' = outcomes
    BY <1>2, <2>3
  <2>4. ASSUME NEW r \in [at : Nat, failed : BOOLEAN], outcomes' = Append(outcomes, r)
        PROVE  Reason(outcomes', at)
    <3>1. outcomes'[last] = outcomes[last] /\ Opened(outcomes', last)
      BY <2>2, <2>4, OpenedLonger
    <3> QED
      BY <2>1, <3>1 DEF Opened
  <2>5. outcomes' = outcomes
        \/ \E r \in [at : Nat, failed : BOOLEAN] : outcomes' = Append(outcomes, r)
    <3>1. now \in Nat
      BY ToolAssumption DEF TypeOK
    <3>2. /\ [at |-> now, failed |-> FALSE] \in [at : Nat, failed : BOOLEAN]
          /\ [at |-> now, failed |-> TRUE] \in [at : Nat, failed : BOOLEAN]
      BY <3>1
    <3> QED
      BY <3>2 DEF Next, vars, Execute, Refuse, CacheHit, CircuitOpen, BeginAttempts, Succeed,
         AttemptFails, Wake, LastAttemptFails, Cancel, Tick
  <2> QED
    BY <2>3, <2>4, <2>5
<1>3. ASSUME NEW c \in Calls, answer'[c].is = "skip" PROVE Reason(outcomes', answer'[c].at)
  <2>1. CASE answer'[c] = answer[c]
    <3>1. Reason(outcomes, answer[c].at)
      BY <1>3, <2>1 DEF SkipsAreEarned
    <3> HIDE DEF Reason
    <3> QED
      BY <1>2, <2>1, <3>1
  <2>2. CASE answer'[c] # answer[c]
    <3>1. CircuitOpen(c)
      <4>1. ASSUME NEW d \in Calls, NEW r, Return(d, r), r.is # "skip" PROVE FALSE
        <5>1. c = d => answer'[c] = r
          BY <4>1 DEF Return, TypeOK
        <5>2. c # d => answer'[c] = answer[c]
          BY <4>1 DEF Return, TypeOK
        <5> QED
          BY <1>3, <2>2, <4>1, <5>1, <5>2
      <4>2. Error.is # "skip" /\ NoResult.is # "skip" /\ \A seen : Content(seen).is # "skip"
        BY DEF Error, NoResult, Plain, Content
      <4>3. ASSUME NEW d \in Calls,
                   Refuse(d) \/ CacheHit(d) \/ Succeed(d) \/ LastAttemptFails(d) \/ Cancel(d)
            PROVE  \E r : Return(d, r) /\ r.is # "skip"
        BY <4>2, <4>3 DEF Refuse, CacheHit, IdemGet, Succeed, LastAttemptFails, Cancel
      <4>4. PICK d \in Calls : CircuitOpen(d)
        BY <2>2, <4>1, <4>3 DEF Next, vars, Execute, BeginAttempts, AttemptFails, Wake, Tick
      <4>5. c # d => answer'[c] = answer[c]
        BY <4>4 DEF CircuitOpen, Return, TypeOK
      <4> QED
        BY <2>2, <4>4, <4>5
    <3>2. /\ now < openUntil /\ UNCHANGED outcomes /\ answer'[c] = Plain("skip", now)
      BY <3>1 DEF CircuitOpen, Return, TypeOK
    <3>3. now \in Nat /\ openUntil # 0 /\ answer'[c].at = now
      BY <3>2, ToolAssumption DEF TypeOK, Plain
    <3>4. PICK last \in 1..Len(outcomes) :
            Opened(outcomes, last) /\ openUntil = outcomes[last].at + Cooldown
      BY <3>3 DEF BreakerInv
    <3>5. outcomes[last].at <= now
      BY DEF BreakerInv
    <3> QED
      BY <3>2, <3>3, <3>4, <3>5 DEF Opened
  <2> QED
    BY <2>1, <2>2
<1> QED
  BY <1>3 DEF SkipsAreEarned

\* A call is refused by the breaker only for Threshold failures in a row, within
\* the window and less than a cooldown ago.
THEOREM SkipsHaveReasons == Spec => []SkipsAreEarned
<1>1. Init => BreakerInv /\ SkipsAreEarned
  <2> SUFFICES ASSUME Init PROVE BreakerInv /\ SkipsAreEarned
    OBVIOUS
  <2>1. Len(failures) = 0 /\ Len(outcomes) = 0 /\ openUntil = 0
    BY DEF Init
  <2> QED
    BY <2>1 DEF Init, BreakerInv, FailInv, SkipsAreEarned, NoResult, Plain
<1>2. TypeOK /\ CallsInv /\ BreakerInv /\ SkipsAreEarned /\ [Next]_vars
        => (BreakerInv /\ SkipsAreEarned)'
  BY BreakerKept, SkipsKept DEF CallsInv
<1> QED
  BY <1>1, <1>2, CallsInvariant, PTL DEF Spec

=============================================================================
