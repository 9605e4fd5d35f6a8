------------------------------- MODULE Outbox -------------------------------
(***************************************************************************)
(* OutboxPattern: the outbox and outbox_dlq tables, and workers            *)
(* (run_worker in several processes on the same file) that poll, publish   *)
(* and mark.                                                               *)
(*                                                                         *)
(* Every SELECT and every transaction is a step of its own: between a      *)
(* worker's poll, the return of the publisher, the SELECT of mark_failed   *)
(* and its writes, and between the two of requeue_from_dlq, any other      *)
(* process may run, and the worker may be killed.  An event is named by    *)
(* the id of the row that first held it, a row of outbox_dlq by its        *)
(* original_id and the worker that wrote it, which never polls that id     *)
(* again.  The retry delay is a flag that time clears.                     *)
(***************************************************************************)
EXTENDS Integers, Sequences, FiniteSets

CONSTANTS
  Workers,
  Operators,     \* callers of requeue_from_dlq
  MaxRetries,    \* max_retries
  BatchSize,     \* batch_size
  MaxInserts,    \* bound: rows ever inserted in outbox
  MaxErrors      \* bound: kills, stops, database errors

ASSUME OutboxAssumption ==
  /\ IsFiniteSet(Workers)
  /\ MaxRetries \in Nat \ {0} /\ BatchSize \in Nat \ {0}
  /\ MaxInserts \in Nat /\ MaxErrors \in Nat

VARIABLES
  outbox,      \* the outbox table, by id; a deleted row keeps its place
  dlq,         \* the outbox_dlq table: for each original_id, who wrote its rows
  picked,      \* the row that requeue_from_dlq of an operator has read, or none
  running,     \* _running of each worker
  phase,       \* where a worker is in process_once
  batch,       \* ids it polled and has not finished; it takes them in order
  seen,        \* retry_count that mark_failed read
  errors,      \* counter for the bound
  delivered,   \* history: events the publisher has delivered
  failures,    \* history: failed attempts at each id, up to MaxRetries
  shared       \* history: ids that two workers held at once

worker == <<phase, batch, seen>>
history == <<delivered, failures, shared>>
outboxVars == <<outbox, dlq, picked, running, worker, errors, history>>

Ids == DOMAIN outbox

\* A row of event e as INSERT makes it.
NewEvent(e) == [event |-> e, published |-> FALSE, gone |-> FALSE, retries |-> 0, waiting |-> FALSE]

\* All that is left of a deleted row is which event it was.
Deleted(r) == [NewEvent(r.event) EXCEPT !.gone = TRUE]

OutboxInit ==
  /\ outbox = <<>>
  /\ dlq = [i \in 1..MaxInserts |-> {}]
  /\ picked = [o \in Operators |-> {}]
  /\ running = [w \in Workers |-> TRUE]
  /\ phase = [w \in Workers |-> "poll"]
  /\ batch = [w \in Workers |-> {}]
  /\ seen = [w \in Workers |-> 0]
  /\ errors = 0
  /\ delivered = {}
  /\ failures = [i \in 1..MaxInserts |-> 0]
  /\ shared = {}

-----------------------------------------------------------------------------
(* Writers and operators.                                                  *)

\* write (k = 1) or write_batch, in one transaction of their own.
Write(k) ==
  /\ Len(outbox) + k <= MaxInserts
  /\ outbox' = outbox \o [j \in 1..k |-> NewEvent(Len(outbox) + j)]
  /\ UNCHANGED <<dlq, picked, running, worker, errors, history>>

\* requeue_from_dlq: its SELECT of a row.
PickDead(o) ==
  /\ picked[o] = {}
  /\ \E i \in Ids : \E w \in dlq[i] : picked' = [picked EXCEPT ![o] = {<<i, w>>}]
  /\ UNCHANGED <<outbox, dlq, running, worker, errors, history>>

\* And its transaction: a new row, a new id, no retries yet, whatever has become
\* of the row that it read; the DELETE of one that is gone does nothing.
Requeue(o) ==
  /\ Len(outbox) < MaxInserts
  /\ \E i \in Ids, w \in Workers :
       /\ picked[o] = {<<i, w>>}
       /\ outbox' = Append(outbox, NewEvent(outbox[i].event))
       /\ dlq' = [dlq EXCEPT ![i] = @ \ {w}]
  /\ picked' = [picked EXCEPT ![o] = {}]
  /\ UNCHANGED <<running, worker, errors, history>>

-----------------------------------------------------------------------------
(* process_once of one worker.                                             *)

First(S) == CHOOSE i \in S : \A j \in S : i <= j

\* Mutant: the query forgets published=0.
ReadyAgain == {i \in Ids : ~outbox[i].gone /\ ~outbox[i].waiting}

Ready == {i \in Ids : ~outbox[i].gone /\ ~outbox[i].published /\ ~outbox[i].waiting}

FirstRows(S) == {i \in S : Cardinality({j \in S : j < i}) < BatchSize}

\* poll_unpublished.  An empty batch is a sleep.
Poll(w) ==
  /\ phase[w] = "poll" /\ running[w]
  /\ Ready # {}
  /\ batch' = [batch EXCEPT ![w] = FirstRows(Ready)]
  /\ phase' = [phase EXCEPT ![w] = "publish"]
  /\ shared' = shared \cup {i \in FirstRows(Ready) : \E u \in Workers : i \in batch[u]}
  /\ UNCHANGED <<outbox, dlq, picked, running, seen, errors, delivered, failures>>

Current(w) == First(batch[w])

\* The next event of the batch, or the next poll.
NextEvent(w) ==
  /\ batch' = [batch EXCEPT ![w] = @ \ {Current(w)}]
  /\ phase' = [phase EXCEPT ![w] = IF batch[w] = {Current(w)} THEN "poll" ELSE "publish"]
  /\ seen' = [seen EXCEPT ![w] = 0]

\* The publisher returns.
Publish(w) ==
  /\ phase[w] = "publish"
  /\ delivered' = delivered \cup {outbox[Current(w)].event}
  /\ phase' = [phase EXCEPT ![w] = "mark"]
  /\ UNCHANGED <<outbox, dlq, picked, running, batch, seen, errors, failures, shared>>

\* Mutant: the exception of the publisher is swallowed before the mark.
AttemptedSwallowed(w) ==
  /\ phase' = [phase EXCEPT ![w] = "mark"]
  /\ UNCHANGED failures

\* The attempt has failed and mark_failed is called.
Attempted(w) ==
  /\ phase' = [phase EXCEPT ![w] = "select"]
  /\ failures' = [failures EXCEPT ![Current(w)] = IF @ < MaxRetries THEN @ + 1 ELSE @]

\* The publisher raises, before or after it delivered.
PublishRaises(w, landed) ==
  /\ phase[w] = "publish"
  /\ delivered' = IF landed THEN delivered \cup {outbox[Current(w)].event} ELSE delivered
  /\ Attempted(w)
  /\ UNCHANGED <<outbox, dlq, picked, running, batch, seen, errors, shared>>

\* mark_published, inside the try; it changes nothing if the row was deleted.
Mark(w) ==
  /\ phase[w] = "mark"
  /\ outbox' = IF outbox[Current(w)].gone THEN outbox
             ELSE [outbox EXCEPT ![Current(w)].published = TRUE, ![Current(w)].waiting = FALSE]
  /\ NextEvent(w)
  /\ UNCHANGED <<dlq, picked, running, errors, history>>

\* A database error of mark_published counts as a failure of the publisher.
MarkRaises(w) ==
  /\ phase[w] = "mark"
  /\ errors < MaxErrors /\ errors' = errors + 1
  /\ Attempted(w)
  /\ UNCHANGED <<outbox, dlq, picked, running, batch, seen, delivered, shared>>

\* mark_failed: its SELECT, and the return if the row was deleted.
ReadRetries(w) ==
  /\ phase[w] = "select"
  /\ IF outbox[Current(w)].gone
     THEN NextEvent(w)
     ELSE /\ seen' = [seen EXCEPT ![w] = outbox[Current(w)].retries]
          /\ phase' = [phase EXCEPT ![w] = "fail"]
          /\ UNCHANGED batch
  /\ UNCHANGED <<outbox, dlq, picked, running, errors, history>>

\* Mutant: one retry too few.
GivesUpEarly(w) == seen[w] + 2 >= MaxRetries

\* Mutant: one retry too many.
GivesUpLate(w) == seen[w] + 1 > MaxRetries

GivesUp(w) == seen[w] + 1 >= MaxRetries


\* The UPDATE leaves published alone; a delay means nothing to a published row.
Backoff(w) ==
  outbox' = [outbox EXCEPT ![Current(w)].retries = seen[w] + 1,
                       ![Current(w)].waiting = ~outbox[Current(w)].published]

\* Its writes: the row moves to the DLQ in one transaction (INSERT, whatever the
\* row has become, and DELETE), or waits for its next attempt.
MarkFailed(w) ==
  /\ phase[w] = "fail"
  /\ IF GivesUp(w)
     THEN /\ dlq' = [dlq EXCEPT ![Current(w)] = @ \cup {w}]
          /\ outbox' = [outbox EXCEPT ![Current(w)] = Deleted(@)]
     ELSE /\ IF outbox[Current(w)].gone THEN UNCHANGED outbox ELSE Backoff(w)
          /\ UNCHANGED dlq
  /\ NextEvent(w)
  /\ UNCHANGED <<picked, running, errors, history>>

-----------------------------------------------------------------------------
(* Interruptions, time.                                                    *)

\* A killed worker is started again; a database error of mark_failed leaves
\* process_once, which run_worker calls again.  Either way the batch is lost.
Abandon(w) ==
  /\ phase[w] # "poll"
  /\ errors < MaxErrors /\ errors' = errors + 1
  /\ batch' = [batch EXCEPT ![w] = {}]
  /\ phase' = [phase EXCEPT ![w] = "poll"]
  /\ seen' = [seen EXCEPT ![w] = 0]
  /\ UNCHANGED <<outbox, dlq, picked, running, history>>

\* stop_worker takes effect when the batch is done; run_worker starts it again.
StopWorker(w) ==
  /\ running[w]
  /\ errors < MaxErrors /\ errors' = errors + 1
  /\ running' = [running EXCEPT ![w] = FALSE]
  /\ UNCHANGED <<outbox, dlq, picked, worker, history>>

StartWorker(w) ==
  /\ phase[w] = "poll" /\ ~running[w]
  /\ running' = [running EXCEPT ![w] = TRUE]
  /\ UNCHANGED <<outbox, dlq, picked, worker, errors, history>>

DelayElapses(i) ==
  /\ outbox[i].waiting
  /\ outbox' = [outbox EXCEPT ![i].waiting = FALSE]
  /\ UNCHANGED <<dlq, picked, running, worker, errors, history>>

-----------------------------------------------------------------------------
ProcessOnce(w) ==
  \/ Poll(w)
  \/ Publish(w)
  \/ \E landed \in BOOLEAN : PublishRaises(w, landed)
  \/ Mark(w)
  \/ ReadRetries(w)
  \/ MarkFailed(w)

OutboxNext ==
  \/ \E k \in 1..MaxInserts : Write(k)
  \/ \E i \in Ids : DelayElapses(i)
  \/ \E o \in Operators : PickDead(o) \/ Requeue(o)
  \/ \E w \in Workers :
       ProcessOnce(w) \/ MarkRaises(w) \/ Abandon(w) \/ StopWorker(w) \/ StartWorker(w)

OutboxSpec == OutboxInit /\ [][OutboxNext]_outboxVars

\* Publishers return or raise, workers are restarted, and time passes.
Fairness ==
  /\ \A w \in Workers : WF_outboxVars(ProcessOnce(w)) /\ WF_outboxVars(StartWorker(w))
  /\ \A i \in 1..MaxInserts : WF_outboxVars(i \in Ids /\ DelayElapses(i))

FairSpec == OutboxSpec /\ Fairness

-----------------------------------------------------------------------------
(* Properties.                                                             *)

\* Every variable has its type; a row in the table has retries left.
OutboxTypeOK ==
  /\ outbox \in Seq([event : 1..MaxInserts, published : BOOLEAN, gone : BOOLEAN,
                   retries : 0..(MaxRetries - 1), waiting : BOOLEAN])
  /\ dlq \in [1..MaxInserts -> SUBSET Workers]
  /\ picked \in [Operators -> SUBSET (Ids \X Workers)]
  /\ running \in [Workers -> BOOLEAN]
  /\ phase \in [Workers -> {"poll", "publish", "mark", "select", "fail"}]
  /\ batch \in [Workers -> SUBSET Ids]
  /\ \A w \in Workers : phase[w] = "poll" <=> batch[w] = {}
  /\ seen \in [Workers -> 0..(MaxRetries - 1)]
  /\ errors \in 0..MaxErrors
  /\ delivered \subseteq 1..MaxInserts
  /\ failures \in [1..MaxInserts -> 0..MaxRetries]
  /\ shared \in SUBSET Ids

\* No event is lost between the tables, or marked published without having been
\* delivered: an undelivered event is in a row still to be published or in the
\* DLQ, whatever workers do and wherever they are killed (outbox.py:150-206,
\* 246-259).
NoEventLost ==
  \A i \in Ids :
    \/ outbox[i].event \in delivered
    \/ \E j \in Ids : /\ outbox[j].event = outbox[i].event
                     /\ (dlq[j] # {} \/ ~(outbox[j].gone \/ outbox[j].published))

\* A row is given up only after max_retries attempts at it have failed, also
\* when several workers count its failures at once (outbox.py:163-182).
GivenUpAfterRetries ==
  \A i \in Ids : outbox[i].gone => failures[i] = MaxRetries

\* A row marked published goes to the DLQ, and loses its mark, only if two workers
\* held it at once: a poll gives no worker a row that was marked, whatever failures,
\* delays and restarts came before (outbox.py:125-148, 158-190).
DeadUnlessShared ==
  [][\A i \in Ids : outbox[i].published /\ ~(dlq'[i] \subseteq dlq[i]) => i \in shared]_outboxVars

\* A row that waits to be published is in the end published or given up: the
\* failures of others in its batch, kills and stops do not hold it up for ever
\* (outbox.py:193-222).
Settled(i) == outbox[i].published \/ outbox[i].gone

=============================================================================
