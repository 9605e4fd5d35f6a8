----------------------------- MODULE EventStore -----------------------------
(***************************************************************************)
(* EventStore: one stream and its snapshot in a SQLite file that several   *)
(* processes have open, each with one connection and a lock shared by its  *)
(* threads.                                                                *)
(*                                                                         *)
(* Every statement and every commit is a step of its own.  The connection  *)
(* is modelled as sqlite3 leaves it: an INSERT opens a transaction; commit *)
(* and rollback close it, an exception does not; a SELECT inside one pins  *)
(* what the connection sees, and what it has inserted is seen by all its   *)
(* threads before the commit.  The state of the stream is the number of    *)
(* events the reducer was applied to.  Subscribers are left out.           *)
(***************************************************************************)
EXTENDS Integers, Sequences, FiniteSets

CONSTANTS
  Procs, Threads,
  Home,            \* the process of each thread
  SnapshotEvery,   \* snapshot_every
  MaxBatch,        \* events of one append_batch
  MaxEvents,       \* bound: length of the stream
  MaxCrashes       \* bound: processes killed

ASSUME EventStoreAssumption ==
  /\ Home \in [Threads -> Procs] /\ "free" \notin Threads
  /\ SnapshotEvery \in Nat \ {0} /\ MaxBatch \in Nat \ {0}
  /\ MaxEvents \in Nat /\ MaxCrashes \in Nat

VARIABLES
  events,     \* committed rows: [version, by]
  snapshot,   \* committed snapshot: its version, the events its state is made of
  tx,         \* transaction of each connection: none, begun, read, write
  pinned,     \* what a connection in "read" sees, or one in "write" has made of it
  lock,       \* _lock of each process: its holder, or "free"
  stage,      \* where the call of each thread is; "idle" between calls
  base,       \* version of the stream that an append or maybe_snapshot has read
  from,       \* version of the snapshot that maybe_snapshot has read
  size,       \* events to append
  expected,   \* expected_version, or None
  state,      \* state that reconstruct_state has made
  crashes,    \* counter for the bound
  overtaken,  \* history: an append fell between the reads of a maybe_snapshot
  blocked     \* history: processes a call of which ended with "database is locked"

call == <<stage, base, from, size, expected, state>>
storeVars == <<events, snapshot, tx, pinned, lock, call, crashes, overtaken, blocked>>

None == -1
NoSnapshot == [version |-> 0, applied |-> 0]

Database == [events |-> events, snapshot |-> snapshot]

StoreInit ==
  /\ events = {} /\ snapshot = NoSnapshot
  /\ tx = [p \in Procs |-> "none"]
  /\ pinned = [p \in Procs |-> Database]
  /\ lock = [p \in Procs |-> "free"]
  /\ stage = [t \in Threads |-> "idle"]
  /\ base = [t \in Threads |-> 0]
  /\ from = [t \in Threads |-> 0]
  /\ size = [t \in Threads |-> 0]
  /\ expected = [t \in Threads |-> None]
  /\ state = [t \in Threads |-> 0]
  /\ crashes = 0
  /\ overtaken = FALSE
  /\ blocked = {}

-----------------------------------------------------------------------------
(* The connection.                                                         *)

View(p) == IF tx[p] \in {"read", "write"} THEN pinned[p] ELSE Database

\* Mutant: a SELECT opens a transaction of its own.
ReadPinsAlways(p) ==
  IF tx[p] \in {"none", "begun"}
  THEN /\ tx' = [tx EXCEPT ![p] = "read"]
       /\ pinned' = [pinned EXCEPT ![p] = Database]
  ELSE UNCHANGED <<tx, pinned>>

\* A SELECT: the first one in an open transaction fixes its snapshot.
Read(p) ==
  IF tx[p] = "begun"
  THEN /\ tx' = [tx EXCEPT ![p] = "read"]
       /\ pinned' = [pinned EXCEPT ![p] = Database]
  ELSE UNCHANGED <<tx, pinned>>

\* The INSERT gets no write lock: another connection keeps it longer than the
\* timeout, or what this one has pinned is no longer the last commit.
LockedOut(p) ==
  \/ \E q \in Procs \ {p} : tx[q] = "write"
  \/ tx[p] = "read" /\ pinned[p] # Database

\* The transaction that the INSERT opened, or found, stays.
StaysOpen(p) ==
  /\ tx' = [tx EXCEPT ![p] = IF @ = "none" THEN "begun" ELSE @]
  /\ blocked' = blocked \cup {p}
  /\ UNCHANGED pinned

\* An INSERT gets the write lock and makes db of the database.
Writes(p, db) ==
  /\ ~LockedOut(p)
  /\ tx' = [tx EXCEPT ![p] = "write"]
  /\ pinned' = [pinned EXCEPT ![p] = db]
  /\ UNCHANGED blocked

\* The end of a transaction.
Closed(p) ==
  /\ tx' = [tx EXCEPT ![p] = "none"]
  /\ pinned' = [pinned EXCEPT ![p] = [events |-> {}, snapshot |-> NoSnapshot]]

-----------------------------------------------------------------------------
(* Calls.                                                                  *)

LastVersion(rows) ==
  CHOOSE v \in {0} \cup {r.version : r \in rows} : \A r \in rows : r.version <= v

\* Between calls the variables of a call mean nothing.
CallEnds(t) ==
  /\ stage' = [stage EXCEPT ![t] = "idle"]
  /\ base' = [base EXCEPT ![t] = 0]
  /\ from' = [from EXCEPT ![t] = 0]
  /\ size' = [size EXCEPT ![t] = 0]
  /\ expected' = [expected EXCEPT ![t] = None]
  /\ state' = [state EXCEPT ![t] = 0]

\* Mutant: the lock is not given back.
LeaveKeepsLock(t) == CallEnds(t) /\ UNCHANGED lock

\* The end of the "with self._lock" block, and of the call.
Leave(t) == CallEnds(t) /\ lock' = [lock EXCEPT ![Home[t]] = "free"]

\* get_stream, get_by_type, get_snapshot, get_stream_version, reconstruct_state
\* of a caller: any read.  It matters to an open transaction.
ReadOnly(p) ==
  /\ tx[p] = "begun"
  /\ Read(p)
  /\ UNCHANGED <<events, snapshot, lock, call, crashes, overtaken, blocked>>

\* append (k = 1) or append_batch, up to the INSERT: the lock, the version, the
\* check of expected_version, which append_batch does not have.  The caller may
\* expect any version; one that is not the stream's ends in ConcurrencyError.
Enter(t, k, check) ==
  LET p == Home[t]
      v == LastVersion(View(p).events)
  IN  /\ stage[t] = "idle" /\ lock[p] = "free"
      /\ v + k <= MaxEvents
      /\ check => k = 1
      /\ Read(p)
      /\ lock' = [lock EXCEPT ![p] = t]
      /\ stage' = [stage EXCEPT ![t] = "insert"]
      /\ base' = [base EXCEPT ![t] = v]
      /\ size' = [size EXCEPT ![t] = k]
      /\ expected' = [expected EXCEPT ![t] = IF check THEN v ELSE None]
      /\ UNCHANGED <<events, snapshot, from, state, crashes, overtaken, blocked>>

\* Mutant: the version is read again just before the INSERT.
FreshRows(t) ==
  {[version |-> LastVersion(events) + j, by |-> t] : j \in 1..size[t]}

NewRows(t) == {[version |-> base[t] + j, by |-> t] : j \in 1..size[t]}

\* Mutant: the table has no UNIQUE constraint.
NotUnique(t) == FALSE /\ t \in Threads

\* UNIQUE(stream_id, version).
Taken(t) == \E r \in events, n \in NewRows(t) : r.version = n.version

\* The INSERT of append or append_batch.
Insert(t) ==
  LET p == Home[t] IN
  /\ stage[t] = "insert"
  /\ \/ /\ LockedOut(p)
        /\ StaysOpen(p)
        /\ Leave(t)
     \/ /\ ~Taken(t)
        /\ Writes(p, [Database EXCEPT !.events = @ \cup NewRows(t)])
        /\ stage' = [stage EXCEPT ![t] = "commit"]
        /\ UNCHANGED <<lock, base, from, size, expected, state>>
     \/ \* IntegrityError in append: the write lock is kept.
        /\ Taken(t) /\ size[t] = 1
        /\ Writes(p, Database)
        /\ Leave(t)
     \/ \* IntegrityError in append_batch, which rolls back.
        /\ ~LockedOut(p) /\ Taken(t) /\ expected[t] = None
        /\ Closed(p)
        /\ Leave(t)
        /\ UNCHANGED blocked
  /\ UNCHANGED <<events, snapshot, crashes, overtaken>>

\* commit, of an append or of save_snapshot.
Commit(t) ==
  LET p == Home[t] IN
  /\ stage[t] = "commit"
  /\ events' = pinned[p].events /\ snapshot' = pinned[p].snapshot
  /\ Closed(p)
  /\ Leave(t)
  /\ UNCHANGED <<crashes, overtaken, blocked>>

-----------------------------------------------------------------------------
(* maybe_snapshot.                                                         *)

\* A SELECT of a call that does not hold the lock, on the way to stage s.
Reads(t, s) ==
  /\ Read(Home[t])
  /\ stage' = [stage EXCEPT ![t] = s]
  /\ UNCHANGED <<events, snapshot, lock, size, expected, crashes, blocked>>

\* The version of the last snapshot.
MaybeSnapshot(t) ==
  /\ stage[t] = "idle"
  /\ Reads(t, "count")
  /\ from' = [from EXCEPT ![t] = View(Home[t]).snapshot.version]
  /\ UNCHANGED <<base, state, overtaken>>

\* get_stream_version, and whether a snapshot is due.
GetStreamVersion(t) ==
  LET v == LastVersion(View(Home[t]).events) IN
  /\ stage[t] = "count"
  /\ IF v - from[t] >= SnapshotEvery
     THEN /\ Reads(t, "replay")
          /\ base' = [base EXCEPT ![t] = v]
          /\ UNCHANGED from
     ELSE /\ Reads(t, "idle")
          /\ from' = [from EXCEPT ![t] = 0]
          /\ UNCHANGED base
  /\ UNCHANGED <<state, overtaken>>

\* reconstruct_state reads the snapshot again.
ReconstructState(t) ==
  LET from_snapshot == View(Home[t]).snapshot IN
  /\ stage[t] = "replay"
  /\ Reads(t, "events")
  /\ from' = [from EXCEPT ![t] = from_snapshot.version]
  /\ state' = [state EXCEPT ![t] = from_snapshot.applied]
  /\ UNCHANGED <<base, overtaken>>

\* Mutant: every event is applied to the snapshot's state.
ReplayAll(t, rows) == state[t] + Cardinality(rows)

\* The reducer is applied to the events after the snapshot.
Replay(t, rows) == state[t] + Cardinality({r \in rows : r.version > from[t]})

\* get_stream from the snapshot's version on.
GetStream(t) ==
  LET rows == View(Home[t]).events IN
  /\ stage[t] = "events"
  /\ Reads(t, "save")
  /\ state' = [state EXCEPT ![t] = Replay(t, rows)]
  /\ overtaken' = (overtaken \/ LastVersion(rows) # base[t])
  /\ UNCHANGED <<base, from>>

\* save_snapshot takes the lock; its commit is to come.
SaveSnapshot(t) ==
  LET p == Home[t] IN
  /\ stage[t] = "save" /\ lock[p] = "free"
  /\ \/ /\ LockedOut(p)
        /\ StaysOpen(p)
        /\ Leave(t)
     \/ /\ Writes(p, [Database EXCEPT !.snapshot = [version |-> base[t], applied |-> state[t]]])
        /\ lock' = [lock EXCEPT ![p] = t]
        /\ stage' = [stage EXCEPT ![t] = "commit"]
        /\ UNCHANGED <<base, from, size, expected, state>>
  /\ UNCHANGED <<events, snapshot, crashes, overtaken>>

\* A process is killed and started again; its transaction is rolled back.
Crash(p) ==
  /\ crashes < MaxCrashes /\ crashes' = crashes + 1
  /\ Closed(p)
  /\ lock' = [lock EXCEPT ![p] = "free"]
  /\ LET Fresh(f, v) == [t \in Threads |-> IF Home[t] = p THEN v ELSE f[t]]
     IN  /\ stage' = Fresh(stage, "idle")
         /\ base' = Fresh(base, 0) /\ from' = Fresh(from, 0)
         /\ size' = Fresh(size, 0) /\ state' = Fresh(state, 0)
         /\ expected' = Fresh(expected, None)
  /\ blocked' = blocked \ {p}
  /\ UNCHANGED <<events, snapshot, overtaken>>

-----------------------------------------------------------------------------
\* A call goes on.
Step(t) ==
  \/ Insert(t) \/ Commit(t)
  \/ GetStreamVersion(t) \/ ReconstructState(t) \/ GetStream(t) \/ SaveSnapshot(t)

StoreNext ==
  \/ \E t \in Threads :
       \/ \E k \in 1..MaxBatch, check \in BOOLEAN : Enter(t, k, check)
       \/ MaybeSnapshot(t)
       \/ Step(t)
  \/ \E p \in Procs : ReadOnly(p) \/ Crash(p)

StoreSpec == StoreInit /\ [][StoreNext]_storeVars

-----------------------------------------------------------------------------
(* Properties.                                                             *)

Seen == [events : SUBSET [version : 1..MaxEvents, by : Threads],
         snapshot : [version : 0..MaxEvents, applied : Nat]]

\* Every variable has its type; the write lock of the file has one holder.
StoreTypeOK ==
  /\ Database \in Seen
  /\ tx \in [Procs -> {"none", "begun", "read", "write"}]
  /\ pinned \in [Procs -> Seen]
  /\ \A p, q \in Procs : tx[p] = "write" /\ tx[q] = "write" => p = q
  /\ lock \in [Procs -> Threads \cup {"free"}]
  /\ stage \in [Threads -> {"idle", "insert", "commit", "count", "replay", "events", "save"}]
  /\ \A t \in Threads : stage[t] \in {"insert", "commit"} <=> lock[Home[t]] = t
  /\ base \in [Threads -> 0..MaxEvents] /\ from \in [Threads -> 0..MaxEvents]
  /\ size \in [Threads -> 0..MaxBatch]
  /\ expected \in [Threads -> {None} \cup 0..MaxEvents]
  /\ state \in [Threads -> Nat]
  /\ crashes \in 0..MaxCrashes
  /\ overtaken \in BOOLEAN
  /\ blocked \subseteq Procs

\* The table is an append-only log: versions have no gap and no duplicate, and
\* no committed event is ever changed, with several processes appending
\* (event_sourcing.py:1, 16-26).
Log == INSTANCE EventLog
  WITH Writers <- Threads,
       log <- [v \in 1..Cardinality(events) |-> {r.by : r \in {e \in events : e.version = v}}]

ImplementsLog == Log!Spec

\* An append that gave expected_version lands directly after it, whatever was
\* committed between its check and its INSERT (event_sourcing.py:97-128).
CheckedAppendIsNext ==
  [][\A t \in Threads :
       expected[t] # None /\ events' # events /\ stage'[t] # stage[t]
         => Cardinality(events) = expected[t]]_storeVars

\* A snapshot's state is the state of its version, unless an event was appended
\* between a maybe_snapshot's reads of the version and of the events, with other
\* snapshots saved and appends begun in between (event_sourcing.py:249-313).
SnapshotUnlessOvertaken == ~overtaken => snapshot.applied = snapshot.version

\* A process sees the last commit, or what it is about to commit, unless one of
\* its calls has failed on the lock of the file (event_sourcing.py:97-128).
CurrentUnlessBlocked ==
  \A p \in Procs : p \in blocked \/ tx[p] = "write" \/ View(p) = Database
=============================================================================
