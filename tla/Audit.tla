------------------------------- MODULE Audit -------------------------------
(***************************************************************************)
(* AuditTrail on one database file, used by several writers: processes,    *)
(* or threads of one that are given the same trail.  log reads the last    *)
(* hash in one statement and inserts the row in another; verify_integrity  *)
(* is one SELECT and a walk.                                               *)
(*                                                                         *)
(* A record is the number of its entry, and whether it holds something     *)
(* that the columns do not give back as it was hashed: a None where        *)
(* verify_integrity reads "", keys of details in another order.  SHA-256   *)
(* and HMAC are taken not to collide: entry_hash is the record of what     *)
(* went into it, and where one is a prev_hash it is named by the entry it  *)
(* was made from, 0 for "GENESIS".  Every trail has enable_chain on.       *)
(*                                                                         *)
(* The key made for a new file is 32 random bytes, which may begin or end  *)
(* with a byte that strip takes for whitespace.                            *)
(***************************************************************************)
EXTENDS Naturals, Sequences

CONSTANTS
  Writers,
  MaxRows        \* bound: entries logged

ASSUME AuditAssumption == MaxRows \in Nat

VARIABLES
  rows,      \* audit_log in the order of id
  keyFile,   \* .audit_hmac_key: absent, empty (created, not yet written), plain,
             \* padded (with whitespace at an end)
  key,       \* _key of each writer: the bytes as written, or stripped, or none
  pc,        \* of each writer: start, create, write; ready, log
  prev,      \* prev_hash that a log in progress has read
  written,   \* history: the rows as they were inserted
  readAt,      \* history: entries logged when the log in progress read its prev_hash
  late,      \* history: entries inserted after another one had come in between
  damaged,   \* history: rows were altered or lost since
  cut        \* history: the last row was lost

table == <<rows, written, damaged, cut>>
auditVars == <<table, keyFile, key, pc, prev, readAt, late>>

Genesis == 0
Keys == {"none", "raw", "stripped"}

Record == [entry : Nat, null : BOOLEAN]

Hash == [key : Keys, record : Record, prev : Nat]

Row == [record : Record, prev : Nat, hash : Hash]

\* _compute_hash with the key k.
ComputeHash(k, record, previous) == [key |-> k, record |-> record, prev |-> previous]

\* The trails are the first on this file, or the key comes from an earlier start
\* or from LARGESTACK_AUDIT_HMAC_KEY, which is taken as it is like a plain file.
AuditInit ==
  /\ rows = <<>> /\ written = <<>>
  /\ keyFile \in {"absent", "plain", "padded"}
  /\ key = [w \in Writers |-> "none"]
  /\ pc = [w \in Writers |-> "start"]
  /\ prev = [w \in Writers |-> Genesis]
  /\ readAt = [w \in Writers |-> 0] /\ late = {}
  /\ damaged = FALSE /\ cut = FALSE

-----------------------------------------------------------------------------
\* _resolve_key finds a key and strips it, or goes on to make one.
FindKey(w) ==
  /\ pc[w] = "start"
  /\ IF keyFile \in {"plain", "padded"}
     THEN /\ key' = [key EXCEPT ![w] = IF keyFile = "plain" THEN "raw" ELSE "stripped"]
          /\ pc' = [pc EXCEPT ![w] = "ready"]
     ELSE /\ key' = key
          /\ pc' = [pc EXCEPT ![w] = "create"]
  /\ UNCHANGED <<table, keyFile, prev, readAt, late>>

\* os.open with O_EXCL: the one who is late gets an OSError and no key.
CreateKeyFile(w) ==
  /\ pc[w] = "create"
  /\ IF keyFile = "absent"
     THEN /\ keyFile' = "empty"
          /\ key' = key
          /\ pc' = [pc EXCEPT ![w] = "write"]
     ELSE /\ keyFile' = keyFile
          /\ key' = [key EXCEPT ![w] = "none"]
          /\ pc' = [pc EXCEPT ![w] = "ready"]
  /\ UNCHANGED <<table, prev, readAt, late>>

\* The key is used as it was made.
WriteKey(w) ==
  /\ pc[w] = "write"
  /\ keyFile' \in {"plain", "padded"}
  /\ key' = [key EXCEPT ![w] = "raw"]
  /\ pc' = [pc EXCEPT ![w] = "ready"]
  /\ UNCHANGED <<table, prev, readAt, late>>

-----------------------------------------------------------------------------
\* Mutant: the wrong column of the last row.
LastPrev == IF Len(rows) = 0 THEN Genesis ELSE rows[Len(rows)].prev

LastHash == IF Len(rows) = 0 THEN Genesis ELSE rows[Len(rows)].hash.record.entry

\* log up to its INSERT.
GetLastHash(w) ==
  /\ pc[w] = "ready"
  /\ Len(written) < MaxRows
  /\ prev' = [prev EXCEPT ![w] = LastHash]
  /\ readAt' = [readAt EXCEPT ![w] = Len(written)]
  /\ pc' = [pc EXCEPT ![w] = "log"]
  /\ UNCHANGED <<table, keyFile, key, late>>

\* The columns keep the record; the hash is made of it as it is in memory.
NewRow(w, null) ==
  LET record == [entry |-> Len(written) + 1, null |-> null]
  IN [record |-> record, prev |-> prev[w], hash |-> ComputeHash(key[w], record, prev[w])]

InsertRow(w, null) ==
  /\ pc[w] = "log"
  /\ rows' = Append(rows, NewRow(w, null))
  /\ written' = Append(written, NewRow(w, null))
  /\ late' = IF Len(written) = readAt[w] THEN late ELSE late \cup {Len(written) + 1}
  /\ pc' = [pc EXCEPT ![w] = "ready"]
  /\ UNCHANGED <<keyFile, key, prev, readAt, damaged, cut>>

\* The INSERT fails, as on a locked database, and log raises.
InsertFails(w) ==
  /\ pc[w] = "log"
  /\ pc' = [pc EXCEPT ![w] = "ready"]
  /\ UNCHANGED <<table, keyFile, key, prev, readAt, late>>

\* The process ends, anywhere, and starts again.
Restart(w) ==
  /\ pc[w] # "start"
  /\ pc' = [pc EXCEPT ![w] = "start"]
  /\ key' = [key EXCEPT ![w] = "none"]
  /\ UNCHANGED <<table, keyFile, prev, readAt, late>>

-----------------------------------------------------------------------------
\* What happens to the file outside of log, between two calls of it.
Idle == \A w \in Writers : pc[w] # "log"

AlterRow(i) ==
  /\ Idle /\ ~damaged
  /\ \E record \in [entry : {0, rows[i].record.entry}, null : BOOLEAN] \ {rows[i].record} :
       rows' = [rows EXCEPT ![i].record = record]
  /\ damaged' = TRUE
  /\ UNCHANGED <<written, cut, keyFile, key, pc, prev, readAt, late>>

LoseRow(i) ==
  /\ Idle /\ ~damaged
  /\ rows' = SubSeq(rows, 1, i - 1) \o SubSeq(rows, i + 1, Len(rows))
  /\ damaged' = TRUE
  /\ cut' = (i = Len(rows))
  /\ UNCHANGED <<written, keyFile, key, pc, prev, readAt, late>>

Writer(w) ==
  \/ FindKey(w) \/ CreateKeyFile(w) \/ WriteKey(w)
  \/ GetLastHash(w) \/ InsertFails(w) \/ Restart(w)
  \/ \E null \in BOOLEAN : InsertRow(w, null)

AuditNext ==
  \/ \E w \in Writers : Writer(w)
  \/ \E i \in 1..Len(rows) : AlterRow(i) \/ LoseRow(i)

AuditSpec == AuditInit /\ [][AuditNext]_auditVars

-----------------------------------------------------------------------------
\* The hash row i must name as its previous one.
HashBefore(i) == IF i = 1 THEN Genesis ELSE rows[i - 1].hash.record.entry

\* The record as verify_integrity puts it together from the columns.
FromColumns(record) == [record EXCEPT !.null = FALSE]

\* Mutant: the rows are checked one by one and not against each other.
BrokenAlone(k) ==
  {i \in 1..Len(rows) :
     rows[i].hash # ComputeHash(k, FromColumns(rows[i].record), rows[i].prev)}

\* Rows that verify_integrity, run with the key k, reports one of (the first).
Broken(k) ==
  {i \in 1..Len(rows) :
     \/ rows[i].prev # HashBefore(i)
     \/ rows[i].hash # ComputeHash(k, FromColumns(rows[i].record), rows[i].prev)}

ReadBack(t) == [i \in 1..Len(t) |-> [t[i] EXCEPT !.record = FromColumns(@)]]

\* Types; damage removes rows and adds none.
AuditTypeOK ==
  /\ rows \in Seq(Row) /\ written \in Seq(Row)
  /\ keyFile \in {"absent", "empty", "plain", "padded"}
  /\ key \in [Writers -> Keys]
  /\ pc \in [Writers -> {"start", "create", "write", "ready", "log"}]
  /\ prev \in [Writers -> Nat] /\ readAt \in [Writers -> Nat]
  /\ late \in SUBSET Nat
  /\ damaged \in BOOLEAN /\ cut \in BOOLEAN
  /\ Len(rows) <= Len(written)

\* What makes verify_integrity raise an alarm over rows that nobody touched, and
\* nothing else does, through failed inserts and restarts: an entry made with
\* another key than the verifier's, one that the columns do not give back, and one
\* that overlapped another, whose log read the last hash before and inserted after
\* it (audit.py:82-108, 110-173, 260-292).
AlarmsHaveACause ==
  ~damaged =>
    \A k \in Keys :
      Broken(k) = {i \in 1..Len(rows) : rows[i].hash.key # k \/ written[i].record.null \/ i \in late}

\* "Immutable audit trail": a chain that verifies, also after later entries were
\* added to a damaged table, reads as the entries that were logged, in their order.
\* Losing the last entry cannot be seen; and of two entries that overlapped, one
\* can be lost unseen (audit.py:1, 260-292).
VerifiedIsWhole ==
  late = {} /\ ~cut =>
    \A k \in Keys : Broken(k) = {} => ReadBack(rows) = ReadBack(written)
=============================================================================
