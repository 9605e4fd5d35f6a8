------------------------- MODULE PersistenceProofs -------------------------
(***************************************************************************)
(* The three components that keep their state in a SQLite file, each of    *)
(* them for any processes on that file:                                    *)
(*  - Audit: what makes verify_integrity raise an alarm over an untouched  *)
(*    table, and that what it accepts reads as it was logged;              *)
(*  - EventStore: the table implements an append-only log, and snapshots   *)
(*    are those of their versions;                                         *)
(*  - Outbox: no event is lost, no row is given up early or taken back.    *)
(***************************************************************************)
EXTENDS Audit, EventStore, Outbox, FiniteSetTheorems, FunctionTheorems,
        SequenceTheorems, WellFoundedInduction, TLAPS

-----------------------------------------------------------------------------
(***************************************************************************)
(* Audit.                                                                  *)
(***************************************************************************)
\* Row i is accepted by a verifier that has its key.
Accepted(i) ==
  /\ rows[i].prev = HashBefore(i)
  /\ rows[i].hash = ComputeHash(rows[i].hash.key, FromColumns(rows[i].record), rows[i].prev)

\* As it was inserted, row i holds entry i under its own hash, and names the
\* entry before it unless it is late.
AsInserted(i) ==
  /\ rows[i].record.entry = i
  /\ rows[i].hash = ComputeHash(rows[i].hash.key, rows[i].record, rows[i].prev)
  /\ rows[i].prev = i - 1 <=> i \notin late

\* A log in progress names the entry that was the last when it read.
ReadInv ==
  ~damaged => \A w \in Writers : pc[w] = "log" => prev[w] = readAt[w] /\ readAt[w] <= Len(written)

\* The undamaged table.
ChainInv ==
  ~damaged =>
    /\ rows = written /\ ~cut
    /\ late \subseteq 1..Len(rows)
    /\ \A i \in 1..Len(rows) : AsInserted(i)

\* The damaged one: unless it was cut or had overlaps, some row shows it, for
\* good, or it cannot be seen in the columns.
ScarInv ==
  damaged /\ ~cut /\ late = {} =>
    \/ \E i \in 1..Len(rows) : ~Accepted(i)
    \/ ReadBack(rows) = ReadBack(written)

AuditInv == AuditTypeOK /\ ReadInv /\ ChainInv /\ ScarInv

-----------------------------------------------------------------------------
\* The columns of a row.
LEMMA Columns ==
  ASSUME AuditTypeOK, NEW i \in 1..Len(rows)
  PROVE  /\ rows[i] \in Row
         /\ rows[i].record \in Record /\ rows[i].prev \in Nat
         /\ rows[i].hash \in Hash /\ rows[i].hash.record \in Record
         /\ rows[i].hash.record.entry \in Nat
         /\ rows[i].hash.key \in Keys
<1>1. rows[i] \in Row
  BY DEF AuditTypeOK
<1>2. rows[i].record \in Record /\ rows[i].prev \in Nat /\ rows[i].hash \in Hash
  BY <1>1 DEF Row
<1>3. rows[i].hash.record \in Record /\ rows[i].hash.key \in Keys
  BY <1>2 DEF Hash
<1> QED
  BY <1>1, <1>2, <1>3 DEF Record

\* The row that an INSERT adds.
LEMMA NewRowIsRow ==
  ASSUME AuditTypeOK, NEW w \in Writers, NEW null \in BOOLEAN
  PROVE  NewRow(w, null) \in Row
<1>1. [entry |-> Len(written) + 1, null |-> null] \in Record
  BY DEF AuditTypeOK, Record
<1>2. key[w] \in Keys /\ prev[w] \in Nat
  BY DEF AuditTypeOK
<1> QED
  BY <1>1, <1>2 DEF NewRow, ComputeHash, Row, Hash

\* Types are kept by every step.
LEMMA TypesAreKept == ASSUME AuditTypeOK, [AuditNext]_auditVars PROVE AuditTypeOK'
<1> USE DEF AuditTypeOK, table
<1>1. CASE UNCHANGED auditVars
  BY <1>1 DEF auditVars
<1>2. ASSUME NEW w \in Writers, FindKey(w) PROVE AuditTypeOK'
  BY <1>2 DEF FindKey, Keys
<1>3. ASSUME NEW w \in Writers, CreateKeyFile(w) PROVE AuditTypeOK'
  BY <1>3 DEF CreateKeyFile, Keys
<1>4. ASSUME NEW w \in Writers, WriteKey(w) PROVE AuditTypeOK'
  BY <1>4 DEF WriteKey, Keys
<1>5. ASSUME NEW w \in Writers, GetLastHash(w) PROVE AuditTypeOK'
  <2>1. CASE Len(rows) = 0
    BY <1>5, <2>1 DEF GetLastHash, LastHash, Genesis
  <2>2. CASE Len(rows) # 0
    <3>1. Len(rows) \in 1..Len(rows)
      BY <2>2
    <3>2. LastHash \in Nat
      BY <2>2, <3>1, Columns DEF LastHash
    <3> QED
      BY <1>5, <3>2 DEF GetLastHash
  <2> QED
    BY <2>1, <2>2
<1>6. ASSUME NEW w \in Writers, NEW null \in BOOLEAN, InsertRow(w, null) PROVE AuditTypeOK'
  <2>1. rows' \in Seq(Row) /\ written' \in Seq(Row) /\ Len(rows') <= Len(written')
    BY <1>6, NewRowIsRow DEF InsertRow
  <2>2. ASSUME NEW n \in late' PROVE n \in Nat
    <3>1. n \in late \/ n = Len(written) + 1
      BY <1>6, <2>2 DEF InsertRow
    <3>2. late \subseteq Nat /\ Len(written) + 1 \in Nat
      BY DEF AuditTypeOK
    <3> QED
      BY <3>1, <3>2, Zenon
  <2>3. late' \subseteq Nat
    BY <2>2, Zenon
  <2> QED
    BY <1>6, <2>1, <2>3 DEF InsertRow
<1>7. ASSUME NEW w \in Writers, InsertFails(w) PROVE AuditTypeOK'
  BY <1>7 DEF InsertFails
<1>8. ASSUME NEW w \in Writers, Restart(w) PROVE AuditTypeOK'
  BY <1>8 DEF Restart, Keys
<1>9. ASSUME NEW i \in 1..Len(rows), AlterRow(i) PROVE AuditTypeOK'
  <2>1. PICK record \in [entry : {0, rows[i].record.entry}, null : BOOLEAN] :
               rows' = [rows EXCEPT ![i].record = record]
    BY <1>9 DEF AlterRow
  <2>2. record \in Record
    BY Columns DEF Record
  <2>3. [rows[i] EXCEPT !.record = record] \in Row
    BY <2>2, Columns DEF Row
  <2>4. rows' = [rows EXCEPT ![i] = [rows[i] EXCEPT !.record = record]]
    BY <2>1
  <2>5. rows' \in Seq(Row) /\ Len(rows') = Len(rows)
    BY <2>3, <2>4
  <2> QED
    BY <1>9, <2>5 DEF AlterRow
<1>10. ASSUME NEW i \in 1..Len(rows), LoseRow(i) PROVE AuditTypeOK'
  <2> DEFINE lo == SubSeq(rows, 1, i - 1)
             hi == SubSeq(rows, i + 1, Len(rows))
  <2>1. /\ lo \in Seq(Row) /\ hi \in Seq(Row)
        /\ Len(lo) = i - 1 /\ Len(hi) = Len(rows) - i
    OBVIOUS
  <2>2. rows' = lo \o hi
    BY <1>10 DEF LoseRow
  <2> HIDE DEF lo, hi
  <2>3. rows' \in Seq(Row) /\ Len(rows') = Len(lo) + Len(hi)
    BY <2>1, <2>2, ConcatProperties
  <2>4. Len(rows) \in Nat /\ Len(written) \in Nat /\ i \in Nat
    OBVIOUS
  <2>5. Len(rows') <= Len(written)
    BY <2>1, <2>3, <2>4
  <2>6. /\ cut' \in BOOLEAN /\ damaged' \in BOOLEAN
        /\ UNCHANGED <<written, keyFile, key, pc, prev, readAt, late>>
    BY <1>10 DEF LoseRow
  <2> QED
    BY <2>3, <2>5, <2>6
<1> QED
  BY <1>1, <1>2, <1>3, <1>4, <1>5, <1>6, <1>7, <1>8, <1>9, <1>10 DEF AuditNext, Writer

\* What an INSERT does to the rows that are there, and the row it adds.
LEMMA InsertedRow ==
  ASSUME AuditTypeOK, NEW w \in Writers, NEW null \in BOOLEAN, InsertRow(w, null)
  PROVE  /\ Len(rows') = Len(rows) + 1
         /\ \A i \in 1..Len(rows) : rows'[i] = rows[i] /\ Accepted(i)' = Accepted(i)
         /\ rows'[Len(rows) + 1] = NewRow(w, null)
<1>2. /\ Len(rows') = Len(rows) + 1
      /\ rows'[Len(rows) + 1] = NewRow(w, null)
      /\ \A i \in 1..Len(rows) : rows'[i] = rows[i]
  BY NewRowIsRow DEF AuditTypeOK, InsertRow
<1>3. ASSUME NEW i \in 1..Len(rows) PROVE HashBefore(i)' = HashBefore(i)
  <2>1. i # 1 => i - 1 \in 1..Len(rows)
    OBVIOUS
  <2> QED
    BY <1>2, <2>1 DEF HashBefore
<1> QED
  BY <1>2, <1>3 DEF Accepted

\* In the undamaged table the last hash is that of the last entry.
LEMMA LastEntry == ASSUME AuditInv, ~damaged PROVE LastHash = Len(written)
<1>1. Len(rows) \in Nat /\ rows = written
  BY DEF AuditInv, AuditTypeOK, ChainInv
<1>2. CASE Len(rows) = 0
  BY <1>1, <1>2 DEF LastHash, Genesis
<1>3. CASE Len(rows) # 0
  <2>1. Len(rows) \in 1..Len(rows)
    BY <1>1, <1>3
  <2>2. AsInserted(Len(rows))
    BY <2>1 DEF AuditInv, ChainInv
  <2>3. rows[Len(rows)].hash.record.entry = Len(rows)
    BY <2>2 DEF AsInserted, ComputeHash
  <2> QED
    BY <1>1, <1>3, <2>3 DEF LastHash
<1> QED
  BY <1>2, <1>3

\* Tables that read alike still do when both get the same row.
LEMMA ReadAlike ==
  ASSUME NEW S, NEW s \in Seq(S), NEW t \in Seq(S), NEW r \in S, ReadBack(s) = ReadBack(t)
  PROVE  ReadBack(Append(s, r)) = ReadBack(Append(t, r))
<1>1. Len(s) = Len(t)
  <2>1. DOMAIN ReadBack(s) = 1..Len(s) /\ DOMAIN ReadBack(t) = 1..Len(t)
    BY DEF ReadBack
  <2> QED
    BY <2>1
<1>2. \A i \in 1..Len(s) : ReadBack(s)[i] = ReadBack(t)[i]
  BY <1>1
<1>3. \A i \in 1..Len(s) : [s[i] EXCEPT !.record = FromColumns(@)] = [t[i] EXCEPT !.record = FromColumns(@)]
  BY <1>1, <1>2 DEF ReadBack
<1>4. /\ Len(Append(s, r)) = Len(s) + 1 /\ Len(Append(t, r)) = Len(s) + 1
      /\ Append(s, r)[Len(s) + 1] = r /\ Append(t, r)[Len(s) + 1] = r
      /\ \A i \in 1..Len(s) : Append(s, r)[i] = s[i] /\ Append(t, r)[i] = t[i]
  BY <1>1
<1>5. ASSUME NEW i \in 1..(Len(s) + 1)
      PROVE  [Append(s, r)[i] EXCEPT !.record = FromColumns(@)]
               = [Append(t, r)[i] EXCEPT !.record = FromColumns(@)]
  <2>1. CASE i \in 1..Len(s)
    <3>1. Append(s, r)[i] = s[i] /\ Append(t, r)[i] = t[i]
      BY <2>1, <1>4
    <3>2. [s[i] EXCEPT !.record = FromColumns(@)] = [t[i] EXCEPT !.record = FromColumns(@)]
      BY <2>1, <1>3
    <3> QED
      BY <3>1, <3>2
  <2>2. CASE i = Len(s) + 1
    <3>1. Append(s, r)[i] = Append(t, r)[i]
      BY <2>2, <1>4
    <3> QED
      BY <3>1
  <2>3. i \in 1..Len(s) \/ i = Len(s) + 1
    OBVIOUS
  <2> QED
    BY <2>1, <2>2, <2>3, Zenon
<1> QED
  BY <1>4, <1>5 DEF ReadBack

\* An INSERT keeps the invariant: the new row names the entry read, which is the
\* one before it unless others came in between.
LEMMA InsertKeeps ==
  ASSUME AuditInv, NEW w \in Writers, NEW null \in BOOLEAN, InsertRow(w, null)
  PROVE  ReadInv' /\ ChainInv' /\ ScarInv'
<1> USE DEF AuditInv
<1>0. Len(rows) \in Nat /\ Len(written) \in Nat /\ readAt[w] \in Nat
      /\ Len(written') = Len(written) + 1
  BY NewRowIsRow DEF AuditTypeOK, InsertRow
<1>1. ReadInv'
  BY <1>0 DEF ReadInv, InsertRow, AuditTypeOK
<1>2. ScarInv'
  <2>1. ASSUME NEW i \in 1..Len(rows), ~Accepted(i)
        PROVE  i \in 1..Len(rows') /\ ~Accepted(i)'
    BY <1>0, <2>1, InsertedRow
  <2>2. ASSUME ReadBack(rows) = ReadBack(written) PROVE ReadBack(rows') = ReadBack(written')
    BY <2>2, ReadAlike, NewRowIsRow DEF InsertRow, AuditTypeOK
  <2>3. late' = {} => late = {}
    BY DEF InsertRow
  <2>4. (ReadBack(rows) = ReadBack(written))' <=> ReadBack(rows') = ReadBack(written')
    BY DEF ReadBack
  <2> QED
    BY <2>1, <2>2, <2>3, <2>4 DEF ScarInv, InsertRow
<1>3. ASSUME ~damaged, NEW i \in 1..Len(rows') PROVE AsInserted(i)'
  <2>1. CASE i \in 1..Len(rows)
    <3>1. rows'[i] = rows[i] /\ AsInserted(i) /\ rows = written
      BY <1>3, <2>1, InsertedRow DEF ChainInv
    <3>2. i \in late' <=> i \in late
      BY <1>0, <2>1, <3>1 DEF InsertRow
    <3> QED
      BY <3>1, <3>2 DEF AsInserted
  <2>2. CASE i = Len(rows) + 1
    <3>1. rows = written /\ prev[w] = readAt[w] /\ late \subseteq 1..Len(rows)
      BY <1>3 DEF ReadInv, ChainInv, InsertRow
    <3>2. rows'[i] = NewRow(w, null) /\ i = Len(written) + 1
      BY <2>2, <3>1, InsertedRow
    <3>3. /\ rows'[i].record.entry = i /\ rows'[i].prev = prev[w]
          /\ rows'[i].hash = ComputeHash(rows'[i].hash.key, rows'[i].record, rows'[i].prev)
      BY <3>2 DEF NewRow, ComputeHash
    <3>4. i \in late' <=> Len(written) # readAt[w]
      BY <1>0, <2>2, <3>1, <3>2 DEF InsertRow
    <3>5. readAt[w] = i - 1 <=> i \notin late'
      BY <1>0, <3>2, <3>4
    <3> QED
      BY <3>1, <3>3, <3>5 DEF AsInserted
  <2> QED
    BY <1>0, <2>1, <2>2, InsertedRow
<1>4. ~damaged => rows' = written' /\ ~cut' /\ late' \subseteq 1..Len(rows')
  <2>1. ASSUME ~damaged PROVE late' \subseteq 1..Len(rows')
    <3>1. late \subseteq 1..Len(rows) /\ Len(rows) = Len(written)
      BY <2>1 DEF ChainInv
    <3>2. late' \subseteq late \cup {Len(rows) + 1}
      BY <3>1 DEF InsertRow
    <3> QED
      BY <1>0, <3>1, <3>2, InsertedRow
  <2> QED
    BY <2>1 DEF ChainInv, InsertRow
<1> QED
  BY <1>1, <1>2, <1>3, <1>4 DEF ChainInv, InsertRow

\* The altered row no longer has its own hash, or reads as before.
LEMMA AlterKeeps ==
  ASSUME AuditInv, NEW i \in 1..Len(rows), AlterRow(i)
  PROVE  ReadInv' /\ ChainInv' /\ ScarInv'
<1> USE DEF AuditInv
<1>1. PICK record \in [entry : {0, rows[i].record.entry}, null : BOOLEAN] :
             rows' = [rows EXCEPT ![i].record = record]
  BY DEF AlterRow
<1>2. /\ ~damaged /\ rows = written /\ damaged' /\ written' = written
      /\ AsInserted(i) /\ i # 0 /\ rows[i] \in Row /\ rows[i].record \in Record
  BY Columns DEF AlterRow, ChainInv, AuditTypeOK
<1>3. /\ Len(rows') = Len(rows) /\ rows'[i] = [rows[i] EXCEPT !.record = record]
      /\ rows'[i].record = record /\ rows'[i].hash = rows[i].hash
      /\ \A j \in 1..Len(rows) : j # i => rows'[j] = rows[j]
  BY <1>1, <1>2 DEF AuditTypeOK, Row
<1>4. CASE record.entry = 0
  <2>1. FromColumns(record).entry = 0
    BY <1>4 DEF FromColumns
  <2>2. rows[i].hash.record.entry = i
    BY <1>2 DEF AsInserted, ComputeHash
  <2>3. ~Accepted(i)'
    BY <1>2, <1>3, <2>1, <2>2 DEF Accepted, ComputeHash
  <2> QED
    BY <1>2, <1>3, <2>3 DEF ReadInv, ChainInv, ScarInv
<1>5. CASE record.entry = rows[i].record.entry
  <2>1. FromColumns(record) = FromColumns(rows[i].record)
    BY <1>2, <1>5 DEF FromColumns, Record
  <2>2. ASSUME NEW j \in 1..Len(rows)
        PROVE  [rows'[j] EXCEPT !.record = FromColumns(@)] = [rows[j] EXCEPT !.record = FromColumns(@)]
    <3>1. CASE j = i
      BY <1>2, <1>3, <2>1, <3>1 DEF Row
    <3>2. CASE j # i
      BY <1>3, <3>2
    <3> QED
      BY <3>1, <3>2
  <2>3. ReadBack(rows)' = ReadBack(rows)
    BY <1>3, <2>2 DEF ReadBack
  <2>4. (ReadBack(rows) = ReadBack(written))'
    BY <1>2, <2>3 DEF ReadBack
  <2> QED
    BY <1>2, <2>4 DEF ReadInv, ChainInv, ScarInv
<1> QED
  BY <1>4, <1>5

\* The row after the lost one names an entry that is not there.
LEMMA LossKeeps ==
  ASSUME AuditInv, NEW i \in 1..Len(rows), LoseRow(i)
  PROVE  ReadInv' /\ ChainInv' /\ ScarInv'
<1> USE DEF AuditInv
<1>2. ASSUME late = {}, i # Len(rows) PROVE \E j \in 1..Len(rows') : ~Accepted(j)'
  <2>0. i \in Nat /\ i >= 1 /\ i + 1 \in 1..Len(rows) /\ Len(rows) \in Nat
    BY <1>2 DEF AuditTypeOK
  <2>1. /\ Len(SubSeq(rows, 1, i - 1)) = i - 1
        /\ Len(SubSeq(rows, i + 1, Len(rows))) = Len(rows) - i
        /\ SubSeq(rows, i + 1, Len(rows))[1] = rows[i + 1]
        /\ SubSeq(rows, 1, i - 1) \in Seq(Row)
        /\ SubSeq(rows, i + 1, Len(rows)) \in Seq(Row)
        /\ i # 1 => SubSeq(rows, 1, i - 1)[i - 1] = rows[i - 1]
    <3>1. rows \in Seq(Row)
      BY DEF AuditTypeOK
    <3> HIDE DEF AuditInv
    <3> QED
      BY <2>0, <3>1
  <2>2. /\ Len(rows') = Len(rows) - 1
        /\ rows'[i] = rows[i + 1]
        /\ i # 1 => rows'[i - 1] = rows[i - 1]
    <3> DEFINE lo == SubSeq(rows, 1, i - 1)
               hi == SubSeq(rows, i + 1, Len(rows))
    <3>1. rows' = lo \o hi
      BY DEF LoseRow
    <3> HIDE DEF lo, hi
    <3>2. /\ lo \in Seq(Row) /\ hi \in Seq(Row)
          /\ Len(lo) = i - 1 /\ Len(hi) = Len(rows) - i
          /\ hi[1] = rows[i + 1] /\ (i # 1 => lo[i - 1] = rows[i - 1])
      BY <2>1 DEF lo, hi
    <3>3. /\ Len(lo \o hi) = Len(lo) + Len(hi)
          /\ \A j \in 1..(Len(lo) + Len(hi)) :
               (lo \o hi)[j] = IF j <= Len(lo) THEN lo[j] ELSE hi[j - Len(lo)]
      BY <3>2, ConcatProperties
    <3>4. rows'[i] = hi[1]
      BY <2>0, <3>1, <3>2, <3>3
    <3>5. i # 1 => rows'[i - 1] = lo[i - 1]
      BY <2>0, <3>1, <3>2, <3>3
    <3>6. Len(rows') = Len(rows) - 1
      BY <2>0, <3>1, <3>2, <3>3
    <3> QED
      BY <3>2, <3>4, <3>5, <3>6
  <2>3. ASSUME NEW j \in 1..Len(rows)
        PROVE  rows[j].hash.record.entry = j /\ rows[j].prev = j - 1
    <3>1. AsInserted(j) /\ j \notin late
      BY <1>2 DEF ChainInv, LoseRow
    <3> QED
      BY <3>1 DEF AsInserted, ComputeHash
  <2>4. rows[i + 1].prev = i
    BY <2>0, <2>3
  <2>5. HashBefore(i)' = i - 1
    BY <2>0, <2>2, <2>3 DEF HashBefore, Genesis
  <2>6. ~Accepted(i)'
    BY <2>0, <2>2, <2>4, <2>5 DEF Accepted
  <2> QED
    BY <2>0, <2>2, <2>6
<1> QED
  BY <1>2 DEF ReadInv, ChainInv, ScarInv, LoseRow

-----------------------------------------------------------------------------
\* AuditInv is an invariant of Audit.
THEOREM AuditInvariant == AuditSpec => []AuditInv
<1>1. ASSUME AuditInit PROVE AuditInv
  <2>1. Len(rows) = 0 /\ rows \in Seq(Row) /\ written \in Seq(Row) /\ Len(written) = 0
    BY <1>1 DEF AuditInit
  <2>2. AuditTypeOK
    <3>1. key \in [Writers -> Keys]
      BY <1>1 DEF AuditInit, Keys
    <3>2. prev \in [Writers -> Nat]
      BY <1>1 DEF AuditInit, Genesis
    <3>3. pc \in [Writers -> {"start", "create", "write", "ready", "log"}]
      BY <1>1 DEF AuditInit
    <3>4. Len(rows) <= Len(written)
      BY <2>1
    <3>5. /\ damaged \in BOOLEAN /\ cut \in BOOLEAN
          /\ keyFile \in {"absent", "empty", "plain", "padded"}
          /\ readAt \in [Writers -> Nat] /\ late \in SUBSET Nat
      BY <1>1 DEF AuditInit
    <3> QED
      BY <2>1, <3>1, <3>2, <3>3, <3>4, <3>5 DEF AuditTypeOK
  <2>3. ReadInv
    BY <1>1 DEF AuditInit, ReadInv
  <2>4. ChainInv /\ ScarInv
    BY <1>1, <2>1 DEF AuditInit, ChainInv, ScarInv
  <2> QED
    BY <2>2, <2>3, <2>4 DEF AuditInv
<1>2. ASSUME AuditInv, [AuditNext]_auditVars PROVE AuditInv'
  <2> USE <1>2 DEF AuditInv
  <2>0. UNCHANGED <<table, late>> => ChainInv' /\ ScarInv'
    BY DEF table, ChainInv, ScarInv, AsInserted, Accepted, HashBefore, ReadBack
  <2>1. ASSUME UNCHANGED <<table, late, readAt, prev>>,
               \A w \in Writers : pc'[w] = "log" => pc[w] = "log"
        PROVE  ReadInv' /\ ChainInv' /\ ScarInv'
    BY <2>0, <2>1 DEF table, ReadInv
  <2>2. CASE UNCHANGED auditVars
    BY <2>1, <2>2, TypesAreKept DEF auditVars
  <2>3. ASSUME NEW w \in Writers, FindKey(w) \/ CreateKeyFile(w) \/ WriteKey(w)
                                  \/ InsertFails(w) \/ Restart(w)
        PROVE  ReadInv' /\ ChainInv' /\ ScarInv'
    BY <2>1, <2>3 DEF FindKey, CreateKeyFile, WriteKey, InsertFails, Restart, AuditTypeOK
  <2>4. ASSUME NEW w \in Writers, GetLastHash(w)
        PROVE  ReadInv' /\ ChainInv' /\ ScarInv'
    <3>1. Len(written) \in Nat
      BY DEF AuditTypeOK
    <3>2. ReadInv'
      BY <2>4, <3>1, LastEntry DEF GetLastHash, ReadInv, AuditTypeOK, table
    <3> QED
      BY <2>0, <2>4, <3>2 DEF GetLastHash
  <2> QED
    BY <2>2, <2>3, <2>4, InsertKeeps, AlterKeeps, LossKeeps, TypesAreKept DEF AuditNext, Writer
<1> QED
  BY <1>1, <1>2, PTL DEF AuditSpec

\* In a table that nobody touched, verify_integrity reports the entries made with
\* another key, those the columns do not give back and those that came late, and
\* no other.
THEOREM AlarmsAreDeserved == AuditSpec => []AlarmsHaveACause
<1>1. ASSUME AuditInv, ~damaged, NEW k \in Keys, NEW i \in 1..Len(rows)
      PROVE  (\/ rows[i].prev # HashBefore(i)
              \/ rows[i].hash # ComputeHash(k, FromColumns(rows[i].record), rows[i].prev))
               <=> (rows[i].hash.key # k \/ written[i].record.null \/ i \in late)
  <2>1. /\ rows = written /\ AsInserted(i) /\ rows[i].record \in Record
        /\ i # 1 => AsInserted(i - 1)
    <3>1. i # 1 => i - 1 \in 1..Len(rows)
      OBVIOUS
    <3> QED
      BY <1>1, <3>1, Columns DEF AuditInv, ChainInv
  <2>2. HashBefore(i) = i - 1
    BY <2>1 DEF HashBefore, Genesis, AsInserted, ComputeHash
  <2>3. FromColumns(rows[i].record) = rows[i].record <=> ~rows[i].record.null
    BY <2>1 DEF FromColumns, Record
  <2>4. rows[i].hash = ComputeHash(k, FromColumns(rows[i].record), rows[i].prev)
          <=> rows[i].hash.key = k /\ FromColumns(rows[i].record) = rows[i].record
    BY <2>1 DEF AsInserted, ComputeHash
  <2> QED
    BY <2>1, <2>2, <2>3, <2>4 DEF AsInserted
<1>2. AuditInv => AlarmsHaveACause
  BY <1>1 DEF AlarmsHaveACause, Broken
<1> QED
  BY <1>2, AuditInvariant, PTL

\* What verify_integrity accepts reads as what was logged, if no two logs
\* overlapped and the end was not lost.
THEOREM VerificationIsComplete == AuditSpec => []VerifiedIsWhole
<1>1. ASSUME AuditInv, late = {}, ~cut, NEW k \in Keys, Broken(k) = {}
      PROVE  ReadBack(rows) = ReadBack(written)
  <2>1. ASSUME NEW i \in 1..Len(rows) PROVE Accepted(i)
    <3>1. rows[i].prev = HashBefore(i)
          /\ rows[i].hash = ComputeHash(k, FromColumns(rows[i].record), rows[i].prev)
      BY <1>1 DEF Broken
    <3>2. rows[i].hash.key = k
      BY <3>1 DEF ComputeHash
    <3> QED
      BY <3>1, <3>2 DEF Accepted
  <2>2. CASE damaged
    BY <1>1, <2>1, <2>2 DEF AuditInv, ScarInv
  <2>3. CASE ~damaged
    <3>1. rows = written
      BY <1>1, <2>3 DEF AuditInv, ChainInv
    <3> QED
      BY <3>1
  <2> QED
    BY <2>2, <2>3
<1>2. AuditInv => VerifiedIsWhole
  BY <1>1 DEF VerifiedIsWhole
<1> QED
  BY <1>2, AuditInvariant, PTL

-----------------------------------------------------------------------------
(***************************************************************************)
(* EventStore.                                                             *)
(***************************************************************************)
(* The stream of events.                                                   *)

\* The versions of the rows are 1..n, and no two rows share one.
StreamOf(rs, n) ==
  /\ n \in Nat
  /\ rs \subseteq [version : 1..n, by : Threads]
  /\ \A v \in 1..n : \E r \in rs : r.version = v
  /\ \A r, s \in rs : r.version = s.version => r = s

\* The rows of a stream after version k are as many as the versions after it
\* (what reconstruct_state applies to a snapshot of version k).
LEMMA StreamTail ==
  ASSUME NEW rs, NEW n, StreamOf(rs, n), NEW k \in 0..n
  PROVE  /\ IsFiniteSet({r \in rs : r.version > k})
         /\ Cardinality({r \in rs : r.version > k}) = n - k
<1> DEFINE tail == {r \in rs : r.version > k}
           f == [v \in (k + 1)..n |-> CHOOSE r \in rs : r.version = v]
<1>1. n \in Nat
  BY DEF StreamOf
<1>2. \A v \in (k + 1)..n : f[v] \in rs /\ f[v].version = v
  BY <1>1 DEF StreamOf
<1>3. \A r \in tail : r.version \in (k + 1)..n /\ f[r.version] = r
  <2> SUFFICES ASSUME NEW r \in tail
               PROVE  r.version \in (k + 1)..n /\ f[r.version] = r
    OBVIOUS
  <2>1. r.version \in (k + 1)..n
    BY <1>1 DEF StreamOf
  <2>2. f[r.version] \in rs /\ f[r.version].version = r.version
    BY <1>2, <2>1
  <2> QED
    BY <2>1, <2>2 DEF StreamOf
<1>4. f \in Bijection((k + 1)..n, tail)
  <2> HIDE DEF f
  <2>1. f \in [(k + 1)..n -> tail]
    <3>1. \A v \in (k + 1)..n : f[v] \in tail
      BY <1>1, <1>2
    <3>2. f = [v \in (k + 1)..n |-> f[v]]
      BY DEF f
    <3> QED
      BY <3>1, <3>2
  <2>2. \A v, u \in (k + 1)..n : f[v] = f[u] => v = u
    BY <1>2
  <2>3. \A r \in tail : \E v \in (k + 1)..n : f[v] = r
    BY <1>3
  <2> QED
    BY <2>1, <2>2, <2>3, Fun_IsBij
<1>5. IsFiniteSet((k + 1)..n) /\ Cardinality((k + 1)..n) = n - k
  <2>1. k + 1 \in Int /\ n \in Int /\ (k + 1 > n => n - k = 0) /\ n - (k + 1) + 1 = n - k
    BY <1>1
  <2> QED
    BY <2>1, FS_Interval
<1>6. ExistsBijection((k + 1)..n, tail)
  BY <1>4 DEF ExistsBijection
<1> HIDE DEF f, tail
<1>7. IsFiniteSet(tail) /\ Cardinality(tail) = n - k
  BY <1>5, <1>6, FS_Bijection
<1> QED
  BY <1>7 DEF tail

\* A stream of n rows is finite and n rows long, and its last version is n.
LEMMA StreamSize ==
  ASSUME NEW rs, NEW n, StreamOf(rs, n)
  PROVE  IsFiniteSet(rs) /\ Cardinality(rs) = n /\ LastVersion(rs) = n
<1>1. n \in Nat /\ \A r \in rs : r.version \in 1..n
  BY DEF StreamOf
<1>2. {r \in rs : r.version > 0} = rs
  BY <1>1
<1>3. IsFiniteSet(rs) /\ Cardinality(rs) = n
  BY <1>1, <1>2, StreamTail, 0 \in 0..n, n - 0 = n
<1>4. n \in {0} \cup {r.version : r \in rs}
  <2>1. CASE n = 0
    BY <2>1
  <2>2. CASE n # 0
    BY <1>1, <2>2, n \in 1..n DEF StreamOf
  <2> QED
    BY <2>1, <2>2
<1>5. \A r \in rs : r.version <= n
  BY <1>1
<1>6. \A v \in {0} \cup {r.version : r \in rs} : (\A r \in rs : r.version <= v) => v = n
  BY <1>1, <1>4
<1> DEFINE versions == {0} \cup {r.version : r \in rs}
           Top(v) == \A r \in rs : r.version <= v
<1>7. LastVersion(rs) \in versions /\ Top(LastVersion(rs))
  BY <1>4, <1>5 DEF LastVersion
<1> QED
  BY <1>3, <1>6, <1>7

\* What append_batch inserts after version n.
RowsAfter(n, k, t) == {[version |-> n + j, by |-> t] : j \in 1..k}

\* Rows numbered from the end of a stream make a longer stream.
LEMMA StreamGrows ==
  ASSUME NEW rs, NEW n, StreamOf(rs, n), NEW k \in Nat, NEW t \in Threads
  PROVE  StreamOf(rs \cup RowsAfter(n, k, t), n + k)
<1> DEFINE new == RowsAfter(n, k, t)
<1>1. n \in Nat /\ n + k \in Nat
  BY DEF StreamOf
<1>2. \A r \in rs : r \in [version : 1..n, by : Threads]
  BY DEF StreamOf
<1>3. \A r \in new : r.version \in (n + 1)..(n + k) /\ r = [version |-> r.version, by |-> t]
  BY <1>1 DEF RowsAfter
<1>4. \A v \in (n + 1)..(n + k) : [version |-> v, by |-> t] \in new
  <2> SUFFICES ASSUME NEW v \in (n + 1)..(n + k)
               PROVE  [version |-> v, by |-> t] \in new
    OBVIOUS
  <2>1. v - n \in 1..k /\ v = n + (v - n)
    BY <1>1
  <2> QED
    BY <2>1 DEF RowsAfter
<1> HIDE DEF new
<1>5. \A r \in rs \cup new : r \in [version : 1..(n + k), by : Threads]
  BY <1>1, <1>2, <1>3
<1>6. \A v \in 1..(n + k) : \E r \in rs \cup new : r.version = v
  <2> SUFFICES ASSUME NEW v \in 1..(n + k)
               PROVE  \E r \in rs \cup new : r.version = v
    OBVIOUS
  <2>1. CASE v <= n
    BY <1>1, <2>1, v \in 1..n DEF StreamOf
  <2>2. CASE v > n
    <3>1. v \in (n + 1)..(n + k)
      BY <1>1, <2>2
    <3>2. [version |-> v, by |-> t] \in new /\ [version |-> v, by |-> t].version = v
      BY <1>4, <3>1
    <3> QED
      BY <3>2
  <2> QED
    BY <1>1, <2>1, <2>2
<1>7. \A r, s \in rs \cup new : r.version = s.version => r = s
  <2>1. \A r, s \in rs : r.version = s.version => r = s
    BY DEF StreamOf
  <2>2. \A r \in rs : r.version \in 1..n
    BY <1>2
  <2> QED
    BY <1>1, <1>3, <2>1, <2>2
<1> QED
  BY <1>1, <1>5, <1>6, <1>7 DEF StreamOf, new
-----------------------------------------------------------------------------
(* The inductive invariant.                                                *)

\* What a database a connection may see is like: a stream, and a snapshot that
\* is not ahead of it.
Whole(db) ==
  /\ StreamOf(db.events, Cardinality(db.events))
  /\ db.snapshot.version <= Cardinality(db.events)

\* A connection sees whole databases, and has a transaction open that it does not
\* write in only after a failed call.
ConnectionInv ==
  \A p \in Procs :
    /\ Whole(pinned[p])
    /\ tx[p] \in {"begun", "read"} => p \in blocked

\* Events in the stream that a process sees.
Horizon(p) == Cardinality(View(p).events)

\* What the commit of t will add to the stream.
Pending(t) ==
  /\ tx[Home[t]] = "write"
  /\ pinned[Home[t]].events = events \cup NewRows(t)
  /\ size[t] > 0 => base[t] = Cardinality(events) /\ expected[t] \in {None, base[t]}

\* Only a call that is about to commit has written something.
WriteInv ==
  /\ \A p \in Procs :
       tx[p] = "write" =>
         pinned[p] = Database \/ \E t \in Threads : Home[t] = p /\ stage[t] = "commit"
  /\ \A t \in Threads : stage[t] = "commit" => Pending(t)

\* What a call has read is not ahead of what its process sees now, and an append
\* has room for its rows after the version it has read, which is the one it checked.
CallOK(t) ==
  /\ base[t] <= Horizon(Home[t])
  /\ from[t] <= Horizon(Home[t])
  /\ stage[t] = "insert" =>
       /\ size[t] > 0 /\ base[t] + size[t] <= MaxEvents
       /\ expected[t] \in {None, base[t]}
  /\ stage[t] \notin {"insert", "commit"} => size[t] = 0

CallInv == \A t \in Threads : CallOK(t)

StoreInv == StoreTypeOK /\ Whole(Database) /\ ConnectionInv /\ WriteInv /\ CallInv

NoDatabase == [events |-> {}, snapshot |-> NoSnapshot]

LEMMA EmptyIsWhole ==
  /\ NoDatabase \in Seen /\ Whole(NoDatabase)
  /\ Cardinality(NoDatabase.events) = 0
<1>1. Cardinality({}) = 0
  BY FS_EmptySet
<1>2. NoSnapshot \in [version : 0..MaxEvents, applied : Nat] /\ NoSnapshot.version = 0
  BY EventStoreAssumption DEF NoSnapshot
<1>3. NoDatabase.events = {} /\ NoDatabase.snapshot = NoSnapshot
  BY DEF NoDatabase
<1> QED
  BY <1>1, <1>2, <1>3 DEF Whole, StreamOf, Seen, NoDatabase

\* The stream is as long as its last version, within the bound.
LEMMA WholeSize ==
  ASSUME NEW db \in Seen, Whole(db)
  PROVE  /\ IsFiniteSet(db.events)
         /\ LastVersion(db.events) = Cardinality(db.events)
         /\ Cardinality(db.events) \in 0..MaxEvents
<1> DEFINE n == Cardinality(db.events)
<1>1. StreamOf(db.events, n)
  BY DEF Whole
<1>2. IsFiniteSet(db.events) /\ LastVersion(db.events) = n /\ n \in Nat
  BY <1>1, StreamSize DEF StreamOf
<1> HIDE DEF n
<1>3. n \in 0..MaxEvents
  <2>1. CASE n = 0
    BY <2>1, EventStoreAssumption
  <2>2. CASE n # 0
    <3>1. \E r \in db.events : r.version = n
      BY <1>1, <1>2, <2>2, n \in 1..n DEF StreamOf
    <3>2. \A r \in db.events : r.version \in 1..MaxEvents
      BY DEF Seen
    <3> QED
      BY <1>2, <3>1, <3>2, EventStoreAssumption
  <2> QED
    BY <2>1, <2>2
<1> QED
  BY <1>2, <1>3 DEF n

\* What a process sees is whole, and as long as its last version.
LEMMA ViewIsWhole ==
  ASSUME StoreInv, NEW p \in Procs
  PROVE  /\ View(p) \in Seen /\ Whole(View(p))
         /\ LastVersion(View(p).events) = Horizon(p)
         /\ Horizon(p) \in 0..MaxEvents
         /\ View(p).snapshot.version \in 0..Horizon(p)
<1>1. View(p) \in Seen /\ Whole(View(p))
  BY DEF StoreInv, StoreTypeOK, ConnectionInv, View
<1>2. LastVersion(View(p).events) = Horizon(p) /\ Horizon(p) \in 0..MaxEvents
  BY <1>1, WholeSize DEF Horizon
<1>3. View(p).snapshot.version \in Nat
  BY <1>1 DEF Seen
<1>4. View(p).snapshot.version <= Horizon(p)
  BY <1>1 DEF Whole, Horizon
<1> QED
  BY <1>1, <1>2, <1>3, <1>4

\* A call that could write, with no commit to come in its process, sees the last
\* commit.
LEMMA SeesLastCommit ==
  ASSUME StoreInv, NEW p \in Procs, ~LockedOut(p),
         \A t \in Threads : Home[t] = p => stage[t] # "commit"
  PROVE  View(p) = Database
<1>1. tx[p] = "write" => pinned[p] = Database
  BY DEF StoreInv, WriteInv
<1>2. tx[p] = "read" => pinned[p] = Database
  BY DEF LockedOut
<1> QED
  BY <1>1, <1>2 DEF View

\* A process has no commit to come while the lock is free, or with an append
\* that is about to insert.
LEMMA NoCommit ==
  ASSUME StoreInv, NEW t \in Threads, stage[t] = "insert" \/ lock[Home[t]] = "free"
  PROVE  \A u \in Threads : Home[u] = Home[t] => stage[u] # "commit"
BY EventStoreAssumption DEF StoreInv, StoreTypeOK

\* The part of StoreTypeOK about the connections.
ConnectionTypes ==
  /\ tx \in [Procs -> {"none", "begun", "read", "write"}]
  /\ pinned \in [Procs -> Seen]
  /\ \A p, q \in Procs : tx[p] = "write" /\ tx[q] = "write" => p = q
  /\ blocked \subseteq Procs

\* The connections go on seeing what they saw, and writing what they wrote.
SameSights ==
  \A p \in Procs :
    /\ View(p)' = View(p)
    /\ tx'[p] = "write" <=> tx[p] = "write"
    /\ tx[p] = "write" => pinned'[p] = pinned[p]

\* A SELECT.
LEMMA ReadKeeps ==
  ASSUME StoreInv, NEW p \in Procs, Read(p), UNCHANGED <<events, snapshot, blocked>>
  PROVE  ConnectionTypes' /\ ConnectionInv' /\ SameSights
<1>1. /\ ConnectionTypes /\ ConnectionInv
      /\ Database \in Seen /\ Whole(Database) /\ Database' = Database
  BY DEF StoreInv, StoreTypeOK, ConnectionTypes, Database
<1>2. CASE tx[p] = "begun"
  <2>1. /\ tx' = [tx EXCEPT ![p] = "read"]
        /\ pinned' = [pinned EXCEPT ![p] = Database]
    BY <1>2 DEF Read
  <2>2. ConnectionTypes'
    BY <1>1, <2>1 DEF ConnectionTypes
  <2>3. \A q \in Procs : /\ pinned'[q] = IF q = p THEN Database ELSE pinned[q]
                         /\ tx'[q] = IF q = p THEN "read" ELSE tx[q]
    BY <1>1, <2>1 DEF ConnectionTypes
  <2>4. ConnectionInv'
    BY <1>1, <1>2, <2>3 DEF ConnectionInv, Whole
  <2>5. SameSights
    BY <1>1, <1>2, <2>3 DEF SameSights, View
  <2> QED
    BY <2>2, <2>4, <2>5
<1>3. CASE tx[p] # "begun"
  <2>1. UNCHANGED <<tx, pinned, blocked>>
    BY <1>3 DEF Read
  <2> QED
    BY <1>1, <2>1 DEF ConnectionTypes, ConnectionInv, SameSights, View
<1> QED
  BY <1>2, <1>3

\* An INSERT that waits for the lock in vain.
LEMMA StaysOpenKeeps ==
  ASSUME StoreInv, NEW p \in Procs, StaysOpen(p), UNCHANGED <<events, snapshot>>
  PROVE  ConnectionTypes' /\ ConnectionInv' /\ SameSights
<1>1. ConnectionTypes /\ ConnectionInv /\ Database' = Database
  BY DEF StoreInv, StoreTypeOK, ConnectionTypes, Database
<1>2. \A q \in Procs : tx'[q] = IF q = p /\ tx[p] = "none" THEN "begun" ELSE tx[q]
  BY <1>1 DEF ConnectionTypes, StaysOpen
<1>3. ConnectionTypes'
  <2>1. tx' \in [Procs -> {"none", "begun", "read", "write"}]
    BY <1>1 DEF ConnectionTypes, StaysOpen
  <2>2. \A q, r \in Procs : tx'[q] = "write" /\ tx'[r] = "write" => q = r
    BY <1>1, <1>2 DEF ConnectionTypes
  <2> QED
    BY <1>1, <2>1, <2>2 DEF ConnectionTypes, StaysOpen
<1>4. pinned' = pinned /\ blocked' = blocked \cup {p}
  BY DEF StaysOpen
<1>5. ConnectionInv'
  BY <1>1, <1>2, <1>4 DEF ConnectionInv
<1>6. SameSights
  BY <1>1, <1>2, <1>4 DEF SameSights, View
<1> QED
  BY <1>3, <1>5, <1>6

\* An INSERT.
LEMMA WritesKeeps ==
  ASSUME StoreInv, NEW p \in Procs, NEW db \in Seen, Whole(db), Writes(p, db)
  PROVE  /\ ConnectionTypes' /\ ConnectionInv'
         /\ \A q \in Procs : /\ tx'[q] = IF q = p THEN "write" ELSE tx[q]
                             /\ pinned'[q] = IF q = p THEN db ELSE pinned[q]
                             /\ tx'[q] = "write" <=> q = p
<1>1. ConnectionTypes /\ ConnectionInv
  BY DEF StoreInv, StoreTypeOK, ConnectionTypes
<1>2. /\ tx' = [tx EXCEPT ![p] = "write"] /\ pinned' = [pinned EXCEPT ![p] = db]
      /\ blocked' = blocked /\ \A q \in Procs : q # p => tx[q] # "write"
  BY DEF Writes, LockedOut
<1>3. \A q \in Procs : /\ tx'[q] = IF q = p THEN "write" ELSE tx[q]
                       /\ pinned'[q] = IF q = p THEN db ELSE pinned[q]
                       /\ tx'[q] = "write" <=> q = p
  BY <1>1, <1>2 DEF ConnectionTypes
<1>4. ConnectionTypes'
  BY <1>1, <1>2, <1>3 DEF ConnectionTypes
<1>5. ConnectionInv'
  BY <1>1, <1>2, <1>3 DEF ConnectionInv, Whole
<1> QED
  BY <1>3, <1>4, <1>5

\* A commit, a rollback or a kill.
LEMMA ClosedKeeps ==
  ASSUME StoreInv, NEW p \in Procs, Closed(p),
         blocked' = blocked \/ blocked' = blocked \ {p}
  PROVE  /\ ConnectionTypes' /\ ConnectionInv'
         /\ \A q \in Procs : /\ tx'[q] = IF q = p THEN "none" ELSE tx[q]
                             /\ q # p => pinned'[q] = pinned[q]
<1>1. ConnectionTypes /\ ConnectionInv
  BY DEF StoreInv, StoreTypeOK, ConnectionTypes
<1>2. pinned' = [pinned EXCEPT ![p] = NoDatabase] /\ tx' = [tx EXCEPT ![p] = "none"]
  BY DEF Closed, NoDatabase
<1>3. \A q \in Procs : /\ tx'[q] = IF q = p THEN "none" ELSE tx[q]
                       /\ pinned'[q] = IF q = p THEN NoDatabase ELSE pinned[q]
  BY <1>1, <1>2 DEF ConnectionTypes
<1>4. ConnectionTypes'
  BY <1>1, <1>2, <1>3, EmptyIsWhole DEF ConnectionTypes
<1>5. ConnectionInv'
  BY <1>1, <1>3, EmptyIsWhole DEF ConnectionInv, Whole
<1> QED
  BY <1>3, <1>4, <1>5

-----------------------------------------------------------------------------
(* The other half: the calls of the threads.                               *)

CallTypes ==
  /\ lock \in [Procs -> Threads \cup {"free"}]
  /\ stage \in [Threads -> {"idle", "insert", "commit", "count", "replay", "events", "save"}]
  /\ \A t \in Threads : stage[t] \in {"insert", "commit"} <=> lock[Home[t]] = t
  /\ base \in [Threads -> 0..MaxEvents] /\ from \in [Threads -> 0..MaxEvents]
  /\ size \in [Threads -> 0..MaxBatch]
  /\ expected \in [Threads -> {None} \cup 0..MaxEvents]
  /\ state \in [Threads -> Nat]

LEMMA TypesOfStore ==
  StoreTypeOK <=>
    /\ Database \in Seen /\ ConnectionTypes /\ CallTypes
    /\ crashes \in 0..MaxCrashes /\ overtaken \in BOOLEAN
BY DEF StoreTypeOK, ConnectionTypes, CallTypes

\* The variables of the call of t.
SameCall(t) ==
  /\ stage'[t] = stage[t] /\ base'[t] = base[t] /\ from'[t] = from[t]
  /\ size'[t] = size[t] /\ expected'[t] = expected[t]

\* A call stays as it is while its process sees no less than before.
LEMMA CallIsKept ==
  ASSUME StoreInv, NEW t \in Threads, SameCall(t),
         Horizon(Home[t])' \in Nat, Horizon(Home[t]) <= Horizon(Home[t])'
  PROVE  CallOK(t)'
<1>1. Home[t] \in Procs /\ base[t] \in Nat /\ from[t] \in Nat
  BY EventStoreAssumption DEF StoreInv, StoreTypeOK
<1>2. Horizon(Home[t]) \in Nat /\ CallOK(t)
  BY <1>1, ViewIsWhole DEF StoreInv, CallInv
<1> QED
  BY <1>1, <1>2 DEF CallOK, SameCall

\* The commits to come are the same, over the same database.
LEMMA WritesAreKept ==
  ASSUME StoreInv, UNCHANGED <<events, snapshot>>, SameSights,
         \A t \in Threads : /\ stage'[t] = "commit" <=> stage[t] = "commit"
                            /\ stage[t] = "commit" => SameCall(t)
  PROVE  WriteInv'
<1>1. Database' = Database /\ WriteInv /\ \A t \in Threads : Home[t] \in Procs
  BY EventStoreAssumption DEF StoreInv, Database
<1>2. ASSUME NEW t \in Threads, stage'[t] = "commit" PROVE Pending(t)'
  <2>1. stage[t] = "commit" /\ Pending(t) /\ SameCall(t) /\ Home[t] \in Procs
    BY <1>1, <1>2 DEF WriteInv
  <2>2. tx'[Home[t]] = "write" /\ pinned'[Home[t]] = pinned[Home[t]]
    BY <2>1 DEF SameSights, Pending
  <2>3. NewRows(t)' = NewRows(t)
    BY <2>1 DEF NewRows, SameCall
  <2> QED
    BY <2>1, <2>2, <2>3 DEF Pending, SameCall
<1> QED
  BY <1>1, <1>2 DEF WriteInv, SameSights

\* The end of a call, which held the lock or found it free.
LEMMA LeaveKeeps ==
  ASSUME StoreInv, NEW t \in Threads, Leave(t),
         stage[t] \in {"insert", "commit"} \/ lock[Home[t]] = "free"
  PROVE  /\ CallTypes'
         /\ stage'[t] = "idle"
         /\ \A u \in Threads : u # t => SameCall(u)
         /\ (\A q \in Procs : Horizon(q)' \in Nat /\ Horizon(q) <= Horizon(q)') => CallInv'
<1>1. CallTypes
  BY TypesOfStore DEF StoreInv
<1>2. \A u \in Threads :
        /\ stage'[u] = IF u = t THEN "idle" ELSE stage[u]
        /\ base'[u] = IF u = t THEN 0 ELSE base[u]
        /\ from'[u] = IF u = t THEN 0 ELSE from[u]
        /\ size'[u] = IF u = t THEN 0 ELSE size[u]
        /\ expected'[u] = IF u = t THEN None ELSE expected[u]
  BY <1>1 DEF CallTypes, Leave, CallEnds
<1>3. \A q \in Procs : lock'[q] = IF q = Home[t] THEN "free" ELSE lock[q]
  BY <1>1 DEF CallTypes, Leave
<1>4. \A u \in Threads : stage'[u] \in {"insert", "commit"} <=> lock'[Home[u]] = u
  <2> SUFFICES ASSUME NEW u \in Threads
               PROVE  stage'[u] \in {"insert", "commit"} <=> lock'[Home[u]] = u
    OBVIOUS
  <2>1. Home[u] \in Procs /\ u # "free" /\ t # "free"
    BY EventStoreAssumption
  <2>2. stage[u] \in {"insert", "commit"} <=> lock[Home[u]] = u
    BY <1>1 DEF CallTypes
  <2>3. stage[t] \in {"insert", "commit"} <=> lock[Home[t]] = t
    BY <1>1 DEF CallTypes
  <2> QED
    BY <1>2, <1>3, <2>1, <2>2, <2>3
<1>5. CallTypes'
  <2>1. /\ lock' \in [Procs -> Threads \cup {"free"}]
        /\ stage' \in [Threads -> {"idle", "insert", "commit", "count", "replay", "events", "save"}]
    BY <1>1 DEF CallTypes, Leave, CallEnds
  <2>2. /\ base' \in [Threads -> 0..MaxEvents] /\ from' \in [Threads -> 0..MaxEvents]
        /\ size' \in [Threads -> 0..MaxBatch]
        /\ expected' \in [Threads -> {None} \cup 0..MaxEvents]
        /\ state' \in [Threads -> Nat]
    BY <1>1, EventStoreAssumption DEF CallTypes, Leave, CallEnds
  <2> QED
    BY <1>4, <2>1, <2>2 DEF CallTypes
<1>6. \A u \in Threads : u # t => SameCall(u)
  BY <1>2 DEF SameCall
<1>7. ASSUME \A q \in Procs : Horizon(q)' \in Nat /\ Horizon(q) <= Horizon(q)' PROVE CallInv'
  <2>1. Home[t] \in Procs
    BY EventStoreAssumption
  <2>2. CallOK(t)'
    BY <1>2, <1>7, <2>1 DEF CallOK
  <2>3. ASSUME NEW u \in Threads, u # t PROVE CallOK(u)'
    BY <1>6, <1>7, <2>3, CallIsKept, EventStoreAssumption
  <2> QED
    BY <2>2, <2>3 DEF CallInv
<1> QED
  BY <1>2, <1>5, <1>6, <1>7

\* Where the connections see the same, the horizons are the same.
LEMMA SameHorizons ==
  ASSUME StoreInv, SameSights
  PROVE  \A q \in Procs : Horizon(q)' \in Nat /\ Horizon(q) <= Horizon(q)'
<1>1. ASSUME NEW q \in Procs PROVE Horizon(q)' = Horizon(q) /\ Horizon(q) \in Nat
  BY ViewIsWhole DEF Horizon, SameSights
<1> QED
  BY <1>1
-----------------------------------------------------------------------------
(* The steps.                                                              *)

LEMMA ReadOnlyKeeps ==
  ASSUME StoreInv, NEW p \in Procs, ReadOnly(p)
  PROVE  StoreInv'
<1>1. Read(p) /\ UNCHANGED <<events, snapshot, lock, call, crashes, overtaken, blocked>>
  BY DEF ReadOnly
<1>2. ConnectionTypes' /\ ConnectionInv' /\ SameSights
  BY <1>1, ReadKeeps
<1>3. CallTypes' /\ (Database \in Seen)' /\ Whole(Database)'
  BY <1>1, TypesOfStore DEF StoreInv, CallTypes, Database, call
<1>4. \A t \in Threads : SameCall(t) /\ stage'[t] = stage[t] /\ Home[t] \in Procs
  BY <1>1, EventStoreAssumption DEF SameCall, call
<1>5. CallInv'
  BY <1>2, <1>4, SameHorizons, CallIsKept DEF CallInv
<1>6. WriteInv'
  BY <1>1, <1>2, <1>4, WritesAreKept
<1>7. StoreTypeOK'
  BY <1>1, <1>2, <1>3, TypesOfStore DEF StoreInv, StoreTypeOK, ConnectionTypes, CallTypes
<1> QED
  BY <1>2, <1>3, <1>5, <1>6, <1>7 DEF StoreInv

LEMMA EnterKeeps ==
  ASSUME StoreInv, NEW t \in Threads, NEW k \in 1..MaxBatch, NEW check \in BOOLEAN,
         Enter(t, k, check)
  PROVE  StoreInv'
<1> DEFINE p == Home[t]
           v == LastVersion(View(p).events)
<1>1. /\ stage[t] = "idle" /\ lock[p] = "free" /\ v + k <= MaxEvents
      /\ Read(p)
      /\ lock' = [lock EXCEPT ![p] = t] /\ stage' = [stage EXCEPT ![t] = "insert"]
      /\ base' = [base EXCEPT ![t] = v] /\ size' = [size EXCEPT ![t] = k]
      /\ expected' = [expected EXCEPT ![t] = IF check THEN v ELSE None]
      /\ UNCHANGED <<events, snapshot, from, state, crashes, overtaken, blocked>>
  BY DEF Enter
<1>2. p \in Procs /\ k \in Nat \ {0} /\ k \in 0..MaxBatch
  BY EventStoreAssumption
<1>3. CallTypes /\ CallInv /\ Database \in Seen /\ Whole(Database)
  BY TypesOfStore DEF StoreInv
<1>4. v \in 0..MaxEvents /\ v = Horizon(p)
  BY <1>2, ViewIsWhole
<1>5. ConnectionTypes' /\ ConnectionInv' /\ SameSights
  BY <1>1, <1>2, ReadKeeps
<1> HIDE DEF v
<1>6. \A u \in Threads :
        /\ stage'[u] = IF u = t THEN "insert" ELSE stage[u]
        /\ base'[u] = IF u = t THEN v ELSE base[u]
        /\ size'[u] = IF u = t THEN k ELSE size[u]
        /\ expected'[u] = IF u = t THEN IF check THEN v ELSE None ELSE expected[u]
        /\ from'[u] = from[u]
  BY <1>1, <1>3 DEF CallTypes
<1>7. \A u \in Threads : stage'[u] \in {"insert", "commit"} <=> lock'[Home[u]] = u
  <2> SUFFICES ASSUME NEW u \in Threads
               PROVE  stage'[u] \in {"insert", "commit"} <=> lock'[Home[u]] = u
    OBVIOUS
  <2>1. Home[u] \in Procs /\ u # "free" /\ t # "free"
    BY EventStoreAssumption
  <2>2. stage[u] \in {"insert", "commit"} <=> lock[Home[u]] = u
    BY <1>3 DEF CallTypes
  <2>3. lock'[Home[u]] = IF Home[u] = p THEN t ELSE lock[Home[u]]
    BY <1>1, <1>3, <2>1 DEF CallTypes
  <2> QED
    BY <1>1, <1>6, <2>1, <2>2, <2>3
<1>8. CallTypes'
  <2>1. /\ lock' \in [Procs -> Threads \cup {"free"}]
        /\ stage' \in [Threads -> {"idle", "insert", "commit", "count", "replay", "events", "save"}]
        /\ state' \in [Threads -> Nat] /\ from' \in [Threads -> 0..MaxEvents]
    BY <1>1, <1>3 DEF CallTypes
  <2>2. /\ base' \in [Threads -> 0..MaxEvents] /\ size' \in [Threads -> 0..MaxBatch]
    BY <1>1, <1>2, <1>3, <1>4 DEF CallTypes
  <2>3. expected' \in [Threads -> {None} \cup 0..MaxEvents]
    BY <1>1, <1>3, <1>4 DEF CallTypes
  <2> QED
    BY <1>7, <2>1, <2>2, <2>3 DEF CallTypes
<1>9. \A u \in Threads : u # t => SameCall(u)
  BY <1>6 DEF SameCall
<1>10. CallInv'
  <2>1. Horizon(p)' = Horizon(p) /\ from[t] <= Horizon(p)
    BY <1>2, <1>3, <1>5 DEF SameSights, Horizon, CallInv, CallOK
  <2>2. CallOK(t)'
    BY <1>1, <1>2, <1>4, <1>6, <2>1 DEF CallOK
  <2>3. ASSUME NEW u \in Threads, u # t PROVE CallOK(u)'
    BY <1>5, <1>9, <2>3, SameHorizons, CallIsKept, EventStoreAssumption
  <2> QED
    BY <2>2, <2>3 DEF CallInv
<1>11. WriteInv'
  BY <1>1, <1>5, <1>6, <1>9, WritesAreKept
<1>12. StoreTypeOK'
  BY <1>1, <1>5, <1>8 DEF StoreInv, StoreTypeOK, ConnectionTypes, CallTypes, Database
<1> QED
  BY <1>1, <1>3, <1>5, <1>10, <1>11, <1>12 DEF StoreInv, Whole, Database

\* A row that gets in follows the last one, and leaves a longer stream.
LEMMA AppendIsNext ==
  ASSUME StoreInv, NEW t \in Threads, stage[t] = "insert", ~Taken(t), ~LockedOut(Home[t])
  PROVE  /\ base[t] = Cardinality(events) /\ size[t] \in 1..MaxBatch
         /\ StreamOf(events, base[t]) /\ StreamOf(events \cup NewRows(t), base[t] + size[t])
         /\ base[t] + size[t] <= MaxEvents
         /\ NewRows(t) = RowsAfter(base[t], size[t], t)
<1>1. Database \in Seen /\ Whole(Database) /\ CallInv /\ CallTypes /\ Database.events = events
  BY TypesOfStore DEF StoreInv, Database
<1>2. StreamOf(events, Cardinality(events)) /\ Cardinality(events) \in Nat
  BY <1>1, WholeSize DEF Whole
<1>3. Horizon(Home[t]) = Cardinality(events)
  <2>1. View(Home[t]) = Database
    BY NoCommit, SeesLastCommit, EventStoreAssumption
  <2> QED
    BY <1>1, <2>1 DEF Horizon
<1>4. /\ base[t] \in Nat /\ size[t] \in 1..MaxBatch /\ base[t] <= Cardinality(events)
      /\ base[t] + size[t] <= MaxEvents
  BY <1>1, <1>3, EventStoreAssumption DEF CallInv, CallOK, CallTypes
<1>5. base[t] = Cardinality(events)
  <2> SUFFICES ASSUME base[t] < Cardinality(events)
               PROVE  FALSE
    BY <1>2, <1>4
  <2>1. PICK r \in events : r.version = base[t] + 1
    BY <1>2, <1>4, base[t] + 1 \in 1..Cardinality(events) DEF StreamOf
  <2>2. [version |-> base[t] + 1, by |-> t] \in NewRows(t)
    BY <1>4, 1 \in 1..size[t] DEF NewRows
  <2> QED
    BY <2>1, <2>2 DEF Taken
<1>6. NewRows(t) = RowsAfter(base[t], size[t], t)
  BY DEF NewRows, RowsAfter
<1> QED
  BY <1>2, <1>4, <1>5, <1>6, StreamGrows

\* What an INSERT writes, of an append or of save_snapshot, is to be committed by
\* its call.
LEMMA WriteIsPending ==
  ASSUME StoreInv, NEW t \in Threads, NEW db \in Seen, Whole(db),
         Writes(Home[t], db), Cardinality(events) <= Cardinality(db.events),
         stage[t] = "insert" \/ lock[Home[t]] = "free",
         stage' = [stage EXCEPT ![t] = "commit"], lock' = [lock EXCEPT ![Home[t]] = t],
         UNCHANGED <<events, snapshot, base, from, size, expected, state, crashes, overtaken>>,
         db.events = events \cup NewRows(t),
         size[t] > 0 => base[t] = Cardinality(events) /\ expected[t] \in {None, base[t]}
  PROVE  StoreInv'
<1> DEFINE p == Home[t]
<1>1. p \in Procs /\ ~LockedOut(p) /\ CallTypes /\ WriteInv /\ CallInv /\ Database' = Database
  BY EventStoreAssumption, TypesOfStore DEF StoreInv, Database, Writes
<1>2. /\ ConnectionTypes' /\ ConnectionInv'
      /\ \A q \in Procs : /\ tx'[q] = IF q = p THEN "write" ELSE tx[q]
                          /\ pinned'[q] = IF q = p THEN db ELSE pinned[q]
                          /\ tx'[q] = "write" <=> q = p
  BY <1>1, WritesKeeps
<1>3. \A u \in Threads : /\ stage'[u] = IF u = t THEN "commit" ELSE stage[u]
                         /\ lock'[Home[u]] = IF Home[u] = p THEN t ELSE lock[Home[u]]
                         /\ Home[u] \in Procs /\ u # "free"
  BY <1>1, EventStoreAssumption DEF CallTypes
<1>4. CallTypes'
  <2>1. ASSUME NEW u \in Threads PROVE stage'[u] \in {"insert", "commit"} <=> lock'[Home[u]] = u
    <3>1. stage[u] \in {"insert", "commit"} <=> lock[Home[u]] = u
      BY <1>1 DEF CallTypes
    <3>2. stage[t] \in {"insert", "commit"} <=> lock[p] = t
      BY <1>1 DEF CallTypes
    <3> QED
      BY <1>3, <3>1, <3>2
  <2> QED
    BY <1>1, <2>1 DEF CallTypes
<1>5. View(p) = Database /\ Database.events = events
  BY <1>1, NoCommit, SeesLastCommit DEF Database
<1>6. ASSUME NEW q \in Procs PROVE Horizon(q)' \in Nat /\ Horizon(q) <= Horizon(q)'
  <2>0. Horizon(q) \in Nat
    BY ViewIsWhole
  <2>1. CASE q = p
    <3>1. View(q)' = db
      BY <1>2, <2>1 DEF View
    <3>2. Cardinality(db.events) \in Nat
      <4>1. Cardinality(db.events) \in 0..MaxEvents
        BY WholeSize
      <4> QED
        BY <4>1
    <3> QED
      BY <1>5, <2>0, <2>1, <3>1, <3>2 DEF Horizon
  <2>2. CASE q # p
    <3>1. View(q)' = View(q)
      BY <1>1, <1>2, <2>2 DEF View
    <3> QED
      BY <2>0, <3>1 DEF Horizon
  <2> QED
    BY <2>1, <2>2
<1>7. CallInv'
  <2>1. ASSUME NEW u \in Threads, u # t PROVE CallOK(u)'
    <3>1. SameCall(u)
      BY <1>3, <2>1 DEF SameCall
    <3> QED
      BY <1>3, <1>6, <3>1, CallIsKept
  <2>2. CallOK(t)'
    <3>1. base[t] <= Horizon(p) /\ from[t] <= Horizon(p) /\ base[t] \in Nat /\ from[t] \in Nat
      BY <1>1 DEF CallInv, CallOK, CallTypes
    <3>2. Horizon(p) \in Nat /\ Horizon(p)' \in Nat /\ Horizon(p) <= Horizon(p)'
      BY <1>1, <1>6, ViewIsWhole
    <3> QED
      BY <1>3, <3>1, <3>2 DEF CallOK
  <2> QED
    BY <2>1, <2>2 DEF CallInv
<1>8. WriteInv'
  <2>1. Pending(t)'
    BY <1>1, <1>2 DEF Pending, NewRows
  <2>2. ASSUME NEW u \in Threads, u # t, stage'[u] = "commit" PROVE FALSE
    <3>1. tx[Home[u]] = "write" /\ Home[u] \in Procs
      BY <1>1, <1>3, <2>2 DEF WriteInv, Pending
    <3>2. Home[u] = p
      BY <1>2, <3>1
    <3> QED
      BY <1>3, <2>2, <3>2, NoCommit
  <2>3. \A q \in Procs : tx'[q] = "write" => Home[t] = q /\ stage'[t] = "commit"
    BY <1>2, <1>3
  <2> QED
    BY <2>1, <2>2, <2>3 DEF WriteInv
<1>9. StoreTypeOK'
  BY <1>1, <1>2, <1>4, TypesOfStore DEF StoreInv, StoreTypeOK, ConnectionTypes, CallTypes
<1>10. Whole(Database)'
  BY <1>1 DEF StoreInv, Whole
<1>11. ConnectionInv'
  BY <1>2
<1> QED
  BY <1>7, <1>8, <1>9, <1>10, <1>11 DEF StoreInv

\* A call that ends without a change of the database.
LEMMA FailureKeeps ==
  ASSUME StoreInv, NEW t \in Threads, Leave(t),
         stage[t] = "insert" \/ lock[Home[t]] = "free", stage[t] # "commit",
         UNCHANGED <<events, snapshot, crashes, overtaken>>,
         \/ StaysOpen(Home[t])
         \/ Writes(Home[t], Database)
         \/ ~LockedOut(Home[t]) /\ Closed(Home[t]) /\ UNCHANGED blocked
  PROVE  StoreInv'
<1> DEFINE p == Home[t]
<1>1. /\ p \in Procs /\ CallTypes /\ WriteInv /\ Database' = Database
      /\ Database \in Seen /\ Whole(Database)
      /\ \A u \in Threads : Home[u] \in Procs /\ (Home[u] = p => stage[u] # "commit")
  BY EventStoreAssumption, TypesOfStore, NoCommit DEF StoreInv, Database
<1>2. /\ CallTypes' /\ stage'[t] = "idle"
      /\ \A u \in Threads : u # t => SameCall(u)
      /\ (\A q \in Procs : Horizon(q)' \in Nat /\ Horizon(q) <= Horizon(q)') => CallInv'
  BY LeaveKeeps
<1>3. \A u \in Threads : /\ stage'[u] = "commit" <=> stage[u] = "commit"
                         /\ stage[u] = "commit" => SameCall(u)
  BY <1>2 DEF SameCall
<1>4. ASSUME ConnectionTypes', ConnectionInv', WriteInv', CallInv' PROVE StoreInv'
  <2>1. StoreTypeOK'
    BY <1>1, <1>2, <1>4, TypesOfStore DEF StoreInv, StoreTypeOK, ConnectionTypes, CallTypes
  <2> QED
    BY <1>1, <1>4, <2>1 DEF StoreInv, Whole
<1>5. CASE StaysOpen(p)
  <2>1. ConnectionTypes' /\ ConnectionInv' /\ SameSights
    BY <1>1, <1>5, StaysOpenKeeps
  <2>2. WriteInv'
    BY <1>3, <2>1, WritesAreKept
  <2> QED
    BY <1>2, <1>4, <2>1, <2>2, SameHorizons
<1>6. CASE Writes(p, Database) \/ (~LockedOut(p) /\ Closed(p) /\ UNCHANGED blocked)
  <2>1. View(p) = Database
    BY <1>1, <1>6, SeesLastCommit DEF Writes
  <2>2. /\ ConnectionTypes' /\ ConnectionInv'
        /\ \A q \in Procs : q # p => tx'[q] = tx[q] /\ pinned'[q] = pinned[q]
        /\ \/ tx'[p] = "none"
           \/ tx'[p] = "write" /\ pinned'[p] = Database
    BY <1>1, <1>6, WritesKeeps, ClosedKeeps
  <2>3. \A q \in Procs : View(q)' = View(q)
    BY <1>1, <2>1, <2>2 DEF View
  <2>4. \A q \in Procs : Horizon(q)' \in Nat /\ Horizon(q) <= Horizon(q)'
    <3>1. ASSUME NEW q \in Procs PROVE Horizon(q)' = Horizon(q) /\ Horizon(q) \in Nat
      BY <2>3, ViewIsWhole DEF Horizon
    <3> QED
      BY <3>1
  <2>5. WriteInv'
    <3>1. ASSUME NEW u \in Threads, stage'[u] = "commit" PROVE Pending(u)'
      <4>1. stage[u] = "commit" /\ SameCall(u) /\ Pending(u) /\ Home[u] # p
        BY <1>1, <1>3, <3>1 DEF WriteInv
      <4>2. NewRows(u)' = NewRows(u)
        BY <4>1 DEF NewRows, SameCall
      <4> QED
        BY <1>1, <2>2, <4>1, <4>2 DEF Pending, SameCall
    <3>2. ASSUME NEW q \in Procs, tx'[q] = "write"
          PROVE  pinned'[q] = Database \/ \E u \in Threads : Home[u] = q /\ stage'[u] = "commit"
      BY <1>1, <1>3, <2>2, <3>2 DEF WriteInv
    <3> QED
      BY <1>1, <3>1, <3>2 DEF WriteInv
  <2> QED
    BY <1>2, <1>4, <2>2, <2>4, <2>5
<1>7. \/ StaysOpen(p)
      \/ Writes(p, Database) \/ (~LockedOut(p) /\ Closed(p) /\ UNCHANGED blocked)
  OBVIOUS
<1> QED
  BY <1>5, <1>6, <1>7, Zenon

LEMMA AppendKeeps ==
  ASSUME StoreInv, NEW t \in Threads, Insert(t)
  PROVE  StoreInv'
<1> DEFINE p == Home[t]
           db == [Database EXCEPT !.events = @ \cup NewRows(t)]
<1>1. stage[t] = "insert" /\ UNCHANGED <<events, snapshot, crashes, overtaken>>
  BY DEF Insert
<1>2. CASE /\ Leave(t)
           /\ \/ StaysOpen(p)
              \/ Writes(p, Database)
              \/ ~LockedOut(p) /\ Closed(p) /\ UNCHANGED blocked
  BY <1>1, <1>2, FailureKeeps
<1>3. CASE /\ ~Taken(t) /\ Writes(p, db)
           /\ stage' = [stage EXCEPT ![t] = "commit"]
           /\ UNCHANGED <<lock, base, from, size, expected, state>>
  <2>1. /\ Database \in Seen /\ Whole(Database) /\ CallInv /\ CallTypes /\ p \in Procs
        /\ Database.events = events /\ Database.snapshot = snapshot
    BY TypesOfStore, EventStoreAssumption DEF StoreInv, Database
  <2>2. db = [events |-> events \cup NewRows(t), snapshot |-> snapshot]
    BY DEF Database
  <2> HIDE DEF db
  <2>3. /\ base[t] = Cardinality(events) /\ size[t] \in 1..MaxBatch
        /\ StreamOf(events \cup NewRows(t), base[t] + size[t])
        /\ base[t] + size[t] <= MaxEvents
    BY <1>1, <1>3, AppendIsNext DEF Writes
  <2>4. base[t] \in Nat /\ size[t] \in Nat /\ base[t] + size[t] \in Nat
    BY <2>1, <2>3, EventStoreAssumption DEF CallTypes
  <2>5. Cardinality(db.events) = base[t] + size[t] /\ db.events = events \cup NewRows(t)
    BY <2>2, <2>3, StreamSize
  <2>6. /\ snapshot \in [version : 0..MaxEvents, applied : Nat]
        /\ snapshot.version \in Nat /\ snapshot.version <= Cardinality(events)
    BY <2>1 DEF Seen, Whole
  <2>7. db.events \in SUBSET [version : 1..MaxEvents, by : Threads]
    BY <2>3, <2>4, <2>5, EventStoreAssumption DEF StreamOf
  <2>8. db \in Seen /\ Whole(db)
    BY <2>2, <2>3, <2>4, <2>5, <2>6, <2>7 DEF Seen, Whole
  <2>9. lock' = [lock EXCEPT ![p] = t]
    BY <1>1, <1>3, <2>1 DEF CallTypes
  <2>10. expected[t] \in {None, base[t]}
    BY <1>1, <2>1 DEF CallInv, CallOK
  <2>11. Cardinality(events) <= Cardinality(db.events)
    BY <2>3, <2>4, <2>5
  <2> QED
    BY <1>1, <1>3, <2>3, <2>5, <2>8, <2>9, <2>10, <2>11, WriteIsPending
<1> QED
  BY <1>2, <1>3 DEF Insert

\* What a commit adds to the stream: the rows of an append, after the last one,
\* or nothing.
LEMMA CommitIsNext ==
  ASSUME StoreInv, NEW t \in Threads, stage[t] = "commit"
  PROVE  /\ Home[t] \in Procs
         /\ tx[Home[t]] = "write"
         /\ pinned[Home[t]] \in Seen /\ Whole(pinned[Home[t]])
         /\ pinned[Home[t]].events = events \cup NewRows(t)
         /\ StreamOf(events, Cardinality(events)) /\ Cardinality(events) \in Nat
         /\ \/ size[t] = 0 /\ pinned[Home[t]].events = events
            \/ /\ size[t] \in 1..MaxBatch /\ expected[t] \in {None, base[t]}
               /\ base[t] = Cardinality(events)
               /\ NewRows(t) = RowsAfter(base[t], size[t], t)
               /\ StreamOf(events \cup NewRows(t), base[t] + size[t])
<1>1. /\ Home[t] \in Procs /\ Pending(t) /\ CallTypes
      /\ pinned[Home[t]] \in Seen /\ Whole(pinned[Home[t]])
      /\ Database \in Seen /\ Whole(Database) /\ Database.events = events
  BY EventStoreAssumption, TypesOfStore
     DEF StoreInv, WriteInv, ConnectionInv, ConnectionTypes, Database
<1>2. StreamOf(events, Cardinality(events)) /\ Cardinality(events) \in Nat
  BY <1>1, WholeSize DEF Whole
<1>3. size[t] \in 0..MaxBatch
  BY <1>1 DEF CallTypes
<1>4. CASE size[t] = 0
  <2>1. NewRows(t) = {}
    BY <1>4 DEF NewRows
  <2> QED
    BY <1>1, <1>2, <1>4, <2>1 DEF Pending
<1>5. CASE size[t] # 0
  <2>1. size[t] > 0 /\ size[t] \in 1..MaxBatch /\ size[t] \in Nat
    BY <1>3, <1>5, EventStoreAssumption
  <2>2. base[t] = Cardinality(events) /\ expected[t] \in {None, base[t]}
    BY <1>1, <2>1 DEF Pending
  <2>3. NewRows(t) = RowsAfter(base[t], size[t], t)
    BY DEF NewRows, RowsAfter
  <2>4. StreamOf(events \cup NewRows(t), base[t] + size[t])
    BY <1>2, <2>1, <2>2, <2>3, StreamGrows
  <2> QED
    BY <1>1, <1>2, <2>1, <2>2, <2>3, <2>4 DEF Pending
<1> QED
  BY <1>4, <1>5

LEMMA CommitKeeps ==
  ASSUME StoreInv, NEW t \in Threads, Commit(t)
  PROVE  StoreInv'
<1> DEFINE p == Home[t]
<1>1. /\ stage[t] = "commit" /\ Leave(t) /\ Closed(p)
      /\ events' = pinned[p].events /\ snapshot' = pinned[p].snapshot
      /\ UNCHANGED <<crashes, overtaken, blocked>>
  BY DEF Commit
<1>2. /\ p \in Procs /\ tx[p] = "write" /\ pinned[p] \in Seen /\ Whole(pinned[p])
      /\ Cardinality(events) \in Nat /\ ConnectionTypes /\ WriteInv
  BY <1>1, CommitIsNext, TypesOfStore DEF StoreInv
<1>3. Database' = pinned[p]
  BY <1>1, <1>2 DEF Database, Seen
<1>4. /\ ConnectionTypes' /\ ConnectionInv'
      /\ \A q \in Procs : /\ tx'[q] = IF q = p THEN "none" ELSE tx[q]
                          /\ q # p => pinned'[q] = pinned[q]
  BY <1>1, <1>2, ClosedKeeps
<1>5. Cardinality(events') \in Nat /\ Cardinality(events) <= Cardinality(events')
  <2>1. Cardinality(events') \in Nat
    BY <1>1, <1>2, WholeSize
  <2>2. CASE events' = events
    BY <1>2, <2>2
  <2>3. CASE events' # events
    <3>1. /\ base[t] = Cardinality(events) /\ size[t] \in 1..MaxBatch
          /\ StreamOf(events', base[t] + size[t])
      BY <1>1, <2>3, CommitIsNext
    <3>2. Cardinality(events') = base[t] + size[t] /\ size[t] \in Nat
      BY <3>1, StreamSize
    <3> QED
      BY <1>2, <2>1, <3>1, <3>2
  <2> QED
    BY <2>2, <2>3
<1>6. \A q \in Procs : q # p => tx[q] # "write"
  BY <1>2 DEF ConnectionTypes
<1>7. ASSUME NEW q \in Procs PROVE Horizon(q)' \in Nat /\ Horizon(q) <= Horizon(q)'
  <2>0. Horizon(q) \in Nat
    BY ViewIsWhole
  <2>1. CASE q = p
    <3>1. View(q)' = View(q)
      BY <1>2, <1>3, <1>4, <2>1 DEF View
    <3> QED
      BY <2>0, <3>1 DEF Horizon
  <2>2. CASE q # p /\ tx[q] = "read"
    <3>1. View(q)' = View(q)
      BY <1>4, <2>2 DEF View
    <3> QED
      BY <2>0, <3>1 DEF Horizon
  <2>3. CASE q # p /\ tx[q] # "read"
    <3>1. View(q) = Database /\ View(q)' = Database'
      BY <1>4, <1>6, <2>3 DEF View
    <3>2. Horizon(q) = Cardinality(events) /\ Horizon(q)' = Cardinality(events')
      BY <3>1 DEF Horizon, Database
    <3> QED
      BY <1>5, <2>0, <3>2
  <2> QED
    BY <2>1, <2>2, <2>3
<1>8. /\ CallTypes' /\ stage'[t] = "idle"
      /\ (\A u \in Threads : u # t => SameCall(u)) /\ CallInv'
  BY <1>1, <1>7, LeaveKeeps
<1>9. WriteInv'
  <2>1. ASSUME NEW u \in Threads, stage'[u] = "commit" PROVE FALSE
    <3>1. u # t /\ stage[u] = "commit"
      BY <1>8, <2>1 DEF SameCall
    <3>2. tx[Home[u]] = "write" /\ Home[u] \in Procs
      BY <1>2, <3>1, EventStoreAssumption DEF WriteInv, Pending
    <3>3. Home[u] = p
      BY <1>6, <3>2
    <3> QED
      BY <1>1, <3>1, <3>3 DEF StoreInv, StoreTypeOK
  <2>2. \A q \in Procs : tx'[q] # "write"
    BY <1>4, <1>6
  <2> QED
    BY <2>1, <2>2 DEF WriteInv
<1>10. StoreTypeOK'
  BY <1>1, <1>2, <1>3, <1>4, <1>8, TypesOfStore DEF StoreInv, StoreTypeOK, ConnectionTypes, CallTypes
<1> QED
  BY <1>2, <1>3, <1>4, <1>8, <1>9, <1>10 DEF StoreInv, Whole

\* The SELECTs of maybe_snapshot.
LEMMA ReadsKeeps ==
  ASSUME StoreInv, NEW t \in Threads,
         NEW s \in {"idle", "count", "replay", "events", "save"}, Reads(t, s),
         stage[t] \in {"idle", "count", "replay", "events"},
         base' \in [Threads -> 0..MaxEvents], from' \in [Threads -> 0..MaxEvents],
         state' \in [Threads -> Nat], overtaken' \in BOOLEAN,
         \A u \in Threads : u # t => base'[u] = base[u] /\ from'[u] = from[u],
         base'[t] <= Horizon(Home[t]), from'[t] <= Horizon(Home[t])
  PROVE  StoreInv'
<1> DEFINE p == Home[t]
<1>1. /\ Read(p) /\ stage' = [stage EXCEPT ![t] = s]
      /\ UNCHANGED <<events, snapshot, lock, size, expected, crashes, blocked>>
  BY DEF Reads
<1>2. p \in Procs /\ CallTypes /\ CallInv /\ Database \in Seen /\ Whole(Database)
  BY EventStoreAssumption, TypesOfStore DEF StoreInv
<1>3. ConnectionTypes' /\ ConnectionInv' /\ SameSights
  BY <1>1, <1>2, ReadKeeps
<1>4. \A u \in Threads : stage'[u] = IF u = t THEN s ELSE stage[u]
  BY <1>1, <1>2 DEF CallTypes
<1>5. CallTypes'
  <2>1. \A u \in Threads : stage'[u] \in {"insert", "commit"} <=> lock'[Home[u]] = u
    BY <1>1, <1>2, <1>4 DEF CallTypes
  <2>2. stage' \in [Threads -> {"idle", "insert", "commit", "count", "replay", "events", "save"}]
    BY <1>1, <1>2 DEF CallTypes
  <2> QED
    BY <1>1, <1>2, <2>1, <2>2 DEF CallTypes
<1>6. \A u \in Threads : u # t => SameCall(u)
  BY <1>1, <1>4 DEF SameCall
<1>7. CallInv'
  <2>1. Horizon(p)' = Horizon(p)
    BY <1>2, <1>3 DEF SameSights, Horizon
  <2>2. CallOK(t)'
    <3>1. size'[t] = 0
      BY <1>1, <1>2 DEF CallInv, CallOK
    <3> QED
      BY <1>4, <2>1, <3>1 DEF CallOK
  <2>3. ASSUME NEW u \in Threads, u # t PROVE CallOK(u)'
    BY <1>3, <1>6, <2>3, SameHorizons, CallIsKept, EventStoreAssumption
  <2> QED
    BY <2>2, <2>3 DEF CallInv
<1>8. WriteInv'
  BY <1>1, <1>3, <1>4, <1>6, WritesAreKept
<1>9. StoreTypeOK'
  BY <1>1, <1>2, <1>3, <1>5, TypesOfStore DEF StoreInv, StoreTypeOK, ConnectionTypes, CallTypes, Database
<1> QED
  BY <1>1, <1>2, <1>3, <1>7, <1>8, <1>9 DEF StoreInv, Whole, Database

\* The events after the snapshot are those of the versions after its own.
LEMMA ReplayCounts ==
  ASSUME StoreInv, NEW t \in Threads
  PROVE  /\ Replay(t, View(Home[t]).events) = state[t] + (Horizon(Home[t]) - from[t])
         /\ Replay(t, View(Home[t]).events) \in Nat
<1> DEFINE rs == View(Home[t]).events
           n == Horizon(Home[t])
<1>1. Home[t] \in Procs /\ CallTypes /\ from[t] <= n
  BY EventStoreAssumption, TypesOfStore DEF StoreInv, CallInv, CallOK
<1>2. n \in Nat /\ StreamOf(rs, n)
  BY <1>1, ViewIsWhole DEF Whole, Horizon
<1>3. from[t] \in Nat /\ state[t] \in Nat
  BY <1>1 DEF CallTypes
<1> HIDE DEF rs, n
<1>4. from[t] \in 0..n
  BY <1>1, <1>2, <1>3
<1>5. Cardinality({r \in rs : r.version > from[t]}) = n - from[t]
  BY <1>2, <1>4, StreamTail
<1>6. Replay(t, rs) = state[t] + (n - from[t])
  BY <1>5 DEF Replay
<1> QED
  BY <1>2, <1>3, <1>4, <1>6 DEF rs, n

LEMMA MaybeSnapshotKeeps ==
  ASSUME StoreInv, NEW t \in Threads,
         MaybeSnapshot(t) \/ GetStreamVersion(t) \/ ReconstructState(t) \/ GetStream(t)
  PROVE  StoreInv'
<1> DEFINE p == Home[t]
<1>1. /\ p \in Procs /\ CallTypes /\ overtaken \in BOOLEAN
      /\ base[t] <= Horizon(p) /\ from[t] <= Horizon(p)
      /\ base[t] \in 0..MaxEvents /\ from[t] \in 0..MaxEvents
  BY EventStoreAssumption, TypesOfStore DEF StoreInv, CallInv, CallOK, CallTypes
<1>2. /\ View(p) \in Seen /\ LastVersion(View(p).events) = Horizon(p)
      /\ Horizon(p) \in 0..MaxEvents
      /\ View(p).snapshot.version \in 0..Horizon(p)
  BY <1>1, ViewIsWhole
<1>3. View(p).snapshot.version \in 0..MaxEvents /\ View(p).snapshot.applied \in Nat
      /\ 0 \in 0..MaxEvents /\ 0 <= Horizon(p)
  BY <1>2, EventStoreAssumption DEF Seen
<1>4. CASE MaybeSnapshot(t)
  <2>1. /\ stage[t] = "idle" /\ Reads(t, "count") /\ UNCHANGED <<base, state, overtaken>>
        /\ from' = [from EXCEPT ![t] = View(p).snapshot.version]
    BY <1>4 DEF MaybeSnapshot
  <2> DEFINE v == View(p).snapshot.version
  <2>2. v \in 0..MaxEvents /\ v <= Horizon(p)
    BY <1>2, <1>3
  <2> HIDE DEF v
  <2>3. /\ from' \in [Threads -> 0..MaxEvents] /\ from'[t] = v
        /\ \A u \in Threads : u # t => from'[u] = from[u]
    BY <1>1, <2>1, <2>2 DEF CallTypes, v
  <2> QED
    BY <1>1, <2>1, <2>2, <2>3, ReadsKeeps DEF CallTypes
<1>5. CASE GetStreamVersion(t)
  <2> DEFINE v == LastVersion(View(p).events)
  <2>1. v \in 0..MaxEvents /\ v = Horizon(p)
    BY <1>2
  <2>2. stage[t] = "count" /\ UNCHANGED <<state, overtaken>>
    BY <1>5 DEF GetStreamVersion
  <2>3. \/ Reads(t, "replay") /\ base' = [base EXCEPT ![t] = v] /\ UNCHANGED from
        \/ Reads(t, "idle") /\ from' = [from EXCEPT ![t] = 0] /\ UNCHANGED base
    BY <1>5 DEF GetStreamVersion
  <2> HIDE DEF v
  <2>4. CASE Reads(t, "replay") /\ base' = [base EXCEPT ![t] = v] /\ UNCHANGED from
    <3>1. /\ base' \in [Threads -> 0..MaxEvents] /\ base'[t] = v
          /\ \A u \in Threads : u # t => base'[u] = base[u]
      BY <1>1, <2>1, <2>4 DEF CallTypes
    <3>2. v <= Horizon(p)
      BY <1>2, <2>1
    <3> QED
      BY <1>1, <2>2, <2>4, <3>1, <3>2, ReadsKeeps DEF CallTypes
  <2>5. CASE Reads(t, "idle") /\ from' = [from EXCEPT ![t] = 0] /\ UNCHANGED base
    <3>1. /\ from' \in [Threads -> 0..MaxEvents] /\ from'[t] = 0
          /\ \A u \in Threads : u # t => from'[u] = from[u]
      BY <1>1, <1>3, <2>5 DEF CallTypes
    <3> QED
      BY <1>1, <1>3, <2>2, <2>5, <3>1, ReadsKeeps DEF CallTypes
  <2> QED
    BY <2>3, <2>4, <2>5
<1>6. CASE ReconstructState(t)
  <2>1. /\ stage[t] = "replay" /\ Reads(t, "events") /\ UNCHANGED <<base, overtaken>>
        /\ from' = [from EXCEPT ![t] = View(p).snapshot.version]
        /\ state' = [state EXCEPT ![t] = View(p).snapshot.applied]
    BY <1>6 DEF ReconstructState
  <2> DEFINE v == View(p).snapshot.version
             a == View(p).snapshot.applied
  <2>2. v \in 0..MaxEvents /\ v <= Horizon(p) /\ a \in Nat
    BY <1>2, <1>3
  <2> HIDE DEF v, a
  <2>3. /\ from' \in [Threads -> 0..MaxEvents] /\ from'[t] = v
        /\ \A u \in Threads : u # t => from'[u] = from[u]
        /\ state' \in [Threads -> Nat]
    BY <1>1, <2>1, <2>2 DEF CallTypes, v, a
  <2> QED
    BY <1>1, <2>1, <2>2, <2>3, ReadsKeeps DEF CallTypes
<1>7. CASE GetStream(t)
  <2> DEFINE n == Replay(t, View(p).events)
  <2>1. /\ stage[t] = "events" /\ Reads(t, "save") /\ UNCHANGED <<base, from>>
        /\ state' = [state EXCEPT ![t] = n] /\ overtaken' \in BOOLEAN
    BY <1>1, <1>7 DEF GetStream
  <2>2. n \in Nat
    BY <1>1, ReplayCounts DEF CallTypes
  <2> HIDE DEF n
  <2>3. state' \in [Threads -> Nat]
    BY <1>1, <2>1, <2>2 DEF CallTypes
  <2> QED
    BY <1>1, <2>1, <2>3, ReadsKeeps DEF CallTypes
<1> QED
  BY <1>4, <1>5, <1>6, <1>7

LEMMA SaveSnapshotKeeps ==
  ASSUME StoreInv, NEW t \in Threads, SaveSnapshot(t)
  PROVE  StoreInv'
<1> DEFINE p == Home[t]
           db == [Database EXCEPT !.snapshot = [version |-> base[t], applied |-> state[t]]]
<1>1. stage[t] = "save" /\ lock[p] = "free" /\ UNCHANGED <<events, snapshot, crashes, overtaken>>
  BY DEF SaveSnapshot
<1>2. CASE StaysOpen(p) /\ Leave(t)
  BY <1>1, <1>2, FailureKeeps
<1>3. CASE /\ Writes(p, db) /\ lock' = [lock EXCEPT ![p] = t]
           /\ stage' = [stage EXCEPT ![t] = "commit"]
           /\ UNCHANGED <<base, from, size, expected, state>>
  <2>1. /\ p \in Procs /\ CallTypes /\ CallInv /\ ~LockedOut(p)
        /\ Database \in Seen /\ Whole(Database) /\ Database.events = events
    BY <1>3, TypesOfStore, EventStoreAssumption DEF StoreInv, Database, Writes
  <2>2. View(p) = Database
    BY <1>1, <2>1, NoCommit, SeesLastCommit
  <2>3. base[t] <= Cardinality(events) /\ base[t] \in 0..MaxEvents /\ state[t] \in Nat
    BY <2>1, <2>2 DEF CallInv, CallOK, CallTypes, Horizon
  <2>4. db = [events |-> events, snapshot |-> [version |-> base[t], applied |-> state[t]]]
    BY DEF Database
  <2> HIDE DEF db
  <2>5. db \in Seen /\ Whole(db) /\ db.events = events
    BY <2>1, <2>3, <2>4 DEF Seen, Whole
  <2>6. size[t] = 0 /\ NewRows(t) = {}
    BY <1>1 DEF StoreInv, CallInv, CallOK, NewRows
  <2>7. Cardinality(events) \in Nat
    BY <2>1, WholeSize
  <2>8. Cardinality(events) <= Cardinality(db.events) /\ db.events = events \cup NewRows(t)
    BY <2>5, <2>6, <2>7
  <2>9. /\ Writes(Home[t], db) /\ lock[Home[t]] = "free" /\ ~(size[t] > 0)
        /\ stage' = [stage EXCEPT ![t] = "commit"] /\ lock' = [lock EXCEPT ![Home[t]] = t]
    BY <1>1, <1>3, <2>6
  <2>10. UNCHANGED <<events, snapshot, base, from, size, expected, state, crashes, overtaken>>
    BY <1>1, <1>3
  <2> QED
    BY <2>5, <2>8, <2>9, <2>10, WriteIsPending
<1> QED
  BY <1>2, <1>3 DEF SaveSnapshot

LEMMA CrashKeeps ==
  ASSUME StoreInv, NEW p \in Procs, Crash(p)
  PROVE  StoreInv'
<1> DEFINE Fresh(f, v) == [t \in Threads |-> IF Home[t] = p THEN v ELSE f[t]]
<1>1. /\ crashes < MaxCrashes /\ crashes' = crashes + 1
      /\ Closed(p) /\ lock' = [lock EXCEPT ![p] = "free"]
      /\ stage' = Fresh(stage, "idle")
      /\ base' = Fresh(base, 0) /\ from' = Fresh(from, 0)
      /\ size' = Fresh(size, 0) /\ state' = Fresh(state, 0)
      /\ expected' = Fresh(expected, None)
      /\ blocked' = blocked \ {p}
      /\ UNCHANGED <<events, snapshot, overtaken>>
  BY DEF Crash
<1>2. CallTypes /\ CallInv /\ WriteInv /\ Database \in Seen /\ Whole(Database) /\ Database' = Database
  BY <1>1, TypesOfStore DEF StoreInv, Database
<1>3. /\ ConnectionTypes' /\ ConnectionInv'
      /\ \A q \in Procs : /\ tx'[q] = IF q = p THEN "none" ELSE tx[q]
                          /\ q # p => pinned'[q] = pinned[q]
  BY <1>1, ClosedKeeps
<1>4. ASSUME NEW u \in Threads
      PROVE  /\ Home[u] \in Procs /\ u # "free"
             /\ Home[u] # p => SameCall(u)
             /\ Home[u] = p => /\ stage'[u] = "idle" /\ base'[u] = 0 /\ from'[u] = 0
                               /\ size'[u] = 0
  BY <1>1, EventStoreAssumption DEF SameCall
<1>5. CallTypes'
  <2>1. \A u \in Threads : stage'[u] \in {"insert", "commit"} <=> lock'[Home[u]] = u
    <3> SUFFICES ASSUME NEW u \in Threads
                 PROVE  stage'[u] \in {"insert", "commit"} <=> lock'[Home[u]] = u
      OBVIOUS
    <3>1. Home[u] \in Procs /\ u # "free"
      BY <1>4
    <3>2. stage[u] \in {"insert", "commit"} <=> lock[Home[u]] = u
      BY <1>2 DEF CallTypes
    <3>3. lock'[Home[u]] = IF Home[u] = p THEN "free" ELSE lock[Home[u]]
      BY <1>1, <1>2, <3>1 DEF CallTypes
    <3>4. stage'[u] = IF Home[u] = p THEN "idle" ELSE stage[u]
      BY <1>1
    <3> QED
      BY <3>1, <3>2, <3>3, <3>4
  <2>2. lock' \in [Procs -> Threads \cup {"free"}]
    BY <1>1, <1>2 DEF CallTypes
  <2>3. /\ stage' \in [Threads -> {"idle", "insert", "commit", "count", "replay", "events", "save"}]
        /\ base' \in [Threads -> 0..MaxEvents] /\ from' \in [Threads -> 0..MaxEvents]
        /\ size' \in [Threads -> 0..MaxBatch]
        /\ expected' \in [Threads -> {None} \cup 0..MaxEvents]
        /\ state' \in [Threads -> Nat]
    BY <1>1, <1>2, EventStoreAssumption DEF CallTypes
  <2> QED
    BY <2>1, <2>2, <2>3 DEF CallTypes
<1>6. ASSUME NEW q \in Procs, q # p PROVE Horizon(q)' = Horizon(q) /\ Horizon(q) \in Nat
  <2>1. View(q)' = View(q)
    BY <1>2, <1>3, <1>6 DEF View
  <2> QED
    BY <2>1, ViewIsWhole DEF Horizon
<1>7. CallInv'
  <2>1. ASSUME NEW u \in Threads, Home[u] # p PROVE CallOK(u)'
    <3>1. Horizon(Home[u])' \in Nat /\ Horizon(Home[u]) <= Horizon(Home[u])'
      BY <1>4, <1>6, <2>1
    <3> QED
      BY <1>4, <2>1, <3>1, CallIsKept
  <2>2. ASSUME NEW u \in Threads, Home[u] = p PROVE CallOK(u)'
    <3>1. View(p)' = Database
      BY <1>2, <1>3 DEF View
    <3>2. Horizon(p)' \in Nat
      BY <1>2, <3>1, WholeSize DEF Horizon
    <3> QED
      BY <1>4, <2>2, <3>2 DEF CallOK
  <2> QED
    BY <2>1, <2>2 DEF CallInv
<1>8. WriteInv'
  <2>1. ASSUME NEW u \in Threads, stage'[u] = "commit" PROVE Pending(u)'
    <3>1. Home[u] # p /\ SameCall(u) /\ Home[u] \in Procs
      BY <1>4, <2>1
    <3>2. Pending(u)
      BY <1>2, <2>1, <3>1 DEF WriteInv, SameCall
    <3>3. NewRows(u)' = NewRows(u)
      BY <3>1 DEF NewRows, SameCall
    <3> QED
      BY <1>1, <1>3, <3>1, <3>2, <3>3 DEF Pending, SameCall
  <2>2. ASSUME NEW q \in Procs, tx'[q] = "write", pinned'[q] # Database
        PROVE  \E u \in Threads : Home[u] = q /\ stage'[u] = "commit"
    <3>1. q # p /\ tx[q] = "write" /\ pinned[q] # Database
      BY <1>3, <2>2
    <3>2. PICK u \in Threads : Home[u] = q /\ stage[u] = "commit"
      BY <1>2, <3>1 DEF WriteInv
    <3> QED
      BY <1>4, <3>1, <3>2 DEF SameCall
  <2> QED
    BY <1>2, <2>1, <2>2 DEF WriteInv
<1>9. StoreTypeOK'
  <2>1. crashes \in 0..MaxCrashes /\ overtaken \in BOOLEAN
    BY TypesOfStore DEF StoreInv
  <2>2. crashes' \in 0..MaxCrashes /\ overtaken' \in BOOLEAN
    BY <1>1, <2>1, EventStoreAssumption
  <2> QED
    BY <1>1, <1>2, <1>3, <1>5, <2>2 DEF StoreTypeOK, ConnectionTypes, CallTypes, Database
<1> QED
  BY <1>1, <1>2, <1>3, <1>7, <1>8, <1>9 DEF StoreInv, Whole, Database

LEMMA StoreStepKeeps == ASSUME StoreInv, [StoreNext]_storeVars PROVE StoreInv'
<1>1. ASSUME NEW t \in Threads, NEW k \in 1..MaxBatch, NEW check \in BOOLEAN,
             Enter(t, k, check)
      PROVE  StoreInv'
  BY <1>1, EnterKeeps
<1>2. ASSUME NEW t \in Threads, MaybeSnapshot(t)
      PROVE  StoreInv'
  BY <1>2, MaybeSnapshotKeeps
<1>3. ASSUME NEW t \in Threads, Step(t)
      PROVE  StoreInv'
  BY <1>3, AppendKeeps, CommitKeeps, MaybeSnapshotKeeps, SaveSnapshotKeeps DEF Step
<1>4. ASSUME NEW p \in Procs, ReadOnly(p) \/ Crash(p)
      PROVE  StoreInv'
  BY <1>4, ReadOnlyKeeps, CrashKeeps
<1>5. CASE UNCHANGED storeVars
  BY <1>5 DEF StoreInv, StoreTypeOK, Whole, ConnectionInv, WriteInv, Pending, NewRows, CallInv, CallOK,
              Horizon, View, Database, Seen, storeVars, call
<1> QED
  BY <1>1, <1>2, <1>3, <1>4, <1>5 DEF StoreNext

LEMMA StoreInitially == ASSUME StoreInit PROVE StoreInv
<1>1. Database = NoDatabase /\ events = {}
  BY DEF StoreInit, Database, NoDatabase
<1>2. Cardinality(events) = 0 /\ Whole(Database) /\ Database \in Seen
  BY <1>1, EmptyIsWhole DEF NoDatabase
<1>3. \A p \in Procs : tx[p] = "none" /\ pinned[p] = Database
  BY DEF StoreInit
<1>4. ConnectionTypes /\ ConnectionInv
  <2>1. ConnectionInv
    BY <1>2, <1>3 DEF ConnectionInv
  <2>2. ConnectionTypes
    BY <1>2, <1>3 DEF StoreInit, ConnectionTypes
  <2> QED
    BY <2>1, <2>2
<1>5. CallTypes
  BY EventStoreAssumption DEF StoreInit, CallTypes
<1>6. WriteInv
  BY <1>3 DEF StoreInit, WriteInv
<1>7. CallInv
  <2>1. ASSUME NEW t \in Threads PROVE CallOK(t)
    <3>1. View(Home[t]) = Database
      BY <1>3, EventStoreAssumption DEF View
    <3>2. Horizon(Home[t]) = 0
      BY <1>2, <3>1 DEF Horizon, Database
    <3> QED
      BY <3>2 DEF StoreInit, CallOK
  <2> QED
    BY <2>1 DEF CallInv
<1>8. crashes \in 0..MaxCrashes /\ overtaken \in BOOLEAN
  <2>1. crashes = 0 /\ overtaken = FALSE
    BY DEF StoreInit
  <2>2. 0 \in 0..MaxCrashes
    BY EventStoreAssumption
  <2> QED
    BY <2>1, <2>2
<1> QED
  BY <1>2, <1>4, <1>5, <1>6, <1>7, <1>8, TypesOfStore DEF StoreInv

\* Versions have no gap and no duplicate in what any connection sees, what a call
\* has read is never ahead of what its process sees, and what is about to be
\* committed follows the last version (event_sourcing.py:97-174).
THEOREM StoreInvariant == StoreSpec => []StoreInv
BY StoreInitially, StoreStepKeeps, PTL DEF StoreSpec

\* Every variable of EventStore keeps its type, and the write lock of the file
\* never has two holders.
THEOREM StoreTypes == StoreSpec => []StoreTypeOK
<1>1. StoreInv => StoreTypeOK
  BY DEF StoreInv
<1> QED
  BY <1>1, StoreInvariant, PTL

\* A process sees the last commit, or what it is about to commit, unless one of
\* its calls has failed on the lock of the file (event_sourcing.py:97-128).
THEOREM ViewsAreCurrent == StoreSpec => []CurrentUnlessBlocked
<1>1. StoreInv => CurrentUnlessBlocked
  BY DEF StoreInv, StoreTypeOK, ConnectionInv, CurrentUnlessBlocked, View
<1> QED
  BY <1>1, StoreInvariant, PTL

-----------------------------------------------------------------------------
(* Appends.                                                                *)

\* Only a commit changes the committed events.
LEMMA OnlyCommitWrites ==
  ASSUME [StoreNext]_storeVars, events' # events
  PROVE  \E t \in Threads : /\ stage[t] = "commit"
                            /\ events' = pinned[Home[t]].events
                            /\ stage' = [stage EXCEPT ![t] = "idle"]
<1>1. StoreNext
  BY DEF storeVars
<1>2. ASSUME NEW t \in Threads,
             (\E k \in 1..MaxBatch, check \in BOOLEAN : Enter(t, k, check)) \/ MaybeSnapshot(t)
               \/ GetStreamVersion(t) \/ ReconstructState(t) \/ GetStream(t)
      PROVE  FALSE
  BY <1>2 DEF Enter, MaybeSnapshot, GetStreamVersion, ReconstructState, GetStream, Reads
<1>3. ASSUME NEW t \in Threads, Insert(t) \/ SaveSnapshot(t)
      PROVE  FALSE
  BY <1>3 DEF Insert, SaveSnapshot
<1>4. ASSUME NEW p \in Procs, ReadOnly(p) \/ Crash(p)
      PROVE  FALSE
  BY <1>4 DEF ReadOnly, Crash
<1>5. PICK t \in Threads : Commit(t)
  BY <1>1, <1>2, <1>3, <1>4 DEF StoreNext, Step
<1> QED
  BY <1>5 DEF Commit, Leave, CallEnds

\* An append that gave expected_version lands directly after it
\* (event_sourcing.py:97-128).
THEOREM CheckedAppends == StoreSpec => CheckedAppendIsNext
<1> DEFINE A == \A t \in Threads :
                  expected[t] # None /\ events' # events /\ stage'[t] # stage[t]
                    => Cardinality(events) = expected[t]
<1>1. ASSUME StoreInv, [StoreNext]_storeVars
      PROVE  A
  <2> SUFFICES ASSUME NEW t \in Threads,
                      expected[t] # None, events' # events, stage'[t] # stage[t]
               PROVE  Cardinality(events) = expected[t]
    OBVIOUS
  <2>1. PICK u \in Threads : /\ stage[u] = "commit" /\ events' = pinned[Home[u]].events
                             /\ stage' = [stage EXCEPT ![u] = "idle"]
    BY <1>1, OnlyCommitWrites
  <2>2. stage \in [Threads -> {"idle", "insert", "commit", "count", "replay", "events", "save"}]
    BY <1>1 DEF StoreInv, StoreTypeOK
  <2>3. t = u
    BY <2>1, <2>2
  <2> QED
    BY <1>1, <2>1, <2>3, CommitIsNext
<1> HIDE DEF A
<1>2. StoreInv /\ [StoreNext]_storeVars => [A]_storeVars
  BY <1>1
<1>3. StoreSpec => [][A]_storeVars
  BY <1>2, StoreInvariant, PTL DEF StoreSpec
<1> QED
  BY <1>3 DEF CheckedAppendIsNext, A

\* The log of a stream of n rows has length n and one writer at each place.
LogOf(rs) ==
  [v \in 1..Cardinality(rs) |-> {r.by : r \in {e \in rs : e.version = v}}]

Copies(k, t) == [j \in 1..k |-> {t}]

LEMMA LogGrows ==
  ASSUME NEW rs, NEW n, StreamOf(rs, n), NEW k \in Nat, NEW t \in Threads
  PROVE  LogOf(rs \cup RowsAfter(n, k, t)) = LogOf(rs) \o Copies(k, t)
<1> DEFINE new == RowsAfter(n, k, t)
           By(s, v) == {r.by : r \in {e \in s : e.version = v}}
           tail == Copies(k, t)
<1>1. n \in Nat /\ Cardinality(rs) = n /\ Cardinality(rs \cup new) = n + k
  <2>1. StreamOf(rs \cup new, n + k)
    BY StreamGrows
  <2> HIDE DEF new
  <2> QED
    BY <2>1, StreamSize DEF StreamOf
<1>2. \A r \in rs : r.version \in 1..n
  BY DEF StreamOf
<1>3. \A r \in new : r.version \in (n + 1)..(n + k) /\ r.by = t
  BY <1>1 DEF RowsAfter
<1>4. \A v \in (n + 1)..(n + k) : \E r \in new : r.version = v
  <2> SUFFICES ASSUME NEW v \in (n + 1)..(n + k)
               PROVE  \E r \in new : r.version = v
    OBVIOUS
  <2>1. v - n \in 1..k /\ v = n + (v - n)
    BY <1>1
  <2>2. [version |-> v, by |-> t] \in new
    BY <2>1 DEF RowsAfter
  <2> QED
    BY <2>2
<1> HIDE DEF new
<1>5. \A v \in 1..n : By(rs \cup new, v) = By(rs, v)
  <2> SUFFICES ASSUME NEW v \in 1..n
               PROVE  {e \in rs \cup new : e.version = v} = {e \in rs : e.version = v}
    OBVIOUS
  <2>1. \A r \in new : r.version # v
    BY <1>1, <1>3
  <2> QED
    BY <2>1
<1>6. \A v \in (n + 1)..(n + k) : By(rs \cup new, v) = {t}
  <2> SUFFICES ASSUME NEW v \in (n + 1)..(n + k)
               PROVE  By(rs \cup new, v) = {t}
    OBVIOUS
  <2>1. \A r \in rs : r.version # v
    BY <1>1, <1>2
  <2>2. PICK r \in new : r.version = v
    BY <1>4
  <2>3. {e \in rs \cup new : e.version = v} = {e \in new : e.version = v}
    BY <2>1
  <2>4. r \in {e \in new : e.version = v} /\ \A e \in new : e.by = t
    BY <1>3, <2>2
  <2> QED
    BY <2>3, <2>4
<1> HIDE DEF By
<1>7. LogOf(rs \cup new) = [v \in 1..(n + k) |-> By(rs \cup new, v)]
  BY <1>1 DEF LogOf, By
<1>8. LogOf(rs) = [v \in 1..n |-> By(rs, v)]
  BY <1>1 DEF LogOf, By
<1>9. \A v \in 1..(n + k) : By(rs \cup new, v) = IF v <= n THEN By(rs, v) ELSE {t}
  <2> SUFFICES ASSUME NEW v \in 1..(n + k)
               PROVE  By(rs \cup new, v) = IF v <= n THEN By(rs, v) ELSE {t}
    OBVIOUS
  <2>1. CASE v <= n
    BY <1>1, <1>5, <2>1, v \in 1..n
  <2>2. CASE ~(v <= n)
    BY <1>1, <1>6, <2>2, v \in (n + 1)..(n + k)
  <2> QED
    BY <2>1, <2>2
<1> DEFINE s == [v \in 1..n |-> By(rs, v)]
<1>10. /\ Len(s \o tail) = n + k /\ s \o tail = [i \in 1..(n + k) |-> (s \o tail)[i]]
       /\ \A i \in 1..(n + k) : (s \o tail)[i] = IF i <= n THEN By(rs, i) ELSE {t}
  <2> DEFINE S == {By(rs, v) : v \in 1..n} \cup {{t}}
  <2>1. s \in Seq(S) /\ Len(s) = n /\ \A i \in 1..n : s[i] = By(rs, i)
    BY <1>1, IsASeq
  <2>2. tail \in Seq(S) /\ Len(tail) = k /\ \A i \in 1..k : tail[i] = {t}
    BY IsASeq DEF Copies
  <2> HIDE DEF s, tail, S
  <2>3. /\ s \o tail \in Seq(S) /\ Len(s \o tail) = n + k
        /\ \A i \in 1..(n + k) : (s \o tail)[i] = IF i <= n THEN s[i] ELSE tail[i - n]
    <3>1. /\ s \o tail \in Seq(S) /\ Len(s \o tail) = Len(s) + Len(tail)
          /\ \A i \in 1..(Len(s) + Len(tail)) :
               (s \o tail)[i] = IF i <= Len(s) THEN s[i] ELSE tail[i - Len(s)]
      <4>1. s \in Seq(S) /\ tail \in Seq(S)
        BY <2>1, <2>2
      <4> QED
        BY ONLY <4>1, ConcatProperties
    <3>2. Len(s) = n /\ Len(tail) = k
      BY <2>1, <2>2
    <3> QED
      BY ONLY <3>1, <3>2
  <2>4. s \o tail = [i \in 1..(n + k) |-> (s \o tail)[i]]
    BY <2>3, LenProperties
  <2> QED
    <3>1. \A i \in 1..(n + k) : (s \o tail)[i] = IF i <= n THEN By(rs, i) ELSE {t}
      <4> SUFFICES ASSUME NEW i \in 1..(n + k)
                   PROVE  (s \o tail)[i] = IF i <= n THEN By(rs, i) ELSE {t}
        OBVIOUS
      <4>1. (s \o tail)[i] = IF i <= n THEN s[i] ELSE tail[i - n]
        BY <2>3
      <4>2. CASE i <= n
        BY <1>1, <2>1, <4>1, <4>2
      <4>3. CASE ~(i <= n)
        BY <1>1, <2>2, <4>1, <4>3, i - n \in 1..k
      <4> QED
        BY <4>2, <4>3
    <3> QED
      BY <2>3, <2>4, <3>1
<1> HIDE DEF s, tail
<1>11. [v \in 1..(n + k) |-> By(rs \cup new, v)] = s \o tail
  BY <1>9, <1>10
<1> QED
  BY <1>7, <1>8, <1>11 DEF new, s, tail

\* The table is an append-only log: versions have no gap and no duplicate, and
\* no committed event is ever changed, with several processes appending
\* (event_sourcing.py:1, 16-26).
THEOREM StoreImplementsLog == StoreSpec => ImplementsLog
<1> DEFINE log == LogOf(events)
<1>1. StoreInit => log = <<>>
  BY FS_EmptySet DEF StoreInit, LogOf
<1>2. ASSUME StoreInv, [StoreNext]_storeVars
      PROVE  log' = log \/ \E w \in Threads, k \in 1..MaxBatch : log' = log \o [j \in 1..k |-> {w}]
  <2>1. CASE events' = events
    BY <2>1 DEF LogOf
  <2>2. CASE events' # events
    <3>1. PICK t \in Threads : stage[t] = "commit" /\ events' = pinned[Home[t]].events
      BY <1>2, <2>2, OnlyCommitWrites
    <3>2. /\ StreamOf(events, base[t]) /\ size[t] \in 1..MaxBatch
          /\ events' = events \cup RowsAfter(base[t], size[t], t)
      BY <1>2, <2>2, <3>1, CommitIsNext
    <3>3. size[t] \in Nat
      BY <3>2
    <3>4. LogOf(events \cup RowsAfter(base[t], size[t], t))
            = LogOf(events) \o Copies(size[t], t)
      <4> DEFINE n == base[t]
                 k == size[t]
      <4>1. StreamOf(events, n) /\ k \in Nat
        BY <3>2, <3>3
      <4> HIDE DEF n, k
      <4>2. LogOf(events \cup RowsAfter(n, k, t)) = LogOf(events) \o Copies(k, t)
        BY <4>1, LogGrows
      <4> QED
        BY <4>2 DEF n, k
    <3>5. LogOf(events)' = LogOf(events \cup RowsAfter(base[t], size[t], t))
      <4> DEFINE X == events \cup RowsAfter(base[t], size[t], t)
      <4>1. events' = X
        BY <3>2
      <4> HIDE DEF X
      <4>2. LogOf(events)' = LogOf(X)
        BY <4>1, Zenon DEF LogOf
      <4> QED
        BY <4>2 DEF X
    <3>6. log' = log \o [j \in 1..size[t] |-> {t}]
      BY <3>4, <3>5 DEF Copies
    <3> QED
      BY <3>2, <3>6
  <2> QED
    BY <2>1, <2>2
<1>3. StoreInit => Log!Init
  BY <1>1 DEF Log!Init, LogOf
<1>4. StoreInv /\ [StoreNext]_storeVars => [Log!Next]_log
  BY <1>2 DEF Log!Next, Log!AppendEvents, LogOf
<1>5. StoreInv /\ [StoreNext]_storeVars => [Log!Next]_([v \in 1..Cardinality(events) |-> {r.by : r \in {e \in events : e.version = v}}])
  BY <1>4 DEF LogOf
<1> QED
  BY <1>3, <1>5, StoreInvariant, PTL DEF StoreSpec, ImplementsLog, Log!Spec

-----------------------------------------------------------------------------
(* Snapshots.                                                              *)

\* While no append has fallen between the reads of a maybe_snapshot, the state
\* is that of the version: in the snapshot, in what a connection has pinned or
\* is about to commit of it, in what reconstruct_state has read, and in a call
\* that is about to save.
ExactInv ==
  ~overtaken =>
    /\ snapshot.applied = snapshot.version
    /\ \A p \in Procs : pinned[p].snapshot.applied = pinned[p].snapshot.version
    /\ \A t \in Threads : stage[t] = "events" => state[t] = from[t]
    /\ \A t \in Threads : stage[t] = "save" => state[t] = base[t]

LEMMA ExactView ==
  ASSUME ExactInv, ~overtaken, NEW p \in Procs
  PROVE  View(p).snapshot.applied = View(p).snapshot.version
BY DEF ExactInv, View, Database

\* The connections: what is pinned is the last commit, what was, nothing, or what
\* an INSERT has made of an exact database.
LEMMA PinnedIsExact ==
  ASSUME StoreInv, ExactInv, NEW p \in Procs, ~overtaken,
         \/ Read(p) \/ StaysOpen(p) \/ Closed(p) \/ UNCHANGED pinned
         \/ \E db : Writes(p, db) /\ db.snapshot.applied = db.snapshot.version
  PROVE  \A q \in Procs : pinned'[q].snapshot.applied = pinned'[q].snapshot.version
<1>1. /\ Database.snapshot.applied = Database.snapshot.version
      /\ \A q \in Procs : pinned[q].snapshot.applied = pinned[q].snapshot.version
  BY DEF ExactInv, Database
<1>2. NoDatabase.snapshot.applied = NoDatabase.snapshot.version
  BY DEF NoDatabase, NoSnapshot
<1>3. pinned \in [Procs -> Seen]
  BY DEF StoreInv, StoreTypeOK
<1>4. \/ pinned' = pinned
      \/ \E db : /\ pinned' = [pinned EXCEPT ![p] = db]
                 /\ db.snapshot.applied = db.snapshot.version
  BY <1>1, <1>2 DEF Read, StaysOpen, Closed, NoDatabase, Writes
<1>5. CASE pinned' = pinned
  BY <1>1, <1>5
<1>6. ASSUME NEW db, pinned' = [pinned EXCEPT ![p] = db],
             db.snapshot.applied = db.snapshot.version, NEW q \in Procs
      PROVE  pinned'[q].snapshot.applied = pinned'[q].snapshot.version
  <2>1. pinned'[q] = IF q = p THEN db ELSE pinned[q]
    BY <1>3, <1>6
  <2> QED
    BY <1>1, <1>6, <2>1
<1> QED
  BY <1>4, <1>5, <1>6

\* No step makes a snapshot inexact, or makes a call about to.
LEMMA ExactStep == ASSUME StoreInv, ExactInv, [StoreNext]_storeVars PROVE ExactInv'
<1> DEFINE Exact(t) == /\ stage'[t] = "events" => state'[t] = from'[t]
                       /\ stage'[t] = "save" => state'[t] = base'[t]
           Goal == /\ snapshot'.applied = snapshot'.version
                   /\ \A p \in Procs : pinned'[p].snapshot.applied = pinned'[p].snapshot.version
                   /\ \A t \in Threads : Exact(t)
<1> SUFFICES ASSUME ~overtaken' PROVE Goal
  BY DEF ExactInv
<1>1. /\ CallTypes /\ overtaken \in BOOLEAN
      /\ ~overtaken => /\ snapshot.applied = snapshot.version
                       /\ \A t \in Threads : stage[t] = "events" => state[t] = from[t]
                       /\ \A t \in Threads : stage[t] = "save" => state[t] = base[t]
  BY TypesOfStore DEF StoreInv, ExactInv
<1>2. \A t \in Threads : Home[t] \in Procs
  BY EventStoreAssumption
<1>3. ASSUME NEW t \in Threads, ~overtaken, stage'[t] \notin {"events", "save"},
             \A u \in Threads : u # t => /\ stage'[u] = stage[u] /\ base'[u] = base[u]
                                         /\ from'[u] = from[u] /\ state'[u] = state[u]
      PROVE  \A u \in Threads : Exact(u)
  BY <1>1, <1>3
<1>4. ASSUME NEW t \in Threads, Leave(t)
      PROVE  /\ stage'[t] = "idle"
             /\ \A u \in Threads : u # t => /\ stage'[u] = stage[u] /\ base'[u] = base[u]
                                            /\ from'[u] = from[u] /\ state'[u] = state[u]
  BY <1>1, <1>4 DEF Leave, CallEnds, CallTypes
<1>5. ASSUME NEW t \in Threads, stage' = [stage EXCEPT ![t] = "commit"],
             UNCHANGED <<base, from, state>>
      PROVE  /\ stage'[t] = "commit"
             /\ \A u \in Threads : u # t => /\ stage'[u] = stage[u] /\ base'[u] = base[u]
                                            /\ from'[u] = from[u] /\ state'[u] = state[u]
  BY <1>1, <1>5 DEF CallTypes
<1>6. ASSUME NEW p \in Procs, ReadOnly(p)
      PROVE  Goal
  <2>1. Read(p) /\ UNCHANGED <<snapshot, stage, state, base, from, overtaken>>
    BY <1>6 DEF ReadOnly, call
  <2> QED
    BY <1>1, <2>1, PinnedIsExact
<1>7. ASSUME NEW t \in Threads, NEW k \in 1..MaxBatch, NEW check \in BOOLEAN, Enter(t, k, check)
      PROVE  Goal
  <2>1. /\ Read(Home[t]) /\ stage' = [stage EXCEPT ![t] = "insert"]
        /\ UNCHANGED <<snapshot, from, state, overtaken>>
        /\ base' = [base EXCEPT ![t] = LastVersion(View(Home[t]).events)]
    BY <1>7 DEF Enter
  <2>2. \A u \in Threads : /\ stage'[u] = IF u = t THEN "insert" ELSE stage[u]
                           /\ u # t => base'[u] = base[u]
    BY <1>1, <2>1 DEF CallTypes
  <2>3. \A u \in Threads : Exact(u)
    BY <1>3, <2>1, <2>2
  <2> QED
    BY <1>1, <1>2, <2>1, <2>3, PinnedIsExact
<1>8. ASSUME NEW t \in Threads, Insert(t)
      PROVE  Goal
  <2>1. UNCHANGED <<snapshot, overtaken>> /\ ~overtaken
    BY <1>8 DEF Insert
  <2>2. \A u \in Threads : Exact(u)
    BY <1>3, <1>4, <1>5, <1>8, <2>1 DEF Insert
  <2> DEFINE db == [Database EXCEPT !.events = @ \cup NewRows(t)]
  <2>3. StaysOpen(Home[t]) \/ Closed(Home[t]) \/ Writes(Home[t], Database) \/ Writes(Home[t], db)
    BY <1>8 DEF Insert
  <2>4. /\ Database.snapshot.applied = Database.snapshot.version
        /\ db.snapshot.applied = db.snapshot.version
    BY <1>1, <2>1 DEF Database
  <2> HIDE DEF db
  <2>5. \A p \in Procs : pinned'[p].snapshot.applied = pinned'[p].snapshot.version
    BY <1>2, <2>1, <2>3, <2>4, PinnedIsExact
  <2> QED
    BY <1>1, <2>1, <2>2, <2>5
<1>9. ASSUME NEW t \in Threads, Commit(t)
      PROVE  Goal
  <2>1. /\ Leave(t) /\ Closed(Home[t]) /\ snapshot' = pinned[Home[t]].snapshot
        /\ UNCHANGED overtaken /\ ~overtaken
    BY <1>9 DEF Commit
  <2>2. snapshot'.applied = snapshot'.version
    BY <1>2, <2>1 DEF ExactInv
  <2>3. \A u \in Threads : Exact(u)
    BY <1>3, <1>4, <2>1
  <2> QED
    BY <1>2, <2>1, <2>2, <2>3, PinnedIsExact
<1>10. ASSUME NEW t \in Threads, MaybeSnapshot(t) \/ GetStreamVersion(t)
       PROVE  Goal
  <2>1. \E s \in {"idle", "count", "replay"} :
          Read(Home[t]) /\ stage' = [stage EXCEPT ![t] = s] /\ UNCHANGED snapshot
    BY <1>10 DEF MaybeSnapshot, GetStreamVersion, Reads
  <2>2. /\ UNCHANGED <<state, overtaken>> /\ ~overtaken
        /\ \E v : from' = [from EXCEPT ![t] = v] \/ from' = from
        /\ \E v : base' = [base EXCEPT ![t] = v] \/ base' = base
    BY <1>10 DEF MaybeSnapshot, GetStreamVersion
  <2>3. /\ stage'[t] \notin {"events", "save"}
        /\ \A u \in Threads : u # t => stage'[u] = stage[u] /\ base'[u] = base[u] /\ from'[u] = from[u]
    BY <1>1, <2>1, <2>2 DEF CallTypes
  <2>4. \A u \in Threads : Exact(u)
    BY <1>3, <2>2, <2>3
  <2> QED
    BY <1>1, <1>2, <2>1, <2>2, <2>4, PinnedIsExact
<1>11. ASSUME NEW t \in Threads, ReconstructState(t)
       PROVE  Goal
  <2> DEFINE v == View(Home[t]).snapshot.version
             a == View(Home[t]).snapshot.applied
  <2>1. /\ Read(Home[t]) /\ stage' = [stage EXCEPT ![t] = "events"] /\ UNCHANGED <<snapshot, base, overtaken>>
        /\ from' = [from EXCEPT ![t] = v] /\ state' = [state EXCEPT ![t] = a] /\ ~overtaken
    BY <1>11 DEF ReconstructState, Reads
  <2>2. a = v
    BY <1>2, <2>1, ExactView
  <2> HIDE DEF a, v
  <2>3. \A u \in Threads : /\ stage'[u] = IF u = t THEN "events" ELSE stage[u]
                           /\ from'[u] = IF u = t THEN v ELSE from[u]
                           /\ state'[u] = IF u = t THEN a ELSE state[u]
    BY <1>1, <2>1 DEF CallTypes
  <2>4. \A u \in Threads : Exact(u)
    BY <1>1, <2>1, <2>2, <2>3
  <2> QED
    BY <1>1, <1>2, <2>1, <2>4, PinnedIsExact
<1>12. ASSUME NEW t \in Threads, GetStream(t)
       PROVE  Goal
  <2> DEFINE p == Home[t]
             n == LastVersion(View(p).events)
  <2>1. /\ stage[t] = "events" /\ Read(p) /\ stage' = [stage EXCEPT ![t] = "save"]
        /\ state' = [state EXCEPT ![t] = Replay(t, View(p).events)]
        /\ UNCHANGED <<snapshot, base, from>>
        /\ ~overtaken /\ n = base[t]
    BY <1>12 DEF GetStream, Reads
  <2>2. /\ Replay(t, View(p).events) = state[t] + (Horizon(p) - from[t])
        /\ n = Horizon(p) /\ Horizon(p) \in 0..MaxEvents /\ from[t] \in 0..MaxEvents
    BY <1>1, <1>2, ReplayCounts, ViewIsWhole DEF CallTypes
  <2>3. state[t] = from[t]
    BY <1>1, <2>1
  <2> HIDE DEF n
  <2>4. Replay(t, View(p).events) = base[t]
    BY <2>1, <2>2, <2>3
  <2>5. \A u \in Threads : /\ stage'[u] = IF u = t THEN "save" ELSE stage[u]
                           /\ state'[u] = IF u = t THEN base[t] ELSE state[u]
    BY <1>1, <2>1, <2>4 DEF CallTypes
  <2>6. \A u \in Threads : Exact(u)
    BY <1>1, <2>1, <2>5
  <2> QED
    BY <1>1, <1>2, <2>1, <2>6, PinnedIsExact
<1>13. ASSUME NEW t \in Threads, SaveSnapshot(t)
       PROVE  Goal
  <2> DEFINE db == [Database EXCEPT !.snapshot = [version |-> base[t], applied |-> state[t]]]
  <2>1. stage[t] = "save" /\ UNCHANGED <<snapshot, overtaken>> /\ ~overtaken
    BY <1>13 DEF SaveSnapshot
  <2>2. \A u \in Threads : Exact(u)
    BY <1>3, <1>4, <1>5, <1>13, <2>1 DEF SaveSnapshot
  <2>3. StaysOpen(Home[t]) \/ Writes(Home[t], db)
    BY <1>13 DEF SaveSnapshot
  <2>4. db.snapshot.applied = db.snapshot.version
    BY <1>1, <2>1 DEF Database
  <2> HIDE DEF db
  <2>5. \A p \in Procs : pinned'[p].snapshot.applied = pinned'[p].snapshot.version
    BY <1>2, <2>1, <2>3, <2>4, PinnedIsExact
  <2> QED
    BY <1>1, <2>1, <2>2, <2>5
<1>14. ASSUME NEW p \in Procs, Crash(p)
       PROVE  Goal
  <2>1. Closed(p) /\ UNCHANGED <<snapshot, overtaken>>
    BY <1>14 DEF Crash
  <2>2. \A u \in Threads : /\ stage'[u] = IF Home[u] = p THEN "idle" ELSE stage[u]
                           /\ base'[u] = IF Home[u] = p THEN 0 ELSE base[u]
                           /\ from'[u] = IF Home[u] = p THEN 0 ELSE from[u]
                           /\ state'[u] = IF Home[u] = p THEN 0 ELSE state[u]
    BY <1>14 DEF Crash
  <2>3. \A u \in Threads : Exact(u)
    BY <1>1, <2>1, <2>2
  <2> QED
    BY <1>1, <2>1, <2>3, PinnedIsExact
<1>15. CASE UNCHANGED storeVars
  BY <1>1, <1>15 DEF ExactInv, storeVars, call
<1> QED
  BY <1>6, <1>7, <1>8, <1>9, <1>10, <1>11, <1>12, <1>13, <1>14, <1>15 DEF StoreNext, Step

\* A snapshot's state is the state of its version, unless an event was appended
\* between a maybe_snapshot's reads of the version and of the events, with other
\* snapshots saved and appends begun in between (event_sourcing.py:249-313).
THEOREM SnapshotsAreExact == StoreSpec => []SnapshotUnlessOvertaken
<1>1. StoreInit => ExactInv
  BY DEF StoreInit, ExactInv, Database, NoSnapshot
<1>2. StoreSpec => []ExactInv
  BY <1>1, ExactStep, StoreInvariant, PTL DEF StoreSpec
<1>3. ExactInv => SnapshotUnlessOvertaken
  BY DEF ExactInv, SnapshotUnlessOvertaken
<1> QED
  BY <1>2, <1>3, PTL

-----------------------------------------------------------------------------
(***************************************************************************)
(* Outbox.                                                                 *)
(***************************************************************************)
(* Numbers, rows and workers.                                              *)

\* A set of numbers that is not empty has a least one.
LEMMA LeastNumber ==
  ASSUME NEW S, S \subseteq Nat, S # {}
  PROVE  \E i \in S : \A j \in S : i <= j
<1> DEFINE R == OpToRel(<, Nat)
<1>1. IsWellFoundedOn(R, Nat)
  BY NatLessThanWellFounded
<1>2. \A i, j \in Nat : ~ (<<j, i>> \in R) => ~ (j < i)
  BY Zenon DEF OpToRel
<1> HIDE DEF R
<1>3. \E i \in S : \A j \in S : ~ (<<j, i>> \in R)
  BY <1>1, WFMin
<1>4. \E i \in S : \A j \in S : ~ (j < i)
  BY <1>2, <1>3, Zenon
<1> QED
  BY <1>4, SMT

OutboxRow == [event : 1..MaxInserts, published : BOOLEAN, gone : BOOLEAN,
              retries : 0..(MaxRetries - 1), waiting : BOOLEAN]

\* The row a worker is at is one that it polled.
LEMMA CurrentIsPolled ==
  ASSUME OutboxTypeOK, NEW w \in Workers, phase[w] # "poll"
  PROVE  /\ Current(w) \in batch[w] /\ Current(w) \in Ids
         /\ outbox[Current(w)] \in OutboxRow
<1>1. outbox \in Seq(OutboxRow)
  BY DEF OutboxTypeOK, OutboxRow
<1>2. Ids = 1..Len(outbox) /\ Len(outbox) \in Nat /\ \A i \in Ids : outbox[i] \in OutboxRow
  BY <1>1, LenProperties DEF Ids
<1>3. batch[w] \subseteq Ids /\ batch[w] # {}
  BY DEF OutboxTypeOK
<1>4. \E i \in batch[w] : \A j \in batch[w] : i <= j
  BY <1>2, <1>3, LeastNumber
<1>5. Current(w) \in batch[w]
  BY <1>4 DEF Current, First
<1> QED
  BY <1>2, <1>3, <1>5

\* Rows are numbered from 1.
LEMMA RowsAreTyped ==
  ASSUME OutboxTypeOK
  PROVE  /\ outbox \in Seq(OutboxRow) /\ Len(outbox) \in Nat /\ Ids = 1..Len(outbox)
         /\ \A i \in Ids : outbox[i] \in OutboxRow
<1>1. outbox \in Seq(OutboxRow)
  BY DEF OutboxTypeOK, OutboxRow
<1> QED
  BY <1>1, LenProperties DEF Ids

\* One row is written.
Put(i, r) == outbox' = [outbox EXCEPT ![i] = r]

LEMMA PutRow ==
  ASSUME outbox \in Seq(OutboxRow), NEW i \in Ids, NEW r \in OutboxRow, Put(i, r)
  PROVE  /\ outbox' \in Seq(OutboxRow) /\ Ids' = Ids /\ Len(outbox') = Len(outbox)
         /\ \A j \in Ids : outbox'[j] = IF j = i THEN r ELSE outbox[j]
<1>1. Ids = 1..Len(outbox) /\ Len(outbox) \in Nat
  BY LenProperties DEF Ids
<1>2. /\ outbox' \in Seq(OutboxRow) /\ Len(outbox') = Len(outbox)
      /\ \A j \in 1..Len(outbox) : outbox'[j] = IF j = i THEN r ELSE outbox[j]
  BY <1>1, ExceptSeq DEF Put
<1>3. Ids' = 1..Len(outbox')
  BY <1>2, LenProperties DEF Ids
<1> QED
  BY <1>1, <1>2, <1>3

\* Rows are added at the end.
Add(new) == outbox' = outbox \o new

LEMMA AddRows ==
  ASSUME outbox \in Seq(OutboxRow), NEW new \in Seq(OutboxRow), Add(new)
  PROVE  /\ outbox' \in Seq(OutboxRow) /\ Len(outbox') = Len(outbox) + Len(new)
         /\ Ids \subseteq Ids' /\ Ids' = 1..(Len(outbox) + Len(new))
         /\ \A i \in Ids : outbox'[i] = outbox[i]
         /\ \A j \in 1..Len(new) : outbox'[Len(outbox) + j] = new[j]
<1>1. Ids = 1..Len(outbox) /\ Len(outbox) \in Nat /\ Len(new) \in Nat
  BY LenProperties DEF Ids
<1>2. /\ outbox' \in Seq(OutboxRow) /\ Len(outbox') = Len(outbox) + Len(new)
      /\ \A i \in 1..(Len(outbox) + Len(new)) :
           outbox'[i] = IF i <= Len(outbox) THEN outbox[i] ELSE new[i - Len(outbox)]
  BY ConcatProperties DEF Add
<1>3. Ids' = 1..Len(outbox')
  BY <1>2, LenProperties DEF Ids
<1>5. Ids \subseteq Ids' /\ Ids' = 1..(Len(outbox) + Len(new)) /\ \A i \in Ids : outbox'[i] = outbox[i]
  BY <1>1, <1>2, <1>3
<1>4. \A j \in 1..Len(new) : outbox'[Len(outbox) + j] = new[j]
  <2> SUFFICES ASSUME NEW j \in 1..Len(new)
               PROVE  outbox'[Len(outbox) + j] = new[j]
    OBVIOUS
  <2>1. /\ Len(outbox) + j \in 1..(Len(outbox) + Len(new))
        /\ ~ (Len(outbox) + j <= Len(outbox)) /\ (Len(outbox) + j) - Len(outbox) = j
    BY <1>1
  <2> QED
    BY <1>2, <2>1
<1> QED
  BY <1>2, <1>4, <1>5

\* The workers that are at row i in one of some stages.
At(i, stages) == {w \in Workers : phase[w] \in stages /\ Current(w) = i}

LEMMA AtIsFinite ==
  ASSUME NEW i, NEW stages
  PROVE  /\ IsFiniteSet(At(i, stages)) /\ Cardinality(At(i, stages)) \in Nat
         /\ Cardinality(At(i, stages)) <= Cardinality(Workers)
         /\ Cardinality(Workers) \in Nat
<1>1. At(i, stages) \in SUBSET Workers
  BY DEF At
<1> QED
  BY <1>1, OutboxAssumption, FS_Subset, FS_CardinalityType

\* Only w moves.
Moves(w) == \A u \in Workers \ {w} : phase'[u] = phase[u] /\ batch'[u] = batch[u]

\* How the number of the workers at a row changes with the move of one.
LEMMA AtAfterMove ==
  ASSUME NEW w \in Workers, Moves(w), NEW i, NEW stages
  PROVE  LET was == phase[w] \in stages /\ Current(w) = i
             is == phase'[w] \in stages /\ Current(w)' = i
         IN  /\ At(i, stages)' = IF is THEN At(i, stages) \cup {w} ELSE At(i, stages) \ {w}
             /\ Cardinality(At(i, stages))' =
                  Cardinality(At(i, stages))
                    + (IF is THEN 1 ELSE 0) - (IF was THEN 1 ELSE 0)
             /\ was => Cardinality(At(i, stages)) > 0
<1> DEFINE was == phase[w] \in stages /\ Current(w) = i
           is == phase'[w] \in stages /\ Current(w)' = i
           A == At(i, stages)
<1>1. \A u \in Workers \ {w} : Current(u)' = Current(u) /\ phase'[u] = phase[u]
  BY DEF Moves, Current, First
<1>2. A' = IF is THEN A \cup {w} ELSE A \ {w}
  BY <1>1 DEF At
<1>3. (w \in A <=> was) /\ IsFiniteSet(A) /\ Cardinality(A) \in Nat
  BY AtIsFinite DEF At
<1> HIDE DEF was, is, A
<1>4. /\ Cardinality(A \cup {w}) = IF w \in A THEN Cardinality(A) ELSE Cardinality(A) + 1
      /\ Cardinality(A \ {w}) = IF w \in A THEN Cardinality(A) - 1 ELSE Cardinality(A)
      /\ Cardinality(A \ {w}) \in Nat
  BY <1>3, FS_AddElement, FS_RemoveElement, FS_CardinalityType
<1>5. Cardinality(A') = Cardinality(A) + (IF is THEN 1 ELSE 0) - (IF was THEN 1 ELSE 0)
  BY <1>2, <1>3, <1>4
<1>6. was => Cardinality(A) > 0
  BY <1>3, <1>4
<1> QED
  BY <1>2, <1>5, <1>6 DEF was, is, A

-----------------------------------------------------------------------------
(* What each step does to the rows.                                        *)

\* The id of the last row is within the bound.
RoomInv == Len(outbox) <= MaxInserts

\* No row goes away or changes its event; what is gone stays so.
RowsKept ==
  /\ outbox' \in Seq(OutboxRow) /\ Len(outbox') <= MaxInserts /\ Ids \subseteq Ids'
  /\ \A i \in Ids : /\ outbox'[i].event = outbox[i].event
                    /\ outbox[i].gone => outbox'[i].gone

LEMMA WriteRows ==
  ASSUME OutboxTypeOK, NEW k \in 1..MaxInserts, Write(k)
  PROVE  /\ RowsKept /\ Ids' = 1..(Len(outbox) + k)
         /\ \A i \in Ids : outbox'[i] = outbox[i]
         /\ \A j \in 1..k : outbox'[Len(outbox) + j] = NewEvent(Len(outbox) + j)
<1> DEFINE new == [j \in 1..k |-> NewEvent(Len(outbox) + j)]
<1>1. /\ outbox \in Seq(OutboxRow) /\ Len(outbox) \in Nat
      /\ Len(outbox) + k <= MaxInserts /\ Add(new)
  BY RowsAreTyped DEF Write, Add
<1>2. \A j \in 1..k : NewEvent(Len(outbox) + j) \in OutboxRow
  BY <1>1, OutboxAssumption DEF NewEvent, OutboxRow
<1>3. new \in Seq(OutboxRow) /\ Len(new) = k /\ \A j \in 1..k : new[j] = NewEvent(Len(outbox) + j)
  BY <1>2, OutboxAssumption, IsASeq
<1> HIDE DEF new
<1>4. /\ outbox' \in Seq(OutboxRow) /\ Len(outbox') = Len(outbox) + k
      /\ Ids \subseteq Ids' /\ Ids' = 1..(Len(outbox) + k)
      /\ \A i \in Ids : outbox'[i] = outbox[i]
      /\ \A j \in 1..k : outbox'[Len(outbox) + j] = new[j]
  BY <1>1, <1>3, AddRows
<1> QED
  BY <1>1, <1>3, <1>4 DEF RowsKept

LEMMA RequeueRows ==
  ASSUME OutboxTypeOK, NEW o \in Operators, Requeue(o)
  PROVE  /\ RowsKept /\ Ids' = 1..(Len(outbox) + 1)
         /\ \A j \in Ids : outbox'[j] = outbox[j]
         /\ \E i \in Ids, w \in Workers :
              /\ outbox'[Len(outbox) + 1] = NewEvent(outbox[i].event)
              /\ dlq' = [dlq EXCEPT ![i] = @ \ {w}]
<1>1. PICK i \in Ids, w \in Workers :
        /\ outbox' = Append(outbox, NewEvent(outbox[i].event))
        /\ dlq' = [dlq EXCEPT ![i] = @ \ {w}]
  BY DEF Requeue
<1> DEFINE r == NewEvent(outbox[i].event)
<1>2. /\ outbox \in Seq(OutboxRow) /\ Len(outbox) \in Nat /\ outbox[i] \in OutboxRow
      /\ Len(outbox) < MaxInserts /\ outbox' = Append(outbox, r)
  BY <1>1, RowsAreTyped DEF Requeue
<1>3. r \in OutboxRow
  BY <1>2, OutboxAssumption DEF NewEvent, OutboxRow
<1> HIDE DEF r
<1>4. /\ outbox' \in Seq(OutboxRow) /\ Len(outbox') = Len(outbox) + 1
      /\ \A j \in 1..Len(outbox) : outbox'[j] = outbox[j]
      /\ outbox'[Len(outbox) + 1] = r
  BY <1>2, <1>3, AppendProperties
<1>5. Ids = 1..Len(outbox) /\ Ids' = 1..(Len(outbox) + 1)
  BY <1>2, <1>4, LenProperties DEF Ids
<1>6. RowsKept
  BY <1>2, <1>4, <1>5, OutboxAssumption DEF RowsKept
<1> QED
  BY <1>1, <1>4, <1>5, <1>6 DEF r

\* Writing a row that names the same event.
LEMMA PutKeepsRows ==
  ASSUME OutboxTypeOK, RoomInv, NEW i \in Ids, NEW r \in OutboxRow, Put(i, r),
         r.event = outbox[i].event,
         outbox[i].gone => r.gone
  PROVE  /\ RowsKept /\ Ids' = Ids /\ outbox'[i] = r
         /\ \A j \in Ids \ {i} : outbox'[j] = outbox[j]
<1>1. /\ outbox' \in Seq(OutboxRow) /\ Ids' = Ids /\ Len(outbox') = Len(outbox)
      /\ \A j \in Ids : outbox'[j] = IF j = i THEN r ELSE outbox[j]
  BY RowsAreTyped, PutRow
<1> QED
  BY <1>1 DEF RowsKept, RoomInv

LEMMA UnchangedKeepsRows ==
  ASSUME OutboxTypeOK, RoomInv, UNCHANGED outbox
  PROVE  RowsKept /\ Ids' = Ids
BY RowsAreTyped DEF RowsKept, RoomInv, Ids

Published(r) == [r EXCEPT !.published = TRUE, !.waiting = FALSE]

LEMMA MarkRows ==
  ASSUME OutboxTypeOK, RoomInv, NEW w \in Workers, Mark(w)
  PROVE  /\ RowsKept /\ Ids' = Ids
         /\ \A j \in Ids \ {Current(w)} : outbox'[j] = outbox[j]
         /\ outbox'[Current(w)] = IF outbox[Current(w)].gone THEN outbox[Current(w)]
                                  ELSE Published(outbox[Current(w)])
<1> DEFINE c == Current(w)
           r == Published(outbox[c])
<1>1. c \in Ids /\ outbox[c] \in OutboxRow
  BY CurrentIsPolled DEF Mark
<1>2. CASE outbox[c].gone
  BY <1>2, UnchangedKeepsRows DEF Mark
<1>3. CASE ~ outbox[c].gone
  <2>1. r \in OutboxRow /\ r.event = outbox[c].event /\ r.published
    BY <1>1 DEF OutboxRow, Published
  <2>2. Put(c, r)
    BY <1>1, <1>3 DEF Mark, Put, Published
  <2> HIDE DEF c, r
  <2>3. /\ RowsKept /\ Ids' = Ids /\ outbox'[c] = r
        /\ \A j \in Ids \ {c} : outbox'[j] = outbox[j]
    BY <1>1, <1>3, <2>1, <2>2, PutKeepsRows
  <2> QED
    BY <1>3, <2>3 DEF c, r
<1> QED
  BY <1>2, <1>3

Delayed(r, n) == [r EXCEPT !.retries = n, !.waiting = ~ r.published]

LEMMA DeletedRow ==
  ASSUME NEW r \in OutboxRow
  PROVE  /\ Deleted(r) \in OutboxRow
         /\ Deleted(r).event = r.event /\ Deleted(r).published = FALSE
         /\ Deleted(r).gone = TRUE /\ Deleted(r).retries = 0
<1>1. 0 \in 0..(MaxRetries - 1)
  BY OutboxAssumption
<1> QED
  BY <1>1 DEF OutboxRow, Deleted, NewEvent

LEMMA DelayedRow ==
  ASSUME NEW r \in OutboxRow, NEW n \in 0..(MaxRetries - 1)
  PROVE  /\ Delayed(r, n) \in OutboxRow
         /\ Delayed(r, n).event = r.event /\ Delayed(r, n).published = r.published
         /\ Delayed(r, n).gone = r.gone /\ Delayed(r, n).retries = n
<1>1. (~ r.published) \in BOOLEAN
  OBVIOUS
<1> QED
  BY <1>1 DEF OutboxRow, Delayed

LEMMA MarkFailedRows ==
  ASSUME OutboxTypeOK, RoomInv, NEW w \in Workers, MarkFailed(w)
  PROVE  /\ RowsKept /\ Ids' = Ids
         /\ \A j \in Ids \ {Current(w)} : outbox'[j] = outbox[j]
         /\ outbox'[Current(w)] = IF GivesUp(w) THEN Deleted(outbox[Current(w)])
                                  ELSE IF outbox[Current(w)].gone THEN outbox[Current(w)]
                                  ELSE Delayed(outbox[Current(w)], seen[w] + 1)
<1> DEFINE c == Current(w)
<1>1. c \in Ids /\ outbox[c] \in OutboxRow
  BY CurrentIsPolled DEF MarkFailed
<1>2. seen[w] \in 0..(MaxRetries - 1) /\ MaxRetries \in Nat \ {0}
  BY OutboxAssumption DEF OutboxTypeOK
<1>3. CASE GivesUp(w)
  <2> DEFINE r == Deleted(outbox[c])
  <2>1. r \in OutboxRow /\ r.event = outbox[c].event /\ r.gone
    BY <1>1, DeletedRow
  <2>2. Put(c, r)
    BY <1>1, <1>3 DEF MarkFailed, Put
  <2> HIDE DEF c, r
  <2>3. /\ RowsKept /\ Ids' = Ids /\ outbox'[c] = r
        /\ \A j \in Ids \ {c} : outbox'[j] = outbox[j]
    BY <1>1, <2>1, <2>2, PutKeepsRows
  <2> QED
    BY <1>3, <2>3 DEF c, r
<1>4. CASE ~ GivesUp(w) /\ outbox[c].gone
  BY <1>4, UnchangedKeepsRows DEF MarkFailed
<1>5. CASE ~ GivesUp(w) /\ ~ outbox[c].gone
  <2> DEFINE r == Delayed(outbox[c], seen[w] + 1)
  <2>1. /\ r \in OutboxRow /\ r.event = outbox[c].event
        /\ r.published = outbox[c].published /\ r.gone = outbox[c].gone
    <3>1. seen[w] + 1 \in 0..(MaxRetries - 1)
      BY <1>2, <1>5 DEF GivesUp
    <3> QED
      BY <1>1, <3>1, DelayedRow
  <2>2. Put(c, r)
    BY <1>1, <1>5 DEF MarkFailed, Put, Delayed, Backoff
  <2> HIDE DEF c, r
  <2>3. /\ RowsKept /\ Ids' = Ids /\ outbox'[c] = r
        /\ \A j \in Ids \ {c} : outbox'[j] = outbox[j]
    BY <1>1, <1>5, <2>1, <2>2, PutKeepsRows
  <2> QED
    BY <1>5, <2>3 DEF c, r
<1> QED
  BY <1>3, <1>4, <1>5

LEMMA DelayRows ==
  ASSUME OutboxTypeOK, RoomInv, NEW i \in Ids, DelayElapses(i)
  PROVE  /\ RowsKept /\ Ids' = Ids
         /\ \A j \in Ids \ {i} : outbox'[j] = outbox[j]
         /\ outbox'[i] = [outbox[i] EXCEPT !.waiting = FALSE]
<1> DEFINE r == [outbox[i] EXCEPT !.waiting = FALSE]
<1>1. outbox[i] \in OutboxRow
  BY RowsAreTyped
<1>2. /\ r \in OutboxRow /\ r.event = outbox[i].event
      /\ r.published = outbox[i].published /\ r.gone = outbox[i].gone
  BY <1>1 DEF OutboxRow
<1>3. Put(i, r)
  BY <1>1 DEF DelayElapses, Put
<1> HIDE DEF r
<1>4. /\ RowsKept /\ Ids' = Ids /\ outbox'[i] = r
      /\ \A j \in Ids \ {i} : outbox'[j] = outbox[j]
  BY <1>2, <1>3, PutKeepsRows
<1> QED
  BY <1>4 DEF r

\* No step loses a row or takes back what it says of it.
LEMMA StepKeepsRows ==
  ASSUME OutboxTypeOK, RoomInv, [OutboxNext]_outboxVars
  PROVE  RowsKept
<1>1. ASSUME NEW k \in 1..MaxInserts, Write(k)
      PROVE  RowsKept
  BY <1>1, WriteRows
<1>2. ASSUME NEW i \in Ids, DelayElapses(i)
      PROVE  RowsKept
  BY <1>2, DelayRows
<1>6. ASSUME NEW o \in Operators, PickDead(o) \/ Requeue(o)
      PROVE  RowsKept
  BY <1>6, RequeueRows, UnchangedKeepsRows DEF PickDead
<1>3. ASSUME NEW w \in Workers, Mark(w) \/ MarkFailed(w)
      PROVE  RowsKept
  BY <1>3, MarkRows, MarkFailedRows
<1>4. ASSUME NEW w \in Workers,
             Poll(w) \/ Publish(w) \/ (\E landed \in BOOLEAN : PublishRaises(w, landed))
               \/ ReadRetries(w) \/ MarkRaises(w) \/ Abandon(w) \/ StopWorker(w) \/ StartWorker(w)
      PROVE  RowsKept
  <2>1. UNCHANGED outbox
    BY <1>4 DEF Poll, Publish, PublishRaises, ReadRetries, MarkRaises, Abandon, StopWorker,
                StartWorker
  <2> QED
    BY <2>1, UnchangedKeepsRows
<1>5. CASE UNCHANGED outboxVars
  BY <1>5, UnchangedKeepsRows DEF outboxVars
<1> QED
  BY <1>1, <1>2, <1>3, <1>4, <1>5, <1>6 DEF OutboxNext, ProcessOnce

-----------------------------------------------------------------------------
(* What each step does to the workers.                                     *)

WorkerTypes ==
  /\ phase \in [Workers -> {"poll", "publish", "mark", "select", "fail"}]
  /\ batch \in [Workers -> SUBSET Ids]
  /\ \A w \in Workers : phase[w] = "poll" <=> batch[w] = {}
  /\ seen \in [Workers -> 0..(MaxRetries - 1)]

HistoryTypes ==
  /\ running \in [Workers -> BOOLEAN]
  /\ errors \in 0..MaxErrors
  /\ delivered \subseteq 1..MaxInserts
  /\ failures \in [1..MaxInserts -> 0..MaxRetries]

DeadTypes ==
  /\ dlq \in [1..MaxInserts -> SUBSET Workers]
  /\ picked \in [Operators -> SUBSET (Ids \X Workers)]
  /\ shared \in SUBSET Ids

LEMMA TypesOfOutbox ==
  OutboxTypeOK <=> outbox \in Seq(OutboxRow) /\ WorkerTypes /\ HistoryTypes /\ DeadTypes
BY DEF OutboxTypeOK, OutboxRow, WorkerTypes, HistoryTypes, DeadTypes

\* Only the variables of w change.
MovesAlone(w) == Moves(w) /\ \A u \in Workers \ {w} : seen'[u] = seen[u]

LEMMA NextEventMoves ==
  ASSUME OutboxTypeOK, NEW w \in Workers, phase[w] # "poll", NextEvent(w), Ids \subseteq Ids'
  PROVE  WorkerTypes' /\ MovesAlone(w) /\ phase'[w] \in {"poll", "publish"}
<1> DEFINE c == Current(w)
<1>1. WorkerTypes /\ c \in batch[w] /\ MaxRetries \in Nat \ {0}
  BY TypesOfOutbox, CurrentIsPolled, OutboxAssumption
<1> HIDE DEF c
<1>2. /\ batch' = [batch EXCEPT ![w] = @ \ {c}]
      /\ phase' = [phase EXCEPT ![w] = IF batch[w] = {c} THEN "poll" ELSE "publish"]
      /\ seen' = [seen EXCEPT ![w] = 0]
  BY DEF NextEvent, c
<1>3. MovesAlone(w) /\ phase'[w] \in {"poll", "publish"}
  BY <1>1, <1>2 DEF WorkerTypes, Moves, MovesAlone
<1>4. \A u \in Workers : phase'[u] = "poll" <=> batch'[u] = {}
  BY <1>1, <1>2 DEF WorkerTypes
<1>5. /\ phase' \in [Workers -> {"poll", "publish", "mark", "select", "fail"}]
      /\ batch' \in [Workers -> SUBSET Ids']
      /\ seen' \in [Workers -> 0..(MaxRetries - 1)]
  BY <1>1, <1>2 DEF WorkerTypes
<1> QED
  BY <1>3, <1>4, <1>5 DEF WorkerTypes

LEMMA AttemptedMoves ==
  ASSUME OutboxTypeOK, RoomInv, NEW w \in Workers, phase[w] # "poll", Attempted(w),
         UNCHANGED <<batch, seen>>, Ids' = Ids
  PROVE  /\ WorkerTypes' /\ MovesAlone(w) /\ phase'[w] = "select" /\ Current(w)' = Current(w)
         /\ failures' \in [1..MaxInserts -> 0..MaxRetries]
         /\ \A i \in 1..MaxInserts \ {Current(w)} : failures'[i] = failures[i]
         /\ failures'[Current(w)] = IF failures[Current(w)] < MaxRetries
                                    THEN failures[Current(w)] + 1
                                    ELSE failures[Current(w)]
<1>1. WorkerTypes /\ HistoryTypes /\ MaxRetries \in Nat \ {0}
  BY TypesOfOutbox, OutboxAssumption
<1>2. phase' = [phase EXCEPT ![w] = "select"] /\ phase'[w] = "select"
  BY <1>1 DEF Attempted, WorkerTypes
<1>3. MovesAlone(w) /\ Current(w)' = Current(w)
  BY <1>1, <1>2 DEF WorkerTypes, Moves, MovesAlone, Current, First
<1>4. WorkerTypes'
  BY <1>1, <1>2 DEF WorkerTypes
<1>5. Current(w) \in 1..MaxInserts
  BY CurrentIsPolled, RowsAreTyped, OutboxAssumption DEF RoomInv
<1> DEFINE c == Current(w)
<1> HIDE DEF c
<1>6. failures' = [failures EXCEPT ![c] = IF @ < MaxRetries THEN @ + 1 ELSE @]
  BY DEF Attempted, c
<1>7. c \in 1..MaxInserts
  BY <1>5 DEF c
<1>8. /\ failures' \in [1..MaxInserts -> 0..MaxRetries]
      /\ \A i \in 1..MaxInserts \ {c} : failures'[i] = failures[i]
      /\ failures'[c] = IF failures[c] < MaxRetries THEN failures[c] + 1 ELSE failures[c]
  BY <1>1, <1>6, <1>7 DEF HistoryTypes
<1> QED
  BY <1>2, <1>3, <1>4, <1>8 DEF c

LEMMA PollMoves ==
  ASSUME OutboxTypeOK, NEW w \in Workers, Poll(w)
  PROVE  WorkerTypes' /\ MovesAlone(w) /\ phase'[w] = "publish"
<1> DEFINE polled == FirstRows(Ready)
<1>1. WorkerTypes /\ BatchSize \in Nat \ {0} /\ Ids = 1..Len(outbox) /\ Len(outbox) \in Nat
  BY TypesOfOutbox, OutboxAssumption, RowsAreTyped
<1>2. Ready # {} /\ Ready \subseteq Ids
  BY DEF Poll, Ready
<1>3. Ready \subseteq Nat
  BY <1>1, <1>2
<1>4. PICK i \in Ready : \A j \in Ready : i <= j
  BY <1>2, <1>3, LeastNumber, Zenon
<1>5. i \in polled
  <2>1. \A j \in Ready : ~ (j < i)
    BY <1>3, <1>4
  <2>2. {j \in Ready : j < i} = {}
    BY <2>1
  <2>3. Cardinality({}) < BatchSize
    BY <1>1, FS_EmptySet
  <2> QED
    BY <2>2, <2>3 DEF FirstRows
<1>6. polled \subseteq Ids /\ polled # {}
  BY <1>2, <1>5 DEF FirstRows
<1> HIDE DEF polled
<1>7. /\ batch' = [batch EXCEPT ![w] = polled] /\ phase' = [phase EXCEPT ![w] = "publish"]
      /\ UNCHANGED <<outbox, seen>>
  BY DEF Poll, polled
<1>8. Ids' = Ids
  BY <1>7 DEF Ids
<1>9. \A u \in Workers : phase'[u] = "poll" <=> batch'[u] = {}
  BY <1>1, <1>6, <1>7 DEF WorkerTypes
<1>10. WorkerTypes'
  BY <1>1, <1>6, <1>7, <1>8, <1>9 DEF WorkerTypes
<1> QED
  BY <1>1, <1>7, <1>10 DEF WorkerTypes, Moves, MovesAlone

LEMMA PublishMoves ==
  ASSUME OutboxTypeOK, NEW w \in Workers, Publish(w)
  PROVE  WorkerTypes' /\ MovesAlone(w) /\ phase'[w] = "mark" /\ Current(w)' = Current(w)
<1>1. WorkerTypes /\ phase' = [phase EXCEPT ![w] = "mark"] /\ phase[w] = "publish"
      /\ UNCHANGED <<outbox, batch, seen>>
  BY TypesOfOutbox DEF Publish
<1>2. Ids' = Ids
  BY <1>1 DEF Ids
<1> QED
  BY <1>1, <1>2 DEF WorkerTypes, Moves, MovesAlone, Current, First

LEMMA ReadRetriesMoves ==
  ASSUME OutboxTypeOK, NEW w \in Workers, ReadRetries(w)
  PROVE  /\ WorkerTypes' /\ MovesAlone(w)
         /\ IF outbox[Current(w)].gone THEN phase'[w] \in {"poll", "publish"}
            ELSE /\ phase'[w] = "fail" /\ Current(w)' = Current(w)
                 /\ seen'[w] = outbox[Current(w)].retries
<1>1. WorkerTypes /\ phase[w] = "select" /\ UNCHANGED outbox /\ Ids' = Ids
  BY TypesOfOutbox DEF ReadRetries, Ids
<1>2. CASE outbox[Current(w)].gone
  BY <1>1, <1>2, NextEventMoves DEF ReadRetries
<1>3. CASE ~ outbox[Current(w)].gone
  <2>1. /\ seen' = [seen EXCEPT ![w] = outbox[Current(w)].retries]
        /\ phase' = [phase EXCEPT ![w] = "fail"] /\ UNCHANGED batch
    BY <1>3 DEF ReadRetries
  <2>2. outbox[Current(w)].retries \in 0..(MaxRetries - 1)
    BY <1>1, CurrentIsPolled DEF OutboxRow
  <2>3. MovesAlone(w) /\ phase'[w] = "fail" /\ seen'[w] = outbox[Current(w)].retries
    BY <1>1, <2>1 DEF WorkerTypes, Moves, MovesAlone
  <2>4. Current(w)' = Current(w)
    BY <2>1 DEF Current, First
  <2>5. WorkerTypes'
    BY <1>1, <2>1, <2>2 DEF WorkerTypes
  <2> QED
    BY <1>3, <2>3, <2>4, <2>5
<1> QED
  BY <1>2, <1>3

LEMMA AbandonMoves ==
  ASSUME OutboxTypeOK, NEW w \in Workers, Abandon(w)
  PROVE  WorkerTypes' /\ MovesAlone(w) /\ phase'[w] = "poll"
<1>1. /\ WorkerTypes /\ MaxRetries \in Nat \ {0}
      /\ batch' = [batch EXCEPT ![w] = {}] /\ phase' = [phase EXCEPT ![w] = "poll"]
      /\ seen' = [seen EXCEPT ![w] = 0] /\ UNCHANGED outbox
  BY TypesOfOutbox, OutboxAssumption DEF Abandon
<1>2. Ids' = Ids
  BY <1>1 DEF Ids
<1>3. \A u \in Workers : phase'[u] = "poll" <=> batch'[u] = {}
  BY <1>1 DEF WorkerTypes
<1>4. WorkerTypes'
  BY <1>1, <1>2, <1>3 DEF WorkerTypes
<1> QED
  BY <1>1, <1>4 DEF WorkerTypes, Moves, MovesAlone

LEMMA WorkersStay ==
  ASSUME OutboxTypeOK, UNCHANGED worker, Ids \subseteq Ids'
  PROVE  /\ WorkerTypes' /\ UNCHANGED <<phase, batch, seen>>
         /\ \A w \in Workers : Current(w)' = Current(w)
         /\ \A i, stages : At(i, stages)' = At(i, stages)
<1>1. WorkerTypes /\ phase' = phase /\ batch' = batch /\ seen' = seen
  BY TypesOfOutbox DEF worker
<1>2. \A w \in Workers : Current(w)' = Current(w)
  BY <1>1 DEF Current, First
<1>3. \A i, stages : At(i, stages)' = At(i, stages)
  BY <1>1, <1>2 DEF At
<1>4. WorkerTypes'
  BY <1>1 DEF WorkerTypes
<1> QED
  BY <1>1, <1>2, <1>3, <1>4

-----------------------------------------------------------------------------
(* The inductive invariant.                                                *)

\* A worker that is about to mark a row has delivered its event.
DeliveredInv ==
  \A w \in Workers : phase[w] = "mark" => outbox[Current(w)].event \in delivered

\* Whoever has moved a row to the DLQ does not hold it, and never will: the row is
\* gone.  So no worker moves it twice.
Gone(i) == i \in Ids /\ outbox[i].gone

MovedInv == \A i \in 1..MaxInserts : \A w \in dlq[i] : Gone(i) /\ i \notin batch[w]

\* A row that never was in the hands of two is in those of one, and of none once
\* it is published.
Holders(i) == {w \in Workers : i \in batch[w]}

HeldByOne(i) ==
  /\ \A u, w \in Holders(i) : u = w
  /\ outbox[i].published => Holders(i) = {}

SharedInv == \A i \in Ids \ shared : HeldByOne(i)

\* Every failure of a row in the table is counted by a worker that has it still
\* to count, or in the row, unless two have counted at once: what the row says,
\* and what a worker has read of it, is never ahead of its failures.
Counting(i) == Cardinality(At(i, {"select", "fail"}))

Counted(i) ==
  /\ ~ outbox[i].gone
  /\ outbox[i].retries + Counting(i) <= failures[i]
  /\ \A w \in At(i, {"fail"}) : seen[w] + Counting(i) <= failures[i]

CountInv == \A i \in Ids : failures[i] = MaxRetries \/ Counted(i)

OutboxInv == OutboxTypeOK /\ RoomInv /\ DeliveredInv /\ MovedInv /\ SharedInv /\ CountInv

-----------------------------------------------------------------------------
(* Types.                                                                  *)

LEMMA DeadStep ==
  ASSUME OutboxTypeOK, RoomInv, [OutboxNext]_outboxVars
  PROVE  DeadTypes'
<1>1. DeadTypes /\ Ids \subseteq Ids'
  BY TypesOfOutbox, StepKeepsRows DEF RowsKept
<1>2. ASSUME UNCHANGED <<dlq, picked, shared>> PROVE DeadTypes'
  BY <1>1, <1>2 DEF DeadTypes
<1>3. ASSUME NEW o \in Operators, PickDead(o) PROVE DeadTypes'
  <2>1. /\ \E i \in Ids : \E w \in dlq[i] : picked' = [picked EXCEPT ![o] = {<<i, w>>}]
        /\ UNCHANGED <<dlq, shared>>
    BY <1>3 DEF PickDead, history
  <2>2. PICK i \in Ids : \E w \in dlq[i] : picked' = [picked EXCEPT ![o] = {<<i, w>>}]
    BY <2>1
  <2>3. PICK w \in dlq[i] : picked' = [picked EXCEPT ![o] = {<<i, w>>}]
    BY <2>2
  <2>4. i \in 1..MaxInserts
    BY RowsAreTyped, OutboxAssumption DEF RoomInv
  <2>5. w \in Workers
    BY <1>1, <2>3, <2>4 DEF DeadTypes
  <2>6. {<<i, w>>} \in SUBSET (Ids' \X Workers)
    BY <1>1, <2>2, <2>5
  <2>7. \A u \in Operators : picked[u] \in SUBSET (Ids' \X Workers)
    BY <1>1 DEF DeadTypes
  <2>8. picked' \in [Operators -> SUBSET (Ids' \X Workers)]
    BY <1>1, <2>3, <2>6, <2>7 DEF DeadTypes
  <2> QED
    BY <1>1, <2>1, <2>8 DEF DeadTypes
<1>4. ASSUME NEW o \in Operators, Requeue(o) PROVE DeadTypes'
  <2>1. PICK i \in Ids, w \in Workers : dlq' = [dlq EXCEPT ![i] = @ \ {w}]
    BY <1>4, RequeueRows
  <2>2. picked' = [picked EXCEPT ![o] = {}] /\ UNCHANGED shared
    BY <1>4 DEF Requeue, history
  <2>3. dlq' \in [1..MaxInserts -> SUBSET Workers]
    BY <1>1, <2>1 DEF DeadTypes
  <2>4. picked' \in [Operators -> SUBSET (Ids' \X Workers)]
    <3>1. \A u \in Operators : picked[u] \in SUBSET (Ids' \X Workers)
      BY <1>1 DEF DeadTypes
    <3> QED
      BY <1>1, <2>2, <3>1 DEF DeadTypes
  <2> QED
    BY <1>1, <2>2, <2>3, <2>4 DEF DeadTypes
<1>5. ASSUME NEW w \in Workers, MarkFailed(w) PROVE DeadTypes'
  <2>1. dlq' = dlq \/ \E c : dlq' = [dlq EXCEPT ![c] = @ \cup {w}]
    BY <1>5 DEF MarkFailed
  <2>2. UNCHANGED <<picked, shared>>
    BY <1>5 DEF MarkFailed, history
  <2>3. dlq' \in [1..MaxInserts -> SUBSET Workers]
    BY <1>1, <2>1 DEF DeadTypes
  <2> QED
    BY <1>1, <2>2, <2>3 DEF DeadTypes
<1>6. ASSUME NEW w \in Workers, Poll(w) PROVE DeadTypes'
  <2>1. /\ shared' = shared \cup {i \in FirstRows(Ready) : \E u \in Workers : i \in batch[u]}
        /\ UNCHANGED <<dlq, picked>>
    BY <1>6 DEF Poll
  <2>2. FirstRows(Ready) \subseteq Ids
    BY DEF FirstRows, Ready
  <2> QED
    BY <1>1, <2>1, <2>2 DEF DeadTypes
<1>7. ASSUME NEW w \in Workers,
             Publish(w) \/ (\E landed \in BOOLEAN : PublishRaises(w, landed)) \/ Mark(w)
               \/ ReadRetries(w) \/ MarkRaises(w) \/ Abandon(w) \/ StopWorker(w) \/ StartWorker(w)
      PROVE  DeadTypes'
  BY <1>2, <1>7 DEF Publish, PublishRaises, Mark, ReadRetries, MarkRaises, Abandon, StopWorker,
                    StartWorker, history
<1>8. ASSUME NEW k \in 1..MaxInserts, Write(k) PROVE DeadTypes'
  BY <1>2, <1>8 DEF Write, history
<1>9. ASSUME NEW i \in Ids, DelayElapses(i) PROVE DeadTypes'
  BY <1>2, <1>9 DEF DelayElapses, history
<1>10. CASE UNCHANGED outboxVars
  BY <1>2, <1>10 DEF outboxVars, history
<1> QED
  BY <1>3, <1>4, <1>5, <1>6, <1>7, <1>8, <1>9, <1>10 DEF OutboxNext, ProcessOnce

LEMMA WorkerStep ==
  ASSUME OutboxTypeOK, RoomInv, [OutboxNext]_outboxVars
  PROVE  WorkerTypes'
<1>1. ASSUME NEW k \in 1..MaxInserts, Write(k)
      PROVE  WorkerTypes'
  BY <1>1, WriteRows, WorkersStay DEF Write, RowsKept
<1>2. ASSUME NEW i \in Ids, DelayElapses(i)
      PROVE  WorkerTypes'
  <2>1. UNCHANGED worker
    BY <1>2 DEF DelayElapses
  <2>2. Ids \subseteq Ids'
    BY <1>2, DelayRows DEF RowsKept
  <2> QED
    BY <2>1, <2>2, WorkersStay
<1>8. ASSUME NEW o \in Operators, PickDead(o) \/ Requeue(o)
      PROVE  WorkerTypes'
  <2>1. UNCHANGED worker
    BY <1>8 DEF PickDead, Requeue
  <2>2. Ids \subseteq Ids'
    BY <1>8, RequeueRows, UnchangedKeepsRows DEF PickDead, RowsKept
  <2> QED
    BY <2>1, <2>2, WorkersStay
<1>3. ASSUME NEW w \in Workers, Mark(w) \/ MarkFailed(w)
      PROVE  WorkerTypes'
  <2>1. Ids \subseteq Ids'
    BY <1>3, MarkRows, MarkFailedRows DEF RowsKept
  <2>2. NextEvent(w) /\ phase[w] # "poll"
    BY <1>3 DEF Mark, MarkFailed
  <2> QED
    BY <2>1, <2>2, NextEventMoves
<1>4. ASSUME NEW w \in Workers, (\E landed \in BOOLEAN : PublishRaises(w, landed)) \/ MarkRaises(w)
      PROVE  WorkerTypes'
  <2>1. Attempted(w) /\ UNCHANGED <<outbox, batch, seen>> /\ phase[w] # "poll"
    BY <1>4 DEF PublishRaises, MarkRaises
  <2>2. Ids' = Ids
    BY <2>1 DEF Ids
  <2> QED
    BY <2>1, <2>2, AttemptedMoves
<1>5. ASSUME NEW w \in Workers, StopWorker(w) \/ StartWorker(w)
      PROVE  WorkerTypes'
  <2>1. UNCHANGED worker /\ UNCHANGED outbox
    BY <1>5 DEF StopWorker, StartWorker
  <2> QED
    BY <2>1, WorkersStay DEF Ids
<1>6. ASSUME NEW w \in Workers, Poll(w) \/ Publish(w) \/ ReadRetries(w) \/ Abandon(w)
      PROVE  WorkerTypes'
  BY <1>6, PollMoves, PublishMoves, ReadRetriesMoves, AbandonMoves
<1>7. CASE UNCHANGED outboxVars
  <2>1. UNCHANGED worker /\ UNCHANGED outbox
    BY <1>7 DEF outboxVars
  <2> QED
    BY <2>1, WorkersStay DEF Ids
<1> QED
  BY <1>1, <1>2, <1>3, <1>4, <1>5, <1>6, <1>7, <1>8 DEF OutboxNext, ProcessOnce

LEMMA HistoryStep ==
  ASSUME OutboxTypeOK, RoomInv, [OutboxNext]_outboxVars
  PROVE  HistoryTypes' /\ delivered \subseteq delivered'
<1>1. HistoryTypes /\ MaxErrors \in Nat
  BY TypesOfOutbox, OutboxAssumption
<1>2. ASSUME NEW w \in Workers, phase[w] # "poll"
      PROVE  outbox[Current(w)].event \in 1..MaxInserts
  BY <1>2, CurrentIsPolled DEF OutboxRow
<1>3. ASSUME NEW w \in Workers, Attempted(w), phase[w] # "poll", UNCHANGED <<outbox, batch, seen>>
      PROVE  failures' \in [1..MaxInserts -> 0..MaxRetries]
  <2>1. Ids' = Ids
    BY <1>3 DEF Ids
  <2> QED
    BY <1>3, <2>1, AttemptedMoves
<1>4. ASSUME NEW w \in Workers, Publish(w)
      PROVE  HistoryTypes' /\ delivered \subseteq delivered'
  BY <1>1, <1>2, <1>4 DEF HistoryTypes, Publish
<1>5. ASSUME NEW w \in Workers, NEW landed \in BOOLEAN, PublishRaises(w, landed)
      PROVE  HistoryTypes' /\ delivered \subseteq delivered'
  <2>1. /\ phase[w] # "poll" /\ Attempted(w)
        /\ delivered' = delivered \/ delivered' = delivered \cup {outbox[Current(w)].event}
        /\ UNCHANGED <<outbox, dlq, running, batch, seen, errors>>
    BY <1>5 DEF PublishRaises
  <2> QED
    BY <1>1, <1>2, <1>3, <2>1 DEF HistoryTypes
<1>6. ASSUME NEW w \in Workers, MarkRaises(w)
      PROVE  HistoryTypes' /\ delivered \subseteq delivered'
  <2>1. /\ phase[w] # "poll" /\ Attempted(w)
        /\ errors < MaxErrors /\ errors' = errors + 1
        /\ UNCHANGED <<outbox, dlq, running, batch, seen, delivered>>
    BY <1>6 DEF MarkRaises
  <2> QED
    BY <1>1, <1>3, <2>1 DEF HistoryTypes
<1>7. ASSUME NEW w \in Workers, Abandon(w) \/ StopWorker(w) \/ StartWorker(w)
      PROVE  HistoryTypes' /\ delivered \subseteq delivered'
  <2>1. errors' \in 0..MaxErrors
    BY <1>1, <1>7 DEF HistoryTypes, Abandon, StopWorker, StartWorker
  <2>2. running' \in [Workers -> BOOLEAN]
    BY <1>1, <1>7 DEF HistoryTypes, Abandon, StopWorker, StartWorker
  <2>3. UNCHANGED <<delivered, failures>>
    BY <1>7 DEF Abandon, StopWorker, StartWorker, history
  <2> QED
    BY <1>1, <2>1, <2>2, <2>3 DEF HistoryTypes
<1>8. ASSUME UNCHANGED <<running, errors, delivered, failures>>
      PROVE  HistoryTypes' /\ delivered \subseteq delivered'
  BY <1>1, <1>8 DEF HistoryTypes
<1>9. ASSUME NEW w \in Workers, Poll(w) \/ Mark(w) \/ ReadRetries(w) \/ MarkFailed(w)
      PROVE  HistoryTypes' /\ delivered \subseteq delivered'
  BY <1>8, <1>9 DEF Poll, Mark, ReadRetries, MarkFailed, history
<1>10. ASSUME NEW k \in 1..MaxInserts, Write(k)
       PROVE  HistoryTypes' /\ delivered \subseteq delivered'
  BY <1>8, <1>10 DEF Write, history
<1>11. ASSUME NEW i \in Ids, DelayElapses(i)
       PROVE  HistoryTypes' /\ delivered \subseteq delivered'
  BY <1>8, <1>11 DEF DelayElapses, history
<1>12. ASSUME NEW o \in Operators, PickDead(o) \/ Requeue(o)
       PROVE  HistoryTypes' /\ delivered \subseteq delivered'
  BY <1>8, <1>12 DEF PickDead, Requeue, history
<1>13. CASE UNCHANGED outboxVars
  BY <1>8, <1>13 DEF outboxVars, history
<1> QED
  BY <1>4, <1>5, <1>6, <1>7, <1>9, <1>10, <1>11, <1>12, <1>13 DEF OutboxNext, ProcessOnce

LEMMA TypeStep ==
  ASSUME OutboxInv, [OutboxNext]_outboxVars
  PROVE  OutboxTypeOK' /\ RoomInv'
<1>1. RowsKept
  BY StepKeepsRows DEF OutboxInv
<1>2. WorkerTypes' /\ HistoryTypes' /\ DeadTypes'
  BY WorkerStep, HistoryStep, DeadStep DEF OutboxInv
<1>3. OutboxTypeOK'
  BY <1>1, <1>2 DEF OutboxTypeOK, OutboxRow, WorkerTypes, HistoryTypes, DeadTypes, RowsKept
<1> QED
  BY <1>1, <1>3 DEF RowsKept, RoomInv

-----------------------------------------------------------------------------
(* The other parts.                                                        *)

\* A step that leaves the workers alone.
Elsewhere ==
  /\ UNCHANGED worker /\ UNCHANGED shared
  /\ \/ \E k \in 1..MaxInserts : Write(k)
     \/ \E i \in Ids : DelayElapses(i)
     \/ \E o \in Operators : Requeue(o)
     \/ UNCHANGED <<outbox, dlq, delivered, failures>>

\* A step of one worker, and where it is after it.
Advances(w) ==
  /\ MovesAlone(w)
  /\ \/ Poll(w) /\ phase'[w] = "publish"
     \/ Publish(w) /\ phase'[w] = "mark"
     \/ Mark(w) /\ phase'[w] \in {"poll", "publish"}
     \/ MarkFailed(w) /\ phase'[w] \in {"poll", "publish"}
     \/ Abandon(w) /\ phase'[w] = "poll"
     \/ ReadRetries(w)
     \/ /\ Attempted(w) /\ phase'[w] = "select" /\ phase[w] \in {"publish", "mark"}
        /\ UNCHANGED <<outbox, dlq, batch, seen, shared>>

LEMMA StepKinds ==
  ASSUME OutboxInv, [OutboxNext]_outboxVars
  PROVE  Elsewhere \/ \E w \in Workers : Advances(w)
<1>1. ASSUME NEW w \in Workers, Mark(w) \/ MarkFailed(w)
      PROVE  MovesAlone(w) /\ phase'[w] \in {"poll", "publish"}
  <2>1. Ids \subseteq Ids'
    BY <1>1, MarkRows, MarkFailedRows DEF OutboxInv, RowsKept
  <2>2. NextEvent(w) /\ phase[w] # "poll"
    BY <1>1 DEF Mark, MarkFailed
  <2> QED
    BY <2>1, <2>2, NextEventMoves DEF OutboxInv
<1>2. ASSUME NEW w \in Workers, (\E landed \in BOOLEAN : PublishRaises(w, landed)) \/ MarkRaises(w)
      PROVE  /\ MovesAlone(w) /\ Attempted(w) /\ phase'[w] = "select"
             /\ phase[w] \in {"publish", "mark"}
             /\ UNCHANGED <<outbox, dlq, batch, seen, shared>>
  <2>1. /\ Attempted(w) /\ UNCHANGED <<outbox, dlq, batch, seen, shared>>
        /\ phase[w] \in {"publish", "mark"}
    BY <1>2 DEF PublishRaises, MarkRaises
  <2>2. Ids' = Ids
    BY <2>1 DEF Ids
  <2> QED
    BY <2>1, <2>2, AttemptedMoves DEF OutboxInv
<1>3. ASSUME NEW w \in Workers, StopWorker(w) \/ StartWorker(w)
      PROVE  UNCHANGED worker /\ UNCHANGED <<outbox, dlq, delivered, failures, shared>>
  BY <1>3 DEF StopWorker, StartWorker, history
<1>4. ASSUME NEW w \in Workers
      PROVE  /\ Poll(w) => MovesAlone(w) /\ phase'[w] = "publish"
             /\ Publish(w) => MovesAlone(w) /\ phase'[w] = "mark"
             /\ Abandon(w) => MovesAlone(w) /\ phase'[w] = "poll"
             /\ ReadRetries(w) => MovesAlone(w)
  BY PollMoves, PublishMoves, AbandonMoves, ReadRetriesMoves DEF OutboxInv
<1>5. ASSUME NEW k \in 1..MaxInserts, Write(k)
      PROVE  UNCHANGED worker /\ UNCHANGED shared
  BY <1>5 DEF Write, history
<1>6. ASSUME NEW i \in Ids, DelayElapses(i)
      PROVE  UNCHANGED worker /\ UNCHANGED shared
  BY <1>6 DEF DelayElapses, history
<1>7. CASE UNCHANGED outboxVars
  BY <1>7 DEF outboxVars, history, Elsewhere
<1>11. ASSUME NEW o \in Operators, PickDead(o) \/ Requeue(o)
       PROVE  Elsewhere
  <2>1. UNCHANGED worker /\ UNCHANGED shared
    BY <1>11 DEF PickDead, Requeue, history
  <2>2. Requeue(o) \/ UNCHANGED <<outbox, dlq, delivered, failures>>
    BY <1>11 DEF PickDead, history
  <2> QED
    BY <2>1, <2>2 DEF Elsewhere
<1>8. CASE \E k \in 1..MaxInserts : Write(k)
  BY <1>5, <1>8 DEF Elsewhere
<1>9. CASE \E i \in Ids : DelayElapses(i)
  BY <1>6, <1>9 DEF Elsewhere
<1>10. ASSUME NEW w \in Workers,
              ProcessOnce(w) \/ MarkRaises(w) \/ Abandon(w) \/ StopWorker(w) \/ StartWorker(w)
       PROVE  Elsewhere \/ Advances(w)
  BY <1>1, <1>2, <1>3, <1>4, <1>10 DEF ProcessOnce, Elsewhere, Advances
<1> QED
  BY <1>7, <1>8, <1>9, <1>10, <1>11 DEF OutboxNext

LEMMA OthersStayPut ==
  ASSUME NEW w \in Workers, Moves(w)
  PROVE  \A u \in Workers \ {w} : Current(u)' = Current(u) /\ phase'[u] = phase[u]
BY DEF Moves, Current, First

LEMMA DeliveredStep ==
  ASSUME OutboxInv, [OutboxNext]_outboxVars
  PROVE  DeliveredInv'
<1>1. RowsKept /\ delivered \subseteq delivered'
  BY StepKeepsRows, HistoryStep DEF OutboxInv
<1>2. \A u \in Workers : phase[u] = "mark" => /\ Current(u) \in Ids
                                             /\ outbox'[Current(u)].event \in delivered'
  BY <1>1, CurrentIsPolled DEF OutboxInv, DeliveredInv, RowsKept
<1>3. CASE UNCHANGED worker
  <2>1. \A u \in Workers : Current(u)' = Current(u) /\ phase'[u] = phase[u]
    BY <1>1, <1>3, WorkersStay DEF OutboxInv, RowsKept
  <2> QED
    BY <1>2, <2>1 DEF DeliveredInv
<1>4. ASSUME NEW w \in Workers, Moves(w),
             phase'[w] = "mark" => outbox'[Current(w)'].event \in delivered'
      PROVE  DeliveredInv'
  <2>1. \A u \in Workers \ {w} : Current(u)' = Current(u) /\ phase'[u] = phase[u]
    BY <1>4, OthersStayPut
  <2> QED
    BY <1>2, <1>4, <2>1 DEF DeliveredInv
<1>5. ASSUME NEW w \in Workers, Publish(w)
      PROVE  Moves(w) /\ outbox'[Current(w)'].event \in delivered'
  <2>1. Current(w)' = Current(w) /\ Moves(w)
    BY <1>5, PublishMoves DEF OutboxInv, MovesAlone
  <2>2. outbox' = outbox /\ outbox[Current(w)].event \in delivered'
    BY <1>5 DEF Publish
  <2> QED
    BY <2>1, <2>2
<1>6. ASSUME NEW w \in Workers, ReadRetries(w)
      PROVE  Moves(w) /\ phase'[w] # "mark"
  BY <1>6, ReadRetriesMoves DEF OutboxInv, MovesAlone
<1> QED
  BY <1>3, <1>4, <1>5, <1>6, StepKinds DEF MovesAlone, Elsewhere, Advances

LEMMA MovedFacts ==
  ASSUME OutboxInv
  PROVE  /\ Ids = 1..Len(outbox) /\ Len(outbox) \in Nat /\ Len(outbox) <= MaxInserts
         /\ MaxInserts \in Nat /\ \A i \in Ids : outbox[i] \in OutboxRow
         /\ dlq \in [1..MaxInserts -> SUBSET Workers]
         /\ \A w \in Workers : batch[w] \subseteq Ids
BY RowsAreTyped, TypesOfOutbox, OutboxAssumption DEF OutboxInv, RoomInv, DeadTypes, WorkerTypes

\* A step of one worker takes rows into its batch only by a poll.
LEMMA BatchesShrink ==
  ASSUME OutboxInv, NEW w \in Workers, Advances(w)
  PROVE  Poll(w) \/ (shared' = shared /\ \A u \in Workers : batch'[u] \subseteq batch[u])
<1>1. WorkerTypes
  BY TypesOfOutbox DEF OutboxInv
<1>2. ASSUME UNCHANGED batch \/ NextEvent(w) \/ batch' = [batch EXCEPT ![w] = {}]
      PROVE  \A u \in Workers : batch'[u] \subseteq batch[u]
  <2>1. UNCHANGED batch \/ \E S \in SUBSET batch[w] : batch' = [batch EXCEPT ![w] = S]
    BY <1>2 DEF NextEvent
  <2> QED
    BY <1>1, <2>1 DEF WorkerTypes
<1>3. CASE Publish(w)
  BY <1>2, <1>3 DEF Publish
<1>4. CASE Mark(w) \/ MarkFailed(w) \/ ReadRetries(w)
  BY <1>2, <1>4 DEF Mark, MarkFailed, ReadRetries, history
<1>5. CASE Abandon(w)
  BY <1>2, <1>5 DEF Abandon, history
<1>6. CASE UNCHANGED <<outbox, dlq, batch, seen, shared>>
  BY <1>2, <1>6
<1> QED
  BY <1>3, <1>4, <1>5, <1>6 DEF Advances

LEMMA WhatPollTakes ==
  ASSUME OutboxInv, NEW w \in Workers, Poll(w)
  PROVE  /\ \A u \in Workers : batch'[u] = IF u = w THEN FirstRows(Ready) ELSE batch[u]
         /\ FirstRows(Ready) \subseteq Ids
         /\ \A i \in FirstRows(Ready) : ~ outbox[i].gone /\ ~ outbox[i].published
         /\ shared' = shared \cup {i \in FirstRows(Ready) : Holders(i) # {}}
         /\ UNCHANGED <<outbox, dlq>>
<1>1. WorkerTypes
  BY TypesOfOutbox DEF OutboxInv
<1>2. /\ batch' = [batch EXCEPT ![w] = FirstRows(Ready)] /\ UNCHANGED <<outbox, dlq>>
      /\ shared' = shared \cup {i \in FirstRows(Ready) : \E u \in Workers : i \in batch[u]}
  BY DEF Poll
<1>3. \A i : Holders(i) # {} <=> \E u \in Workers : i \in batch[u]
  BY DEF Holders
<1>4. shared' = shared \cup {i \in FirstRows(Ready) : Holders(i) # {}}
  BY <1>2, <1>3
<1> QED
  BY <1>1, <1>2, <1>4 DEF WorkerTypes, FirstRows, Ready

\* What is gone stays so, and no row that was moved comes into a batch.
LEMMA MovedKept ==
  ASSUME OutboxInv, RowsKept,
         \A i \in 1..MaxInserts : dlq'[i] \subseteq dlq[i],
         \A u \in Workers : \A i \in batch'[u] : i \in batch[u] \/ ~ Gone(i)
  PROVE  MovedInv'
<1>1. \A i \in 1..MaxInserts : Gone(i) => Gone(i)'
  BY DEF RowsKept, Gone
<1>2. \A i \in 1..MaxInserts : \A u \in dlq[i] : u \in Workers /\ Gone(i) /\ i \notin batch[u]
  BY MovedFacts DEF OutboxInv, MovedInv
<1> QED
  BY <1>1, <1>2 DEF MovedInv

LEMMA MovedByWorker ==
  ASSUME OutboxInv, NEW w \in Workers, MarkFailed(w)
  PROVE  MovedInv'
<1>1. PICK c \in Ids : c = Current(w)
  BY CurrentIsPolled DEF MarkFailed, OutboxInv
<1>2. /\ RowsKept
      /\ outbox'[c] = IF GivesUp(w) THEN Deleted(outbox[c])
                      ELSE IF outbox[c].gone THEN outbox[c] ELSE Delayed(outbox[c], seen[w] + 1)
  BY <1>1, MarkFailedRows DEF OutboxInv
<1>3. WorkerTypes /\ batch' = [batch EXCEPT ![w] = @ \ {c}]
  BY <1>1, TypesOfOutbox DEF MarkFailed, NextEvent, OutboxInv
<1>4. \A u \in Workers : batch'[u] = IF u = w THEN batch[w] \ {c} ELSE batch[u]
  BY <1>3 DEF WorkerTypes
<1>5. CASE ~ GivesUp(w)
  <2>1. UNCHANGED dlq
    BY <1>5 DEF MarkFailed
  <2> QED
    BY <1>2, <1>4, <2>1, MovedKept
<1>6. CASE GivesUp(w)
  <2>0. outbox[c] \in OutboxRow /\ outbox'[c] = Deleted(outbox[c]) /\ c \in Ids'
    BY <1>1, <1>2, <1>6, MovedFacts DEF RowsKept
  <2>1. Gone(c)'
    BY <2>0, DeletedRow DEF Gone
  <2>2. dlq' = [dlq EXCEPT ![c] = @ \cup {w}]
    BY <1>1, <1>6 DEF MarkFailed
  <2>3. \A i \in 1..MaxInserts : dlq'[i] = IF i = c THEN dlq[c] \cup {w} ELSE dlq[i]
    BY <2>2, MovedFacts
  <2>4. \A i \in 1..MaxInserts : \A u \in dlq[i] : u \in Workers /\ Gone(i) /\ i \notin batch[u]
    BY MovedFacts DEF OutboxInv, MovedInv
  <2>5. \A i \in 1..MaxInserts : Gone(i) => Gone(i)'
    BY <1>2 DEF RowsKept, Gone
  <2>6. ASSUME NEW i \in 1..MaxInserts, NEW u \in dlq'[i] PROVE Gone(i)' /\ i \notin batch'[u]
    <3>1. u \in dlq[i] \/ (i = c /\ u = w)
      BY <2>3
    <3> QED
      BY <1>4, <2>1, <2>4, <2>5, <3>1
  <2> QED
    BY <2>6 DEF MovedInv
<1> QED
  BY <1>5, <1>6

LEMMA MovedStep ==
  ASSUME OutboxInv, [OutboxNext]_outboxVars
  PROVE  MovedInv'
<1>1. RowsKept
  BY StepKeepsRows DEF OutboxInv
<1>2. CASE Elsewhere
  <2>1. UNCHANGED batch
    BY <1>2 DEF Elsewhere, worker
  <2>2. \A i \in 1..MaxInserts : dlq'[i] \subseteq dlq[i]
    <3>1. ASSUME NEW o \in Operators, Requeue(o)
          PROVE  \A i \in 1..MaxInserts : dlq'[i] \subseteq dlq[i]
      <4>1. PICK i \in Ids, w \in Workers : dlq' = [dlq EXCEPT ![i] = @ \ {w}]
        BY <3>1, RequeueRows DEF OutboxInv
      <4> QED
        BY <4>1, MovedFacts
    <3> QED
      BY <1>2, <3>1 DEF Elsewhere, Write, DelayElapses
  <2> QED
    BY <1>1, <2>1, <2>2, MovedKept
<1>3. ASSUME NEW w \in Workers, Advances(w)
      PROVE  MovedInv'
  <2>1. CASE MarkFailed(w)
    BY <2>1, MovedByWorker
  <2>2. CASE Poll(w)
    <3>1. \A u \in Workers : \A i \in batch'[u] : i \in batch[u] \/ ~ Gone(i)
      BY <2>2, WhatPollTakes DEF Gone
    <3>2. UNCHANGED dlq
      BY <2>2 DEF Poll
    <3> QED
      BY <1>1, <3>1, <3>2, MovedKept
  <2>3. CASE UNCHANGED dlq /\ \A u \in Workers : batch'[u] \subseteq batch[u]
    BY <1>1, <2>3, MovedKept
  <2>4. MarkFailed(w) \/ UNCHANGED dlq
    BY <1>3 DEF Advances, Poll, Publish, Mark, Abandon, ReadRetries
  <2> QED
    BY <1>3, <2>1, <2>2, <2>3, <2>4, BatchesShrink
<1> QED
  BY <1>2, <1>3, StepKinds

\* A row that no more workers hold, and that is no further on.
LEMMA HeldKept ==
  ASSUME NEW i, HeldByOne(i), Holders(i)' \subseteq Holders(i),
         outbox'[i].published => outbox[i].published \/ Holders(i)' = {}
  PROVE  HeldByOne(i)'
BY DEF HeldByOne

LEMMA SharedStep ==
  ASSUME OutboxInv, [OutboxNext]_outboxVars
  PROVE  SharedInv'
<1>1. RowsKept /\ \A i \in Ids \ shared : HeldByOne(i)
  BY StepKeepsRows DEF OutboxInv, SharedInv
<1>2. CASE Elsewhere
  <2>1. UNCHANGED <<batch, shared>> /\ \A i : Holders(i)' = Holders(i)
    BY <1>2 DEF Elsewhere, worker, Holders
  <2>2. \A i \in Ids : outbox'[i].published => outbox[i].published
    <3>1. ASSUME NEW j \in Ids, DelayElapses(j), NEW i \in Ids
          PROVE  outbox'[i].published = outbox[i].published
      <4>1. outbox[j] \in OutboxRow
        BY MovedFacts
      <4>2. [outbox[j] EXCEPT !.waiting = FALSE].published = outbox[j].published
        BY <4>1 DEF OutboxRow
      <4> QED
        BY <3>1, <4>2, DelayRows DEF OutboxInv
    <3> QED
      BY <1>2, <3>1, WriteRows, RequeueRows DEF Elsewhere, OutboxInv
  <2>3. \A i \in Ids' \ Ids : Holders(i) = {}
    BY MovedFacts DEF Holders
  <2>4. \A i \in Ids' \ Ids : HeldByOne(i)'
    BY <2>1, <2>3 DEF HeldByOne
  <2>5. \A i \in Ids \ shared : HeldByOne(i)'
    BY <1>1, <2>1, <2>2, HeldKept
  <2> QED
    BY <2>1, <2>4, <2>5 DEF SharedInv
<1>3. ASSUME NEW w \in Workers, Poll(w)
      PROVE  SharedInv'
  <2>1. /\ \A u \in Workers : batch'[u] = IF u = w THEN FirstRows(Ready) ELSE batch[u]
        /\ \A i \in FirstRows(Ready) : ~ outbox[i].published
        /\ shared' = shared \cup {i \in FirstRows(Ready) : Holders(i) # {}}
        /\ UNCHANGED outbox /\ Ids' = Ids
    BY <1>3, WhatPollTakes DEF Ids
  <2> SUFFICES ASSUME NEW i \in Ids, i \notin shared' PROVE HeldByOne(i)'
    BY <2>1 DEF SharedInv
  <2>2. CASE i \in FirstRows(Ready)
    <3>1. Holders(i) = {}
      BY <2>1, <2>2
    <3>2. \A u \in Holders(i)' : u = w
      BY <2>1, <3>1 DEF Holders
    <3> QED
      BY <2>1, <2>2, <3>2 DEF HeldByOne
  <2>3. CASE i \notin FirstRows(Ready)
    <3>1. Holders(i)' \subseteq Holders(i)
      BY <2>1, <2>3 DEF Holders
    <3>2. HeldByOne(i)
      BY <1>1, <2>1
    <3> QED
      BY <2>1, <3>1, <3>2, HeldKept
  <2> QED
    BY <2>2, <2>3
<1>4. ASSUME NEW w \in Workers, Advances(w), shared' = shared,
             \A u \in Workers : batch'[u] \subseteq batch[u]
      PROVE  SharedInv'
  <2>1. \A i : Holders(i)' \subseteq Holders(i)
    BY <1>4 DEF Holders
  <2>2. ASSUME Ids' = Ids,
               \A i \in Ids \ shared :
                 outbox'[i].published => outbox[i].published \/ Holders(i)' = {}
        PROVE  SharedInv'
    BY <1>1, <1>4, <2>1, <2>2, HeldKept DEF SharedInv
  <2>3. CASE UNCHANGED outbox
    BY <2>2, <2>3 DEF Ids
  <2>4. CASE Mark(w)
    <3>1. PICK c \in Ids : c = Current(w) /\ c \in batch[w] /\ outbox[c] \in OutboxRow
      BY <2>4, CurrentIsPolled DEF Mark, OutboxInv
    <3>2. Ids' = Ids /\ \A i \in Ids \ {c} : outbox'[i] = outbox[i]
      BY <2>4, <3>1, MarkRows DEF OutboxInv
    <3>3. c \notin batch'[w]
      <4>1. WorkerTypes /\ batch' = [batch EXCEPT ![w] = @ \ {c}]
        BY <2>4, <3>1, TypesOfOutbox DEF Mark, NextEvent, OutboxInv
      <4> QED
        BY <4>1 DEF WorkerTypes
    <3>4. c \notin shared => Holders(c)' = {}
      <4> SUFFICES ASSUME c \notin shared, NEW u \in Holders(c)' PROVE FALSE
        OBVIOUS
      <4>1. u \in Holders(c) /\ w \in Holders(c) /\ u # w
        BY <2>1, <3>1, <3>3 DEF Holders
      <4> QED
        BY <1>1, <4>1 DEF HeldByOne
    <3> QED
      BY <2>2, <3>2, <3>4
  <2>5. CASE MarkFailed(w)
    <3>1. PICK c \in Ids : c = Current(w) /\ outbox[c] \in OutboxRow /\ seen[w] \in 0..(MaxRetries - 1)
      BY <2>5, CurrentIsPolled, TypesOfOutbox DEF MarkFailed, OutboxInv, WorkerTypes
    <3>2. /\ Ids' = Ids /\ \A i \in Ids \ {c} : outbox'[i] = outbox[i]
          /\ outbox'[c] = IF GivesUp(w) THEN Deleted(outbox[c])
                          ELSE IF outbox[c].gone THEN outbox[c] ELSE Delayed(outbox[c], seen[w] + 1)
      BY <2>5, <3>1, MarkFailedRows DEF OutboxInv
    <3>3. ~ GivesUp(w) => seen[w] + 1 \in 0..(MaxRetries - 1)
      BY <3>1, OutboxAssumption DEF GivesUp
    <3>4. /\ Deleted(outbox[c]).published = FALSE
          /\ ~ GivesUp(w) => Delayed(outbox[c], seen[w] + 1).published = outbox[c].published
      <4> DEFINE n == seen[w] + 1
      <4>1. n \in 0..(MaxRetries - 1) => Delayed(outbox[c], n).published = outbox[c].published
        BY <3>1, DelayedRow
      <4> QED
        BY <3>1, <3>3, <4>1, DeletedRow
    <3>5. outbox'[c].published => outbox[c].published
      BY <3>2, <3>4
    <3> QED
      BY <2>2, <3>2, <3>5
  <2>6. UNCHANGED outbox \/ Mark(w) \/ MarkFailed(w)
    BY <1>4 DEF Advances, Poll, Publish, Abandon, ReadRetries
  <2> QED
    BY <2>3, <2>4, <2>5, <2>6
<1>5. ASSUME NEW w \in Workers, Advances(w)
      PROVE  SharedInv'
  BY <1>3, <1>4, <1>5, BatchesShrink
<1> QED
  BY <1>2, <1>5, StepKinds

LEMMA CountFacts ==
  ASSUME OutboxInv, NEW i \in Ids
  PROVE  /\ i \in 1..MaxInserts /\ outbox[i] \in OutboxRow /\ outbox[i].retries \in Nat
         /\ Counting(i) \in Nat /\ failures[i] \in 0..MaxRetries /\ MaxRetries \in Nat
         /\ \A w \in At(i, {"fail"}) : w \in Workers /\ seen[w] \in Nat
         /\ failures[i] = MaxRetries \/ Counted(i)
<1>1. i \in 1..MaxInserts /\ outbox[i] \in OutboxRow /\ MaxRetries \in Nat \ {0}
  BY MovedFacts, OutboxAssumption
<1>2. WorkerTypes /\ HistoryTypes
  BY TypesOfOutbox DEF OutboxInv
<1>3. Counting(i) \in Nat
  BY AtIsFinite DEF Counting
<1>4. outbox[i].retries \in Nat /\ failures[i] \in 0..MaxRetries
  BY <1>1, <1>2 DEF OutboxRow, HistoryTypes
<1>5. \A w \in At(i, {"fail"}) : w \in Workers /\ seen[w] \in Nat
  BY <1>1, <1>2 DEF WorkerTypes, At
<1> QED
  BY <1>1, <1>3, <1>4, <1>5 DEF OutboxInv, CountInv

LEMMA CountingAfterMove ==
  ASSUME NEW w \in Workers, MovesAlone(w), NEW i
  PROVE  LET was == phase[w] \in {"select", "fail"} /\ Current(w) = i
             is == phase'[w] \in {"select", "fail"} /\ Current(w)' = i
         IN  /\ Counting(i)' = Counting(i) + (IF is THEN 1 ELSE 0) - (IF was THEN 1 ELSE 0)
             /\ was => Counting(i) > 0
             /\ \A u \in At(i, {"fail"})' :
                  IF u = w THEN phase'[w] = "fail" /\ Current(w)' = i
                  ELSE u \in At(i, {"fail"}) /\ seen'[u] = seen[u]
<1>1. Moves(w) /\ \A u \in Workers \ {w} : seen'[u] = seen[u]
  BY DEF MovesAlone
<1>2. \A u \in Workers \ {w} : Current(u)' = Current(u) /\ phase'[u] = phase[u]
  BY <1>1, OthersStayPut
<1>3. \A u \in At(i, {"fail"})' :
        IF u = w THEN phase'[w] = "fail" /\ Current(w)' = i
        ELSE u \in At(i, {"fail"}) /\ seen'[u] = seen[u]
  BY <1>1, <1>2 DEF At
<1> QED
  BY <1>1, <1>3, AtAfterMove DEF Counting

\* A row that the worker does not come to have to count, and that stays as it is.
LEMMA CountKept ==
  ASSUME OutboxInv, NEW w \in Workers, MovesAlone(w), NEW i \in Ids,
         outbox'[i].gone = outbox[i].gone, outbox'[i].retries = outbox[i].retries,
         failures'[i] = failures[i],
         ~ (phase'[w] \in {"select", "fail"} /\ Current(w)' = i)
  PROVE  failures'[i] = MaxRetries \/ Counted(i)'
<1> DEFINE was == phase[w] \in {"select", "fail"} /\ Current(w) = i
           is == phase'[w] \in {"select", "fail"} /\ Current(w)' = i
<1>1. /\ outbox[i].retries \in Nat /\ Counting(i) \in Nat /\ failures[i] \in 0..MaxRetries
      /\ \A u \in At(i, {"fail"}) : u \in Workers /\ seen[u] \in Nat
      /\ MaxRetries \in Nat
  BY CountFacts
<1>2. failures[i] = MaxRetries \/ Counted(i)
  BY CountFacts
<1>3. /\ Counting(i)' = Counting(i) + (IF is THEN 1 ELSE 0) - (IF was THEN 1 ELSE 0)
      /\ was => Counting(i) > 0
      /\ \A u \in At(i, {"fail"})' :
           IF u = w THEN phase'[w] = "fail" /\ Current(w)' = i
           ELSE u \in At(i, {"fail"}) /\ seen'[u] = seen[u]
  BY CountingAfterMove
<1>4. ~ is /\ \A u \in At(i, {"fail"})' : u \in At(i, {"fail"}) /\ seen'[u] = seen[u]
  BY <1>3
<1> HIDE DEF was, is
<1>5. Counting(i)' \in Nat /\ Counting(i)' <= Counting(i)
  BY <1>1, <1>3, <1>4
<1> QED
  BY <1>1, <1>2, <1>4, <1>5 DEF Counted

\* Steps that leave the workers alone.
LEMMA CountAlike ==
  ASSUME OutboxInv, [OutboxNext]_outboxVars, Elsewhere
  PROVE  CountInv'
<1>1. Ids = 1..Len(outbox) /\ Len(outbox) \in Nat /\ RowsKept
  BY MovedFacts, StepKeepsRows DEF OutboxInv
<1>2. /\ seen' = seen /\ failures' = failures
      /\ \A i, stages : At(i, stages)' = At(i, stages)
      /\ \A i : Counting(i)' = Counting(i)
  BY <1>1, WorkersStay DEF OutboxInv, RowsKept, Elsewhere, Counting, Write, Requeue, DelayElapses, history
<1>3. ASSUME NEW i \in Ids, outbox'[i].gone = outbox[i].gone,
             outbox'[i].retries = outbox[i].retries
      PROVE  failures'[i] = MaxRetries \/ Counted(i)'
  BY <1>2, <1>3, CountFacts DEF Counted
<1>4. ASSUME NEW i \in Ids' \ Ids, NEW e, outbox'[i] = NewEvent(e), i \in 1..MaxInserts
      PROVE  Counted(i)'
  <2>1. \A stages \in {{"fail"}, {"select", "fail"}} : At(i, stages) = {}
    BY <1>4, CurrentIsPolled DEF At, OutboxInv
  <2>2. Counting(i) = 0 /\ At(i, {"fail"}) = {}
    BY <2>1, FS_EmptySet DEF Counting
  <2>3. failures[i] \in Nat
    BY <1>4, TypesOfOutbox, OutboxAssumption DEF OutboxInv, HistoryTypes
  <2>4. ~ outbox'[i].gone /\ outbox'[i].retries = 0
    BY <1>4 DEF NewEvent
  <2> QED
    BY <1>2, <2>2, <2>3, <2>4 DEF Counted
<1>5. Ids' \subseteq 1..MaxInserts
  BY <1>1, OutboxAssumption, LenProperties DEF RowsKept, Ids
<1>6. ASSUME NEW k \in 1..MaxInserts, Write(k)
      PROVE  CountInv'
  <2>1. /\ Ids' = 1..(Len(outbox) + k) /\ \A i \in Ids : outbox'[i] = outbox[i]
        /\ \A j \in 1..k : outbox'[Len(outbox) + j] = NewEvent(Len(outbox) + j)
    BY <1>6, WriteRows DEF OutboxInv
  <2>2. \A i \in Ids' \ Ids : outbox'[i] = NewEvent(i)
    <3> SUFFICES ASSUME NEW i \in Ids' \ Ids
                 PROVE  outbox'[i] = NewEvent(i)
      OBVIOUS
    <3>1. i - Len(outbox) \in 1..k /\ i = Len(outbox) + (i - Len(outbox))
      BY <1>1, <2>1
    <3> QED
      BY <2>1, <3>1
  <2>3. \A i \in Ids' \ Ids : Counted(i)'
    BY <1>4, <1>5, <2>2
  <2>4. \A i \in Ids : failures'[i] = MaxRetries \/ Counted(i)'
    BY <1>3, <2>1
  <2> QED
    BY <2>3, <2>4 DEF CountInv
<1>7. ASSUME NEW o \in Operators, Requeue(o)
      PROVE  CountInv'
  <2>1. PICK i \in Ids :
          /\ Ids' = 1..(Len(outbox) + 1) /\ \A j \in Ids : outbox'[j] = outbox[j]
          /\ outbox'[Len(outbox) + 1] = NewEvent(outbox[i].event)
    BY <1>7, RequeueRows DEF OutboxInv
  <2>2. \A j \in Ids' \ Ids : j = Len(outbox) + 1
    BY <1>1, <2>1
  <2>3. \A j \in Ids' \ Ids : outbox'[j] = NewEvent(outbox[i].event)
    BY <2>1, <2>2
  <2>4. \A j \in Ids' \ Ids : Counted(j)'
    BY <1>4, <1>5, <2>3
  <2>5. \A j \in Ids : failures'[j] = MaxRetries \/ Counted(j)'
    BY <1>3, <2>1
  <2> QED
    BY <2>4, <2>5 DEF CountInv
<1>8. ASSUME NEW i \in Ids, DelayElapses(i)
      PROVE  CountInv'
  <2>1. /\ Ids' = Ids /\ \A j \in Ids \ {i} : outbox'[j] = outbox[j]
        /\ outbox'[i] = [outbox[i] EXCEPT !.waiting = FALSE]
    BY <1>8, DelayRows DEF OutboxInv
  <2>2. outbox'[i].gone = outbox[i].gone /\ outbox'[i].retries = outbox[i].retries
    BY <2>1, MovedFacts DEF OutboxRow
  <2>3. \A j \in Ids : failures'[j] = MaxRetries \/ Counted(j)'
    BY <1>3, <2>1, <2>2
  <2> QED
    BY <2>1, <2>3 DEF CountInv
<1>9. CASE UNCHANGED <<outbox, dlq, delivered, failures>>
  <2>1. Ids' = Ids /\ \A j \in Ids : outbox'[j] = outbox[j]
    BY <1>9 DEF Ids
  <2>2. \A j \in Ids : failures'[j] = MaxRetries \/ Counted(j)'
    BY <1>3, <2>1
  <2> QED
    BY <2>1, <2>2 DEF CountInv
<1> QED
  BY <1>6, <1>7, <1>8, <1>9 DEF Elsewhere

\* An attempt fails: one more failure, and one more worker to count it.
LEMMA CountAttempt ==
  ASSUME OutboxInv, NEW w \in Workers, Attempted(w), phase[w] \in {"publish", "mark"},
         UNCHANGED <<outbox, dlq, batch, seen>>
  PROVE  CountInv'
<1>0. PICK c \in Ids : c = Current(w)
  BY CurrentIsPolled DEF OutboxInv
<1> USE <1>0
<1>1. c \in Ids /\ Ids' = Ids /\ OutboxTypeOK /\ RoomInv
  BY CurrentIsPolled DEF OutboxInv, Ids
<1>2. /\ MovesAlone(w) /\ phase'[w] = "select" /\ Current(w)' = c
      /\ \A i \in 1..MaxInserts \ {c} : failures'[i] = failures[i]
      /\ failures'[c] = IF failures[c] < MaxRetries THEN failures[c] + 1 ELSE failures[c]
  BY <1>1, AttemptedMoves
<1>3. ASSUME NEW i \in Ids, i # c
      PROVE  failures'[i] = MaxRetries \/ Counted(i)'
  <2>1. i \in 1..MaxInserts
    BY CountFacts
  <2> QED
    BY <1>2, <1>3, <2>1, CountKept
<1>4. failures'[c] = MaxRetries \/ Counted(c)'
  <2>1. /\ outbox[c].retries \in Nat /\ Counting(c) \in Nat /\ failures[c] \in 0..MaxRetries
        /\ \A u \in At(c, {"fail"}) : u \in Workers /\ seen[u] \in Nat
        /\ MaxRetries \in Nat /\ (failures[c] = MaxRetries \/ Counted(c))
    BY <1>1, CountFacts
  <2>2. /\ Counting(c)' = Counting(c) + 1
        /\ \A u \in At(c, {"fail"})' : u \in At(c, {"fail"}) /\ seen'[u] = seen[u]
    <3> DEFINE was == phase[w] \in {"select", "fail"} /\ Current(w) = c
               is == phase'[w] \in {"select", "fail"} /\ Current(w)' = c
    <3>1. is /\ ~ was
      BY <1>2
    <3>2. /\ Counting(c)' = Counting(c) + (IF is THEN 1 ELSE 0) - (IF was THEN 1 ELSE 0)
          /\ \A u \in At(c, {"fail"})' :
               IF u = w THEN phase'[w] = "fail" /\ Current(w)' = c
               ELSE u \in At(c, {"fail"}) /\ seen'[u] = seen[u]
      BY <1>2, CountingAfterMove
    <3>3. \A u \in At(c, {"fail"})' : u # w
      BY <1>2, <3>2
    <3> HIDE DEF was, is
    <3> QED
      BY <2>1, <3>1, <3>2, <3>3
  <2>3. CASE failures[c] = MaxRetries
    BY <1>2, <2>1, <2>3
  <2>4. CASE failures[c] # MaxRetries
    <3>1. Counted(c) /\ failures'[c] = failures[c] + 1
      BY <1>2, <2>1, <2>4
    <3>2. Counted(c)'
      BY <2>1, <2>2, <3>1 DEF Counted
    <3> QED
      BY <3>2
  <2> QED
    BY <2>3, <2>4
<1> QED
  BY <1>1, <1>3, <1>4 DEF CountInv

\* mark_failed reads what the row says.
LEMMA CountRead ==
  ASSUME OutboxInv, NEW w \in Workers, ReadRetries(w)
  PROVE  CountInv'
<1>0. PICK c \in Ids : c = Current(w)
  BY CurrentIsPolled DEF OutboxInv, ReadRetries
<1> USE <1>0
<1>1. /\ c \in Ids /\ Ids' = Ids /\ OutboxTypeOK /\ phase[w] = "select"
      /\ UNCHANGED <<outbox, failures>>
  BY CurrentIsPolled DEF OutboxInv, Ids, ReadRetries, history
<1>2. /\ MovesAlone(w)
      /\ IF outbox[c].gone THEN phase'[w] \in {"poll", "publish"}
         ELSE phase'[w] = "fail" /\ Current(w)' = c /\ seen'[w] = outbox[c].retries
  BY <1>1, ReadRetriesMoves
<1>3. ASSUME NEW i \in Ids, i # c \/ outbox[c].gone
      PROVE  failures'[i] = MaxRetries \/ Counted(i)'
  BY <1>1, <1>2, <1>3, CountKept
<1>4. ASSUME ~ outbox[c].gone
      PROVE  failures'[c] = MaxRetries \/ Counted(c)'
  <2>1. /\ outbox[c].retries \in Nat /\ Counting(c) \in Nat /\ failures[c] \in 0..MaxRetries
        /\ \A u \in At(c, {"fail"}) : u \in Workers /\ seen[u] \in Nat
        /\ MaxRetries \in Nat /\ (failures[c] = MaxRetries \/ Counted(c))
    BY <1>1, CountFacts
  <2>2. /\ Counting(c)' = Counting(c)
        /\ \A u \in At(c, {"fail"})' : u # w => u \in At(c, {"fail"}) /\ seen'[u] = seen[u]
    <3> DEFINE was == phase[w] \in {"select", "fail"} /\ Current(w) = c
               is == phase'[w] \in {"select", "fail"} /\ Current(w)' = c
    <3>1. is /\ was
      BY <1>1, <1>2, <1>4
    <3>2. /\ Counting(c)' = Counting(c) + (IF is THEN 1 ELSE 0) - (IF was THEN 1 ELSE 0)
          /\ \A u \in At(c, {"fail"})' :
               IF u = w THEN phase'[w] = "fail" /\ Current(w)' = c
               ELSE u \in At(c, {"fail"}) /\ seen'[u] = seen[u]
      BY <1>2, CountingAfterMove
    <3> HIDE DEF was, is
    <3> QED
      BY <2>1, <3>1, <3>2
  <2>3. seen'[w] = outbox[c].retries /\ outbox' = outbox /\ failures' = failures
    BY <1>1, <1>2, <1>4
  <2> QED
    BY <2>1, <2>2, <2>3 DEF Counted
<1> QED
  BY <1>1, <1>3, <1>4 DEF CountInv

\* The failure is counted in the row, or the row is given up.
LEMMA CountMarkFailed ==
  ASSUME OutboxInv, NEW w \in Workers, MarkFailed(w), MovesAlone(w),
         phase'[w] \in {"poll", "publish"}
  PROVE  CountInv'
<1>0. PICK c \in Ids : c = Current(w)
  BY CurrentIsPolled DEF OutboxInv, MarkFailed
<1> USE <1>0
<1>1. /\ c \in Ids /\ outbox[c] \in OutboxRow /\ phase[w] = "fail" /\ failures' = failures
      /\ w \in At(c, {"fail"})
  BY CurrentIsPolled DEF OutboxInv, MarkFailed, At, history
<1>2. /\ Ids' = Ids /\ \A j \in Ids \ {c} : outbox'[j] = outbox[j]
      /\ outbox'[c] = IF GivesUp(w) THEN Deleted(outbox[c])
                      ELSE IF outbox[c].gone THEN outbox[c] ELSE Delayed(outbox[c], seen[w] + 1)
  BY MarkFailedRows DEF OutboxInv
<1>3. \A i \in Ids \ {c} : failures'[i] = MaxRetries \/ Counted(i)'
  BY <1>1, <1>2, CountKept
<1>4. /\ outbox[c].retries \in Nat /\ Counting(c) \in Nat /\ failures[c] \in 0..MaxRetries
      /\ \A u \in At(c, {"fail"}) : u \in Workers /\ seen[u] \in Nat
      /\ MaxRetries \in Nat /\ (failures[c] = MaxRetries \/ Counted(c))
  BY <1>1, CountFacts
<1>5. /\ Counting(c)' = Counting(c) - 1 /\ Counting(c) > 0
      /\ \A u \in At(c, {"fail"})' : u \in At(c, {"fail"}) /\ seen'[u] = seen[u]
  <2> DEFINE was == phase[w] \in {"select", "fail"} /\ Current(w) = c
             is == phase'[w] \in {"select", "fail"} /\ Current(w)' = c
  <2>1. ~ is /\ was
    BY <1>1
  <2>2. /\ Counting(c)' = Counting(c) + (IF is THEN 1 ELSE 0) - (IF was THEN 1 ELSE 0)
        /\ was => Counting(c) > 0
        /\ \A u \in At(c, {"fail"})' :
             IF u = w THEN phase'[w] = "fail" /\ Current(w)' = c
             ELSE u \in At(c, {"fail"}) /\ seen'[u] = seen[u]
    BY CountingAfterMove
  <2>3. \A u \in At(c, {"fail"})' : u # w
    BY <2>2
  <2> HIDE DEF was, is
  <2> QED
    BY <1>4, <2>1, <2>2, <2>3
<1>6. CASE GivesUp(w)
  <2>1. failures[c] = MaxRetries
    <3>1. seen[w] + 1 >= MaxRetries /\ seen[w] \in Nat
      BY <1>1, <1>4, <1>6 DEF GivesUp
    <3>2. Counted(c) => seen[w] + Counting(c) <= failures[c]
      BY <1>1 DEF Counted
    <3> QED
      BY <1>4, <1>5, <3>1, <3>2
  <2> QED
    BY <1>1, <1>2, <1>3, <2>1 DEF CountInv
<1>7. CASE ~ GivesUp(w) /\ outbox[c].gone
  <2>1. outbox'[c] = outbox[c]
    BY <1>2, <1>7
  <2>2. failures'[c] = MaxRetries \/ Counted(c)'
    BY <1>1, <2>1, CountKept
  <2> QED
    BY <1>2, <1>3, <2>2 DEF CountInv
<1>8. CASE ~ GivesUp(w) /\ ~ outbox[c].gone
  <2>1. seen[w] + 1 \in 0..(MaxRetries - 1)
    BY <1>1, <1>4, <1>8 DEF GivesUp
  <2>2. outbox'[c] = Delayed(outbox[c], seen[w] + 1)
    BY <1>2, <1>8
  <2>3. outbox'[c].gone = FALSE /\ outbox'[c].retries = seen[w] + 1
    BY <1>1, <1>8, <2>1, <2>2, DelayedRow DEF OutboxRow
  <2>4. failures'[c] = MaxRetries \/ Counted(c)'
    <3>1. Counted(c) => seen[w] + Counting(c) <= failures[c]
      BY <1>1 DEF Counted
    <3>2. seen[w] \in Nat /\ failures' = failures
      BY <1>1, <1>4
    <3> QED
      BY <1>4, <1>5, <2>3, <3>1, <3>2 DEF Counted
  <2> QED
    BY <1>2, <1>3, <2>4 DEF CountInv
<1> QED
  BY <1>6, <1>7, <1>8

LEMMA CountStep ==
  ASSUME OutboxInv, [OutboxNext]_outboxVars
  PROVE  CountInv'
<1>1. ASSUME NEW w \in Workers, MovesAlone(w), Poll(w) \/ Publish(w) \/ Abandon(w),
             phase'[w] \notin {"select", "fail"}
      PROVE  CountInv'
  <2>1. UNCHANGED <<outbox, failures>>
    BY <1>1 DEF Poll, Publish, Abandon, history
  <2>2. \A i \in Ids : failures'[i] = MaxRetries \/ Counted(i)'
    BY <1>1, <2>1, CountKept
  <2> QED
    BY <2>1, <2>2 DEF CountInv, Ids
<1>2. ASSUME NEW w \in Workers, MovesAlone(w), Mark(w), phase'[w] \in {"poll", "publish"}
      PROVE  CountInv'
  <2>1. Current(w) \in Ids /\ outbox[Current(w)] \in OutboxRow
    BY <1>2, CurrentIsPolled DEF Mark, OutboxInv
  <2>2. /\ Ids' = Ids /\ \A j \in Ids \ {Current(w)} : outbox'[j] = outbox[j]
        /\ outbox'[Current(w)] = IF outbox[Current(w)].gone THEN outbox[Current(w)]
                                 ELSE Published(outbox[Current(w)])
    BY <1>2, MarkRows DEF OutboxInv
  <2>3. /\ outbox'[Current(w)].gone = outbox[Current(w)].gone
        /\ outbox'[Current(w)].retries = outbox[Current(w)].retries
    BY <2>1, <2>2 DEF OutboxRow, Published
  <2>4. failures' = failures
    BY <1>2 DEF Mark, history
  <2>5. \A i \in Ids : failures'[i] = MaxRetries \/ Counted(i)'
    BY <1>2, <2>2, <2>3, <2>4, CountKept
  <2> QED
    BY <2>2, <2>5 DEF CountInv
<1>3. ASSUME NEW w \in Workers, Advances(w)
      PROVE  CountInv'
  <2>1. MovesAlone(w)
    BY <1>3 DEF Advances
  <2>2. CASE \/ Poll(w) /\ phase'[w] = "publish"
             \/ Publish(w) /\ phase'[w] = "mark"
             \/ Abandon(w) /\ phase'[w] = "poll"
    <3>1. phase'[w] \notin {"select", "fail"}
      BY <2>2
    <3> QED
      BY <1>1, <2>1, <2>2, <3>1
  <2>3. CASE Mark(w) /\ phase'[w] \in {"poll", "publish"}
    BY <1>2, <2>1, <2>3
  <2>4. CASE MarkFailed(w) /\ phase'[w] \in {"poll", "publish"}
    BY <2>1, <2>4, CountMarkFailed
  <2>5. CASE ReadRetries(w)
    BY <2>5, CountRead
  <2>6. CASE /\ Attempted(w) /\ phase[w] \in {"publish", "mark"}
             /\ UNCHANGED <<outbox, dlq, batch, seen>>
    BY <2>6, CountAttempt
  <2> QED
    BY <1>3, <2>2, <2>3, <2>4, <2>5, <2>6 DEF Advances
<1> QED
  BY <1>3, StepKinds, CountAlike

-----------------------------------------------------------------------------
(* No event is lost.                                                       *)

\* The event of the row can still be published, or be taken from the DLQ.
Holds(j) == dlq[j] # {} \/ ~ (outbox[j].gone \/ outbox[j].published)

EventKept(e) ==
  \/ e \in delivered
  \/ \E j \in Ids : outbox[j].event = e /\ Holds(j)

\* A row that is no further on.
SameRow(j) ==
  /\ outbox'[j].event = outbox[j].event
  /\ outbox'[j].gone = outbox[j].gone
  /\ outbox'[j].published = outbox[j].published
  /\ dlq'[j] = dlq[j]

LEMMA StillHolds ==
  ASSUME NEW e, NEW j \in Ids, outbox[j].event = e, Holds(j), Ids \subseteq Ids', SameRow(j)
  PROVE  EventKept(e)'
BY DEF Holds, EventKept, SameRow

LEMMA KeptAlike ==
  ASSUME OutboxInv, [OutboxNext]_outboxVars, Elsewhere,
         NEW e, NEW j \in Ids, outbox[j].event = e, Holds(j)
  PROVE  EventKept(e)'
<1>1. /\ Ids = 1..Len(outbox) /\ Len(outbox) \in Nat /\ outbox[j] \in OutboxRow
      /\ dlq \in [1..MaxInserts -> SUBSET Workers] /\ RowsKept
  BY MovedFacts, StepKeepsRows DEF OutboxInv
<1>2. ASSUME NEW k \in 1..MaxInserts, Write(k)
      PROVE  SameRow(j)
  BY <1>2, WriteRows DEF OutboxInv, Write, SameRow
<1>3. ASSUME NEW o \in Operators, Requeue(o)
      PROVE  EventKept(e)'
  <2>1. PICK i \in Ids, w \in Workers :
          /\ Ids' = 1..(Len(outbox) + 1) /\ outbox'[j] = outbox[j]
          /\ outbox'[Len(outbox) + 1] = NewEvent(outbox[i].event)
          /\ dlq' = [dlq EXCEPT ![i] = @ \ {w}]
    BY <1>3, RequeueRows DEF OutboxInv
  <2>2. CASE i = j
    <3>1. Len(outbox) + 1 \in Ids'
      BY <1>1, <2>1
    <3>2. PICK n : n = Len(outbox) + 1
      OBVIOUS
    <3>3. n \in Ids' /\ outbox'[n] = NewEvent(e)
      BY <2>1, <2>2, <3>1, <3>2
    <3>4. Holds(n)' /\ outbox'[n].event = e
      BY <3>3 DEF NewEvent, Holds
    <3> QED
      BY <3>3, <3>4 DEF EventKept
  <2>3. CASE i # j
    <3>1. dlq'[j] = dlq[j]
      BY <1>1, <2>1, <2>3
    <3> QED
      BY <1>1, <2>1, <3>1, StillHolds DEF SameRow, RowsKept
  <2> QED
    BY <2>2, <2>3
<1>4. ASSUME NEW i \in Ids, DelayElapses(i)
      PROVE  SameRow(j)
  <2>1. /\ \A l \in Ids \ {i} : outbox'[l] = outbox[l]
        /\ outbox'[i] = [outbox[i] EXCEPT !.waiting = FALSE]
    BY <1>4, DelayRows DEF OutboxInv
  <2>2. dlq' = dlq
    BY <1>4 DEF DelayElapses
  <2> QED
    BY <1>1, <2>1, <2>2 DEF SameRow, OutboxRow
<1>5. CASE UNCHANGED <<outbox, dlq, delivered, failures>>
  BY <1>1, <1>5, StillHolds DEF SameRow, RowsKept
<1> QED
  BY <1>1, <1>2, <1>3, <1>4, <1>5, StillHolds DEF Elsewhere, RowsKept

LEMMA KeptByMark ==
  ASSUME OutboxInv, NEW w \in Workers, Mark(w),
         NEW e, NEW j \in Ids, outbox[j].event = e, Holds(j)
  PROVE  EventKept(e)'
<1>1. /\ Ids' = Ids /\ \A l \in Ids \ {Current(w)} : outbox'[l] = outbox[l]
  BY MarkRows DEF OutboxInv
<1>2. UNCHANGED <<dlq, delivered>>
  BY DEF Mark, history
<1>3. CASE j # Current(w)
  BY <1>1, <1>2, <1>3, StillHolds DEF SameRow
<1>4. CASE j = Current(w)
  <2>1. e \in delivered
    BY <1>4 DEF Mark, OutboxInv, DeliveredInv
  <2> QED
    BY <1>2, <2>1 DEF EventKept
<1> QED
  BY <1>3, <1>4

LEMMA KeptByMarkFailed ==
  ASSUME OutboxInv, NEW w \in Workers, MarkFailed(w),
         NEW e, NEW j \in Ids, outbox[j].event = e, Holds(j)
  PROVE  EventKept(e)'
<1>0. PICK c \in Ids : c = Current(w)
  BY CurrentIsPolled DEF MarkFailed, OutboxInv
<1>1. /\ c \in 1..MaxInserts /\ outbox[c] \in OutboxRow /\ seen[w] \in Nat /\ MaxRetries \in Nat
      /\ dlq \in [1..MaxInserts -> SUBSET Workers]
      /\ w \in At(c, {"fail"})
  BY <1>0, MovedFacts, CountFacts DEF At, MarkFailed
<1>2. /\ Ids' = Ids /\ \A l \in Ids \ {c} : outbox'[l] = outbox[l]
      /\ outbox'[c] = IF GivesUp(w) THEN Deleted(outbox[c])
                      ELSE IF outbox[c].gone THEN outbox[c] ELSE Delayed(outbox[c], seen[w] + 1)
  BY <1>0, MarkFailedRows DEF OutboxInv
<1>3. IF GivesUp(w) THEN dlq' = [dlq EXCEPT ![c] = @ \cup {w}] ELSE dlq' = dlq
  BY <1>0 DEF MarkFailed
<1>4. CASE j # c
  <2>1. j \in 1..MaxInserts
    BY CountFacts
  <2>2. dlq'[j] = dlq[j] /\ outbox'[j] = outbox[j]
    BY <1>1, <1>2, <1>3, <1>4, <2>1
  <2> QED
    BY <1>2, <2>2, StillHolds DEF SameRow
<1>5. CASE j = c /\ GivesUp(w)
  <2>1. outbox'[c].event = e
    BY <1>1, <1>2, <1>5, DeletedRow
  <2>2. dlq'[c] # {}
    BY <1>1, <1>3, <1>5, MovedFacts
  <2> QED
    BY <1>2, <2>1, <2>2 DEF EventKept, Holds
<1>6. CASE j = c /\ ~ GivesUp(w)
  <2>1. /\ outbox'[c].event = outbox[c].event /\ outbox'[c].gone = outbox[c].gone
        /\ outbox'[c].published = outbox[c].published
    <3>1. CASE outbox[c].gone
      BY <1>2, <1>6, <3>1
    <3>2. CASE ~ outbox[c].gone
      <4> DEFINE n == seen[w] + 1
      <4>1. n \in 0..(MaxRetries - 1)
        BY <1>1, <1>6 DEF GivesUp
      <4>2. outbox'[c] = Delayed(outbox[c], n)
        BY <1>2, <1>6, <3>2
      <4> HIDE DEF n
      <4> QED
        BY <1>1, <4>1, <4>2, DelayedRow
    <3> QED
      BY <3>1, <3>2
  <2> QED
    BY <1>2, <1>3, <1>6, <2>1, StillHolds DEF SameRow
<1> QED
  BY <1>4, <1>5, <1>6

LEMMA KeptStep ==
  ASSUME OutboxInv, [OutboxNext]_outboxVars, NEW e, EventKept(e)
  PROVE  EventKept(e)'
<1>1. RowsKept /\ delivered \subseteq delivered'
  BY StepKeepsRows, HistoryStep DEF OutboxInv
<1>2. CASE e \in delivered
  BY <1>1, <1>2 DEF EventKept
<1>3. ASSUME NEW j \in Ids, outbox[j].event = e, Holds(j)
      PROVE  EventKept(e)'
  <2>1. ASSUME UNCHANGED <<outbox, dlq>>
        PROVE  EventKept(e)'
    BY <1>1, <1>3, <2>1, StillHolds DEF SameRow, RowsKept
  <2>2. ASSUME NEW w \in Workers, Advances(w)
        PROVE  EventKept(e)'
    <3>1. CASE Mark(w)
      BY <1>3, <3>1, KeptByMark
    <3>2. CASE MarkFailed(w)
      BY <1>3, <3>2, KeptByMarkFailed
    <3>3. CASE Poll(w) \/ Publish(w) \/ Abandon(w) \/ ReadRetries(w)
      BY <2>1, <3>3 DEF Poll, Publish, Abandon, ReadRetries
    <3>4. CASE Attempted(w) /\ UNCHANGED <<outbox, dlq, batch, seen>>
      BY <2>1, <3>4
    <3> QED
      BY <2>2, <3>1, <3>2, <3>3, <3>4 DEF Advances
  <2> QED
    BY <1>3, <2>2, StepKinds, KeptAlike
<1> QED
  BY <1>2, <1>3 DEF EventKept

LEMMA NewRowsHold ==
  ASSUME OutboxInv, [OutboxNext]_outboxVars, NEW i \in Ids' \ Ids
  PROVE  Holds(i)'
<1>1. Ids = 1..Len(outbox) /\ Len(outbox) \in Nat
  BY MovedFacts
<1>2. ASSUME NEW k \in 1..MaxInserts, Write(k)
      PROVE  Holds(i)'
  <2>1. /\ Ids' = 1..(Len(outbox) + k)
        /\ \A j \in 1..k : outbox'[Len(outbox) + j] = NewEvent(Len(outbox) + j)
    BY <1>2, WriteRows DEF OutboxInv
  <2>2. i - Len(outbox) \in 1..k /\ i = Len(outbox) + (i - Len(outbox))
    BY <1>1, <2>1
  <2>3. outbox'[i] = NewEvent(i)
    BY <2>1, <2>2
  <2> QED
    BY <2>3 DEF NewEvent, Holds
<1>3. ASSUME NEW o \in Operators, Requeue(o)
      PROVE  Holds(i)'
  <2>1. PICK j \in Ids : /\ Ids' = 1..(Len(outbox) + 1)
                         /\ outbox'[Len(outbox) + 1] = NewEvent(outbox[j].event)
    BY <1>3, RequeueRows DEF OutboxInv
  <2>2. i = Len(outbox) + 1
    BY <1>1, <2>1
  <2>3. outbox'[i] = NewEvent(outbox[j].event)
    BY <2>1, <2>2
  <2> QED
    BY <2>3 DEF NewEvent, Holds
<1>4. ASSUME NEW j \in Ids, DelayElapses(j)
      PROVE  Ids' = Ids
  BY <1>4, DelayRows DEF OutboxInv
<1>5. ASSUME NEW w \in Workers, Advances(w)
      PROVE  Ids' = Ids
  BY <1>5, MarkRows, MarkFailedRows
     DEF Advances, OutboxInv, Poll, Publish, Abandon, ReadRetries, Ids
<1>6. CASE UNCHANGED <<outbox, dlq, delivered, failures>>
  BY <1>6 DEF Ids
<1> QED
  BY <1>2, <1>3, <1>4, <1>5, <1>6, StepKinds DEF Elsewhere

LEMMA NoneIsLost ==
  ASSUME OutboxInv, NoEventLost, [OutboxNext]_outboxVars
  PROVE  NoEventLost'
<1>1. ASSUME NEW i \in Ids, NEW e, outbox[i].event = e
      PROVE  outbox'[i].event = e /\ EventKept(e)'
  <2>1. EventKept(e)
    BY <1>1 DEF NoEventLost, EventKept, Holds
  <2>2. EventKept(e)'
    BY <2>1, KeptStep
  <2> QED
    BY <1>1, <2>2, StepKeepsRows DEF OutboxInv, RowsKept
<1>2. ASSUME NEW i \in Ids', NEW e, outbox'[i].event = e
      PROVE  EventKept(e)'
  <2>1. CASE i \in Ids
    BY <1>1, <1>2, <2>1
  <2>2. CASE i \notin Ids
    BY <1>2, <2>2, NewRowsHold DEF EventKept
  <2> QED
    BY <2>1, <2>2
<1> QED
  BY <1>2 DEF NoEventLost, EventKept, Holds

-----------------------------------------------------------------------------
(* Theorems.                                                               *)

LEMMA OutboxInitially == OutboxInit => OutboxInv
<1> SUFFICES ASSUME OutboxInit
             PROVE  OutboxInv
  OBVIOUS
<1>1. outbox \in Seq(OutboxRow) /\ Ids = {} /\ Len(outbox) = 0
  BY EmptySeq DEF OutboxInit, Ids
<1>2. MaxRetries \in Nat \ {0} /\ MaxInserts \in Nat /\ MaxErrors \in Nat
      /\ 0 \in 0..(MaxRetries - 1)
  BY OutboxAssumption
<1>3. WorkerTypes
  BY <1>1, <1>2 DEF OutboxInit, WorkerTypes
<1>4. HistoryTypes
  BY <1>2 DEF OutboxInit, HistoryTypes
<1>5. DeadTypes
  BY DEF OutboxInit, DeadTypes
<1>6. OutboxTypeOK
  BY <1>1, <1>3, <1>4, <1>5, TypesOfOutbox
<1>7. DeliveredInv
  BY DEF OutboxInit, DeliveredInv
<1>8. MovedInv
  BY DEF OutboxInit, MovedInv
<1>9. CountInv /\ SharedInv
  BY <1>1 DEF CountInv, SharedInv
<1> QED
  BY <1>1, <1>2, <1>6, <1>7, <1>8, <1>9 DEF OutboxInv, RoomInv

\* An event about to be marked was delivered, no worker moves a row to the DLQ
\* twice, a row that only one worker ever held at a time is in no batch once it is
\* published, and a retry count is never ahead of the failures
\* (outbox.py:150-206).
THEOREM OutboxInvariant == OutboxSpec => []OutboxInv
<1>1. OutboxInv /\ [OutboxNext]_outboxVars => OutboxInv'
  BY TypeStep, DeliveredStep, MovedStep, SharedStep, CountStep DEF OutboxInv
<1> QED
  BY <1>1, OutboxInitially, PTL DEF OutboxSpec

\* Every variable of Outbox keeps its type: a row in the table has retries left
\* (outbox.py:163-182).
THEOREM OutboxTypes == OutboxSpec => []OutboxTypeOK
<1>1. OutboxInv => OutboxTypeOK
  BY DEF OutboxInv
<1> QED
  BY <1>1, OutboxInvariant, PTL

\* A row is given up only after max_retries failed attempts at it, also when
\* several workers count them at once (outbox.py:163-182).
THEOREM RowsGivenUp == OutboxSpec => []GivenUpAfterRetries
<1>1. OutboxInv => GivenUpAfterRetries
  BY DEF OutboxInv, CountInv, Counted, GivenUpAfterRetries
<1> QED
  BY <1>1, OutboxInvariant, PTL

\* Only a worker that holds a row moves it.
LEMMA WhoMoves ==
  ASSUME OutboxInv, [OutboxNext]_outboxVars, NEW i \in Ids, ~ (dlq'[i] \subseteq dlq[i])
  PROVE  Holders(i) # {}
<1>1. i \in 1..MaxInserts /\ dlq \in [1..MaxInserts -> SUBSET Workers]
  BY MovedFacts
<1>2. ASSUME NEW o \in Operators, Requeue(o) PROVE dlq'[i] \subseteq dlq[i]
  <2>1. PICK j \in Ids, w \in Workers : dlq' = [dlq EXCEPT ![j] = @ \ {w}]
    BY <1>2, RequeueRows DEF OutboxInv
  <2> QED
    BY <1>1, <2>1
<1>3. ~ Elsewhere
  BY <1>2 DEF Elsewhere, Write, DelayElapses
<1>4. PICK w \in Workers : Advances(w)
  BY <1>3, StepKinds
<1>5. MarkFailed(w)
  BY <1>4 DEF Advances, Poll, Publish, Mark, Abandon, ReadRetries
<1>6. i = Current(w)
  BY <1>1, <1>5 DEF MarkFailed
<1>7. i \in batch[w]
  BY <1>5, <1>6, CurrentIsPolled DEF MarkFailed, OutboxInv
<1> QED
  BY <1>7 DEF Holders

\* A worker moves a row to the DLQ that was marked published only if two workers
\* held the row at once (outbox.py:125-148, 158-190).
THEOREM DeadRowsWereShared == OutboxSpec => DeadUnlessShared
<1>1. OutboxInv /\ [OutboxNext]_outboxVars
        => [\A i \in Ids :
              outbox[i].published /\ ~(dlq'[i] \subseteq dlq[i]) => i \in shared]_outboxVars
  BY WhoMoves DEF OutboxInv, SharedInv, HeldByOne
<1> QED
  BY <1>1, OutboxInvariant, PTL DEF OutboxSpec, DeadUnlessShared

\* Every event ever inserted is delivered, or in a row still to be published, or
\* in the DLQ, with any number of workers, killed anywhere (outbox.py:150-206,
\* 246-259).
THEOREM EventsAreKept == OutboxSpec => []NoEventLost
<1>1. OutboxInit => NoEventLost
  BY DEF OutboxInit, NoEventLost, Ids
<1>2. OutboxInv /\ NoEventLost /\ [OutboxNext]_outboxVars => NoEventLost'
  BY NoneIsLost
<1> QED
  BY <1>1, <1>2, OutboxInvariant, PTL DEF OutboxSpec
=============================================================================
