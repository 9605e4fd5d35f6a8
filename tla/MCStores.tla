------------------------------ MODULE MCStores ------------------------------
(***************************************************************************)
(* The two append-only tables, the event store and the audit trail, which  *)
(* share no state: each behaviour is one of the one or of the other,       *)
(* chosen in its initial state.                                            *)
(*                                                                         *)
(* Two processes write events, the first with two threads; two processes   *)
(* write audit rows.                                                       *)
(***************************************************************************)
EXTENDS EventStore, Audit, TLC

CONSTANTS t1, t2, t3

MCThreads == {t1, t2, t3}

MCHome == [t \in MCThreads |-> IF t = t3 THEN "p2" ELSE "p1"]

\* The threads of one process are alike.
MCSymmetry == Permutations({t1, t2})

VARIABLE subject   \* the table this behaviour is of

MCInit ==
  /\ StoreInit /\ AuditInit
  /\ subject \in {"events", "audit"}
  /\ subject = "events" => keyFile = "absent"   \* one state of a trail that does not run

OfEvents == subject = "events" /\ UNCHANGED <<auditVars, subject>>
OfAudit == subject = "audit" /\ UNCHANGED <<storeVars, subject>>

MCNext ==
  \/ OfEvents /\ StoreNext
  \/ OfAudit /\ AuditNext

MCSpec == MCInit /\ [][MCNext]_<<storeVars, auditVars, subject>>
=============================================================================
