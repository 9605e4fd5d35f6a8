------------------------------ MODULE EventLog ------------------------------
(***************************************************************************)
(* What an event store promises of one stream: an append-only log.  The    *)
(* entry at place v is the set of writers of version v, always one.        *)
(***************************************************************************)
EXTENDS Naturals, Sequences

CONSTANTS
  Writers,
  MaxBatch    \* events of one append

VARIABLE log

Init == log = <<>>

AppendEvents(w, k) == log' = log \o [j \in 1..k |-> {w}]

Next == \E w \in Writers, k \in 1..MaxBatch : AppendEvents(w, k)

Spec == Init /\ [][Next]_log
=============================================================================
