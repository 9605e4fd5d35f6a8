------------------------------- MODULE MCSaga -------------------------------
(* Instances of Saga: retries of the first step, which runs in a thread,   *)
(* and no retries.                                                         *)
EXTENDS Saga

MCStepName == [s \in 1..N |-> s]
MCNoRetries == [s \in 1..N |-> 0]
MCRetries == [s \in 1..N |-> IF s = 1 THEN 1 ELSE 0]
=============================================================================
