------------------------------ MODULE MCAgent -------------------------------
(* Instances of Agent: a batch of one tool call, and one of two.           *)
EXTENDS Agent

MCBatches == {<<"a">>, <<"a", "b">>}
=============================================================================
