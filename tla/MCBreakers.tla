----------------------------- MODULE MCBreakers -----------------------------
(***************************************************************************)
(* The package's two circuit breakers, LLMGateway's and that of resilience *)
(* .py, which share no state: each behaviour is one of the one or of the   *)
(* other, chosen in its initial state, with that one's fairness.           *)
(*                                                                         *)
(* The gateway has two providers of OpenAIProvider, "openai" and "local",  *)
(* which both look up the breaker of "openai", and one of OllamaProvider.  *)
(* The breaker registered as "local" is looked up by nobody and left out.  *)
(***************************************************************************)
EXTENDS Gateway, Resilience

MCNames == [p \in 1..NP |-> IF p = 3 THEN "ollama" ELSE "openai"]
MCPrimary == [c \in Calls |-> IF c = "c1" THEN 1 ELSE 2]

VARIABLE subject   \* the breaker this behaviour is of

mcVars == <<vars, circuitVars, subject>>

MCInit == Init /\ CircuitInit /\ subject \in {"gateway", "resilience"}

OfGateway == subject = "gateway" /\ UNCHANGED <<circuitVars, subject>>
OfResilience == subject = "resilience" /\ UNCHANGED <<vars, subject>>

MCNext ==
  \/ OfGateway /\ Next
  \/ OfResilience /\ CircuitNext

FairBreakers ==
  /\ MCInit /\ [][MCNext]_mcVars
  /\ WF_vars(OfGateway /\ Tick)
  /\ \A c \in Calls : WF_vars(OfGateway /\ Step(c))
  /\ WF_circuitVars(OfResilience /\ TimePasses)
  /\ \A c \in Callers : WF_circuitVars(OfResilience /\ Caller(c))
=============================================================================
