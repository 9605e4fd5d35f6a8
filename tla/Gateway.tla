------------------------------ MODULE Gateway -------------------------------
(***************************************************************************)
(* LLMGateway.chat with its circuit breakers: concurrent calls on one      *)
(* event loop, each asking its model's provider twice and then every other *)
(* registered provider twice, in the order of registration.                *)
(*                                                                         *)
(* Abstractions: messages and models are left out but for the provider     *)
(* they resolve to; the semantic cache and the smart router are off; cost  *)
(* accounting has no influence on the choice of a provider.  Providers of  *)
(* one class share the name their breaker is looked up by, so they share   *)
(* that breaker, and the breaker of a name no class has is never used.     *)
(***************************************************************************)
EXTENDS CircuitBreaker, FiniteSets

CONSTANTS
  NP,           \* number of registered providers, 1..NP in that order
  Registered,   \* names providers are registered under: keys of _breakers
  NameOf,       \* name attribute of each provider's class: the key looked up
  Calls,        \* concurrent calls of chat
  Primary       \* the provider each call's model resolves to

Providers == 1..NP
Attempts == 2   \* stop_after_attempt(2)

ASSUME GatewayAssumption ==
  /\ NP \in Nat \ {0}
  /\ Primary \in [Calls -> 1..NP]

VARIABLES
  breaker,    \* _breakers: one per registered name
  pc,         \* idle, ready (before an attempt), flight (awaiting the provider),
              \* response (awaiting the handlers of llm.response)
  prov,       \* provider being asked
  attempt,    \* attempt of it
  result,     \* how the call's last chat ended
  inRow,      \* history: failures in a row of the providers of a name, client
              \* errors aside, up to Threshold
  asked       \* history: providers this chat asked, or was refused by, kept if it gave up

where == <<pc, prov, attempt, result>>
vars == <<breaker, where, inRow, asked>>

Init ==
  /\ breaker = [n \in Registered |-> NewBreaker]
  /\ pc = [c \in Calls |-> "idle"]
  /\ prov = Primary
  /\ attempt = [c \in Calls |-> 1]
  /\ result = [c \in Calls |-> "none"]
  /\ inRow = [n \in Registered |-> 0]
  /\ asked = [c \in Calls |-> {}]

-----------------------------------------------------------------------------
Chat(c) ==
  /\ pc[c] = "idle"
  /\ pc' = [pc EXCEPT ![c] = "ready"]
  /\ prov' = [prov EXCEPT ![c] = Primary[c]]
  /\ attempt' = [attempt EXCEPT ![c] = 1]
  /\ result' = [result EXCEPT ![c] = "none"]
  /\ asked' = [asked EXCEPT ![c] = {}]
  /\ UNCHANGED <<breaker, inRow>>

\* The chat is over, its loop variables are gone.
End(c, r) ==
  /\ pc' = [pc EXCEPT ![c] = "idle"]
  /\ result' = [result EXCEPT ![c] = r]
  /\ prov' = [prov EXCEPT ![c] = Primary[c]]
  /\ attempt' = [attempt EXCEPT ![c] = 1]

\* It ends otherwise than by giving up.
Leave(c, r) ==
  /\ End(c, r)
  /\ asked' = [asked EXCEPT ![c] = {}]

\* Mutant: the fallbacks are the providers registered after the primary.
RestAfter(c) == {p \in Providers : p > prov[c]}

\* Mutant: every provider but the one that failed, over and over.
RestForever(c) == Providers \ {prov[c]}

\* The fallbacks after provider p: the providers in order, but the primary.
Rest(c) == IF prov[c] = Primary[c] THEN Providers \ {Primary[c]}
           ELSE {p \in Providers : p > prov[c] /\ p # Primary[c]}

NextProvider(c) ==
  \/ /\ Rest(c) = {}
     /\ End(c, "all_failed")
  \/ \E p \in Rest(c) :
       /\ \A q \in Rest(c) : p <= q
       /\ pc' = [pc EXCEPT ![c] = "ready"]
       /\ prov' = [prov EXCEPT ![c] = p]
       /\ attempt' = [attempt EXCEPT ![c] = 1]
       /\ UNCHANGED result

MayRetry(c) == attempt[c] < Attempts

\* A ProviderError of _retry: the second attempt, or the next provider.
AfterProviderError(c) ==
  \/ /\ MayRetry(c)
     /\ pc' = [pc EXCEPT ![c] = "ready"]
     /\ attempt' = [attempt EXCEPT ![c] = @ + 1]
     /\ UNCHANGED <<prov, result>>
  \/ ~MayRetry(c) /\ NextProvider(c)

\* The breaker found under the provider's own name; without one every request
\* is let through and nothing is recorded.
Name(c) == NameOf[prov[c]]
Guard(c) == IF Name(c) \in Registered THEN Read(breaker[Name(c)]) ELSE NewBreaker

\* The breaker lets the attempt through.
Send(c) ==
  LET b == Guard(c) IN
  /\ pc[c] = "ready"
  /\ Allows(b)
  /\ breaker' = [n \in Registered |-> IF n = Name(c) THEN b ELSE breaker[n]]
  /\ pc' = [pc EXCEPT ![c] = "flight"]
  /\ asked' = [asked EXCEPT ![c] = @ \cup {prov[c]}]
  /\ UNCHANGED <<prov, attempt, result, inRow>>

\* Mutant: the refusal is raised inside the try and counts as a failure.
RefuseRecorded(c) ==
  /\ pc[c] = "ready"
  /\ ~Allows(Guard(c))
  /\ AfterProviderError(c)
  /\ asked' = [asked EXCEPT ![c] = @ \cup {prov[c]}]
  /\ breaker' = [breaker EXCEPT ![Name(c)] = RecordFailure(@, FALSE)]
  /\ inRow' = [inRow EXCEPT ![Name(c)] = Threshold]

\* The breaker is open: a ProviderError raised before the try, so that the
\* refusal itself is not recorded as a failure.
Refuse(c) ==
  /\ pc[c] = "ready"
  /\ ~Allows(Guard(c))
  /\ AfterProviderError(c)
  /\ asked' = [asked EXCEPT ![c] = @ \cup {prov[c]}]
  /\ UNCHANGED <<breaker, inRow>>

Answer(c) ==
  /\ pc[c] = "flight"
  /\ breaker' = [n \in Registered |-> IF n = Name(c) THEN RecordSuccess(breaker[n]) ELSE breaker[n]]
  /\ inRow' = [n \in Registered |-> IF n = Name(c) THEN 0 ELSE inRow[n]]
  /\ pc' = [pc EXCEPT ![c] = "response"]
  /\ UNCHANGED <<prov, attempt, result, asked>>

\* The handlers of llm.response are through: the response is returned.
Return(c) ==
  /\ pc[c] = "response"
  /\ Leave(c, "ok")
  /\ UNCHANGED <<breaker, inRow>>

\* A ProviderError; clientError when its status is below 429.
Fail(c, clientError) ==
  /\ pc[c] = "flight"
  /\ breaker' = [n \in Registered |-> IF n = Name(c) THEN RecordFailure(breaker[n], clientError)
                                    ELSE breaker[n]]
  /\ inRow' = [n \in Registered |-> IF n = Name(c) /\ ~clientError /\ inRow[n] < Threshold
                                    THEN inRow[n] + 1 ELSE inRow[n]]
  /\ AfterProviderError(c)
  /\ UNCHANGED asked

\* Any other exception is not recorded and not retried: the primary's leaves
\* chat, a fallback's is swallowed.
Break(c) ==
  /\ pc[c] = "flight"
  /\ IF prov[c] = Primary[c] THEN Leave(c, "raised") ELSE NextProvider(c) /\ UNCHANGED asked
  /\ UNCHANGED <<breaker, inRow>>

\* Where chat awaits: the handlers of llm.request before the first attempt, the
\* provider, the pause before a second attempt, the handlers of llm.response.
Awaiting(c) ==
  \/ pc[c] \in {"flight", "response"}
  \/ pc[c] = "ready" /\ (prov[c] = Primary[c] \/ attempt[c] = Attempts)

\* The awaiting task is cancelled: CancelledError passes every handler.
Cancel(c) ==
  /\ Awaiting(c)
  /\ Leave(c, "raised")
  /\ UNCHANGED <<breaker, inRow>>

Tick ==
  /\ \E n \in Registered : breaker[n].since < Recovery
  /\ breaker' = [n \in Registered |-> Older(breaker[n])]
  /\ UNCHANGED <<where, inRow, asked>>

Step(c) ==
  \/ Send(c)
  \/ Refuse(c)
  \/ Answer(c)
  \/ \E clientError \in BOOLEAN : Fail(c, clientError)
  \/ Break(c)
  \/ Return(c)

Next ==
  \/ \E c \in Calls : Chat(c) \/ Step(c) \/ Cancel(c)
  \/ Tick

Spec == Init /\ [][Next]_vars

\* Time passes, the event loop runs every task, providers answer or fail.
FairSpec == Spec /\ WF_vars(Tick) /\ \A c \in Calls : WF_vars(Step(c))

-----------------------------------------------------------------------------
\* A breaker trips for Threshold failures in a row of the providers that look it
\* up, whatever order concurrent calls end in, client errors and refusals aside
\* (gateway.py:416-430, circuit_breaker.py:4, 52-73).
OpensForFailuresInARow ==
  [][\A n \in Registered :
       breaker[n].state # "open" /\ breaker'[n].state = "open" => inRow'[n] = Threshold]_vars

\* AllProvidersFailedError is raised only after every registered provider was
\* asked or refused (gateway.py:352-372).
AllFailedMeansAllAsked ==
  \A c \in Calls : result[c] = "all_failed" => asked[c] = Providers

\* An open breaker becomes half open in the end: refused requests do not count
\* as failures, and only calls already in flight can renew the timeout.
OpenIsNotForever ==
  \A n \in Registered : (breaker[n].state = "open") ~> (Read(breaker[n]).state # "open")

\* Every chat ends.
ChatsEnd == \A c \in Calls : (pc[c] # "idle") ~> (pc[c] = "idle")
=============================================================================
