------------------------------- MODULE Agent --------------------------------
(***************************************************************************)
(* AgentEngine.execute: concurrent runs of one agent that share its memory *)
(* (a sliding window) and the kill switch.  Each run has its own LoopGuard *)
(* and its own transcript.                                                 *)
(*                                                                         *)
(* A message is its role and a number: of a task its run, of an assistant  *)
(* message its tool calls, of a tool message the call it answers.  A batch *)
(* of tool calls is what check_loop fingerprints.  The agent has           *)
(* instructions, guardrails and context compression; cost_budget is not 0. *)
(* What a tool returns (ToolExecutor, which never raises) is left out.     *)
(***************************************************************************)
EXTENDS Naturals, Sequences, FiniteSets

CONSTANTS
  NR,              \* runs of the agent
  MaxTurns,        \* max_turns
  Budget,          \* cost_budget
  MaxCost,         \* cost of the dearest LLM call
  MaxRepeats,      \* max_repeats
  Batches,         \* batches of tool calls the model asks for
  CompressAbove,   \* messages above which the context is compressed
  Window           \* max_messages of the memory

Runs == 1..NR

ASSUME AgentAssumption ==
  /\ NR \in Nat /\ MaxTurns \in Nat \ {0}
  /\ Budget \in Nat \ {0} /\ MaxCost \in Nat
  /\ MaxRepeats \in Nat \ {0, 1}
  /\ \A b \in Batches : b \in Seq(STRING) /\ b # <<>>
  /\ CompressAbove \in Nat /\ CompressAbove >= 4
  /\ Window \in Nat \ {0}

VARIABLES
  pc,          \* idle, turn, guard (check_input), flight (the LLM call),
               \* answered (check_output), tools, final (the forced call),
               \* leaving (the handlers of agent.error and agent.done), done
  msgs,        \* transcript of each run
  start,       \* memory_turn_start: where the run's own messages begin
  turn,        \* turns begun
  cost,        \* _cost of the guard
  repeats,     \* last batch fingerprinted, how often in a row
  todo,        \* tool calls of the turn still to be answered
  memory,      \* messages of ConversationMemory
  killed,      \* the kill switch
  outcome,     \* how the run ended
  spent,       \* history: what the run's LLM calls have cost
  sinceKill,   \* history: LLM calls begun since the switch was activated
  cut,         \* history: runs whose transcript was compressed, or built on such
               \* a memory
  memoryCut    \* history: the memory has evicted, or saved from a cut transcript

guard == <<turn, cost, repeats>>
vars == <<pc, msgs, start, guard, todo, memory, killed, outcome,
          spent, sinceKill, cut, memoryCut>>

Msg(role, n) == [role |-> role, n |-> n]
NoBatch == [batch |-> <<>>, times |-> 0]

Init ==
  /\ pc = [r \in Runs |-> "idle"]
  /\ msgs = [r \in Runs |-> <<>>]
  /\ start = [r \in Runs |-> 0]
  /\ turn = [r \in Runs |-> 0]
  /\ cost = [r \in Runs |-> 0]
  /\ repeats = [r \in Runs |-> NoBatch]
  /\ todo = [r \in Runs |-> 0]
  /\ memory = <<>>
  /\ killed = FALSE
  /\ outcome = [r \in Runs |-> "none"]
  /\ spent = [r \in Runs |-> 0]
  /\ sinceKill = [r \in Runs |-> 0]
  /\ cut = {}
  /\ memoryCut = FALSE

-----------------------------------------------------------------------------
(* Beginning and end of a run.                                             *)

\* _build_msgs: the instructions, the memory, the task.
Execute(r) ==
  /\ pc[r] = "idle"
  /\ pc' = [pc EXCEPT ![r] = "turn"]
  /\ msgs' = [msgs EXCEPT ![r] = <<Msg("system", 0)>> \o memory \o <<Msg("task", r)>>]
  /\ start' = [start EXCEPT ![r] = Len(memory) + 2]
  /\ cut' = IF memoryCut THEN cut \cup {r} ELSE cut
  /\ UNCHANGED <<guard, todo, memory, killed, outcome, spent, sinceKill, memoryCut>>

Say(r, m) == msgs' = [msgs EXCEPT ![r] = Append(@, m)]

\* A run is over but for the handlers of agent.error and agent.done, which its
\* finally awaits.
Over(r, how) ==
  /\ pc' = [pc EXCEPT ![r] = "leaving"]
  /\ outcome' = [outcome EXCEPT ![r] = how]
  /\ msgs' = [msgs EXCEPT ![r] = <<>>]
  /\ start' = [start EXCEPT ![r] = 0]
  /\ todo' = [todo EXCEPT ![r] = 0]
  /\ repeats' = [repeats EXCEPT ![r] = NoBatch]

Raised(r) == Over(r, "raised") /\ UNCHANGED <<memory, memoryCut>>
Returned(r) == Over(r, "returned")

\* The sliding window keeps the last messages, wherever that cuts.
Slide(m) == IF Len(m) <= Window THEN m ELSE SubSeq(m, Len(m) - Window + 1, Len(m))

\* The messages of m that are no instructions, in their order.
NotSystem(m) ==
  LET kept == {i \in DOMAIN m : m[i].role # "system"}
      Place(k) == CHOOSE i \in kept : Cardinality({j \in kept : j <= i}) = k
  IN  [k \in 1..Cardinality(kept) |-> m[Place(k)]]

\* Mutant: the messages the memory gave are saved with those of the run.
SaveMemoryTwice(r) ==
  LET own == NotSystem(msgs[r])
      all == memory \o own \o <<Msg("answer", 0)>>
  IN  /\ memory' = Slide(all)
      /\ memoryCut' = (memoryCut \/ r \in cut \/ Len(all) > Window)

\* The run's own messages and the answer are added to the memory.
SaveMemory(r) ==
  LET own == NotSystem(SubSeq(msgs[r], start[r], Len(msgs[r])))
      all == memory \o own \o <<Msg("answer", 0)>>
  IN  /\ memory' = Slide(all)
      /\ memoryCut' = (memoryCut \/ r \in cut \/ Len(all) > Window)

-----------------------------------------------------------------------------
(* One turn.                                                               *)

\* _compress_context keeps the first message and the last two.
Compressed(m) == <<m[1], Msg("system", 1)>> \o SubSeq(m, Len(m) - 1, Len(m))

\* Mutant: the switch is looked at once, before the first turn.
HaltsOnce(r) == (killed /\ turn[r] = 0) \/ cost[r] > Budget

Halts(r) == killed \/ cost[r] > Budget

\* The checks at the top of a turn: the kill switch, check_turn, whose timeout
\* may have come, check_cost_pre_call.  The transcript is compressed if it is
\* long, in messages and in text.
BeginTurn(r) ==
  /\ pc[r] = "turn" /\ turn[r] < MaxTurns
  /\ turn' = [turn EXCEPT ![r] = @ + 1]
  /\ \/ Raised(r) /\ UNCHANGED cut
     \/ /\ ~Halts(r)
        /\ pc' = [pc EXCEPT ![r] = "guard"]
        /\ \/ UNCHANGED <<msgs, cut>>
           \/ /\ Len(msgs[r]) > CompressAbove
              /\ msgs' = [msgs EXCEPT ![r] = Compressed(@)]
              /\ cut' = cut \cup {r}
        /\ UNCHANGED <<start, repeats, todo, memory, outcome, memoryCut>>
  /\ UNCHANGED <<cost, killed, spent, sinceKill>>

\* The input guardrails pass and the LLM is called.
CallLLM(r) ==
  /\ pc[r] = "guard"
  /\ pc' = [pc EXCEPT ![r] = "flight"]
  /\ sinceKill' = [sinceKill EXCEPT ![r] = IF killed THEN @ + 1 ELSE @]
  /\ UNCHANGED <<msgs, start, guard, todo, memory, killed, outcome, spent, cut, memoryCut>>

\* Mutant: each turn's cost is held against the budget alone.
OverBudgetAlone(r, c) == c > Budget /\ r \in Runs

\* check_cost.
OverBudget(r, c) == cost[r] + c > Budget

Response(r, c) ==
  /\ pc[r] = "flight"
  /\ cost' = [cost EXCEPT ![r] = @ + c]
  /\ spent' = [spent EXCEPT ![r] = @ + c]
  /\ IF OverBudget(r, c)
     THEN Raised(r)
     ELSE /\ pc' = [pc EXCEPT ![r] = "answered"]
          /\ UNCHANGED <<msgs, start, repeats, todo, memory, outcome, memoryCut>>
  /\ UNCHANGED <<turn, killed, sinceKill, cut>>

\* Mutant: the LLM is asked again within the turn.
DiscardAsksAgain(r) ==
  /\ pc[r] = "answered"
  /\ pc' = [pc EXCEPT ![r] = "guard"]
  /\ UNCHANGED <<msgs, start, guard, todo, memory, killed, outcome, spent, sinceKill, cut, memoryCut>>

\* Steering discards the answer: its feedback, and the next turn.
Discard(r) ==
  /\ pc[r] = "answered"
  /\ pc' = [pc EXCEPT ![r] = "turn"]
  /\ Say(r, Msg("user", 0))
  /\ UNCHANGED <<start, guard, todo, memory, killed, outcome, spent, sinceKill, cut, memoryCut>>

\* Steering ends the run with a result of its own; the memory is not saved.
Interrupt(r) ==
  /\ pc[r] = "answered"
  /\ Returned(r)
  /\ UNCHANGED <<turn, cost, memory, killed, spent, sinceKill, cut, memoryCut>>

\* A text, or the arguments of structured_output.
FinalAnswer(r) ==
  /\ pc[r] = "answered"
  /\ SaveMemory(r)
  /\ Returned(r)
  /\ UNCHANGED <<turn, cost, killed, spent, sinceKill, cut>>

\* _force_final, up to its LLM call.
ForceFinal(r) ==
  IF killed
  THEN Raised(r)
  ELSE /\ pc' = [pc EXCEPT ![r] = "final"]
       /\ Say(r, Msg("user", 0))
       /\ UNCHANGED <<start, repeats, todo, memory, outcome, memoryCut>>

Times(r, b) == IF repeats[r].batch = b THEN repeats[r].times + 1 ELSE 1

\* Mutant: one repetition too many.
LoopFoundLate(r, b) == Times(r, b) > MaxRepeats

\* check_loop.
LoopFound(r, b) == Times(r, b) >= MaxRepeats

\* Tool calls: the loop is broken, or the calls are made one after the other.
ToolCalls(r, b) ==
  /\ pc[r] = "answered"
  /\ IF LoopFound(r, b)
     THEN ForceFinal(r)
     ELSE /\ pc' = [pc EXCEPT ![r] = "tools"]
          /\ repeats' = [repeats EXCEPT ![r] = [batch |-> b, times |-> Times(r, b)]]
          /\ todo' = [todo EXCEPT ![r] = Len(b)]
          /\ Say(r, Msg("assistant", Len(b)))
          /\ UNCHANGED <<start, memory, outcome, memoryCut>>
  /\ UNCHANGED <<turn, cost, killed, spent, sinceKill, cut>>

NextCall(r) ==
  /\ todo' = [todo EXCEPT ![r] = @ - 1]
  /\ pc' = [pc EXCEPT ![r] = IF todo[r] = 1 THEN "turn" ELSE "tools"]
  /\ UNCHANGED <<start, guard, memory, killed, outcome, spent, sinceKill, cut, memoryCut>>

Answer(r) == Say(r, Msg("tool", Len(repeats[r].batch) - todo[r] + 1))

\* Mutant: a call that steering blocks gets no message.
ToolAnsweredUnlessBlocked(r) ==
  /\ pc[r] = "tools"
  /\ UNCHANGED msgs \/ Answer(r)
  /\ NextCall(r)

\* Steering blocks the call, or the executor returns a result or an error: in
\* each case there is a tool message.
ToolAnswered(r) == pc[r] = "tools" /\ Answer(r) /\ NextCall(r)

TurnsExhausted(r) ==
  /\ pc[r] = "turn" /\ turn[r] = MaxTurns
  /\ ForceFinal(r)
  /\ UNCHANGED <<turn, cost, killed, spent, sinceKill, cut>>

FinalResponse(r, c) ==
  /\ pc[r] = "final"
  /\ spent' = [spent EXCEPT ![r] = @ + c]
  /\ Returned(r)
  /\ UNCHANGED <<turn, cost, memory, killed, sinceKill, cut, memoryCut>>

-----------------------------------------------------------------------------
(* Failures, cancellation, the kill switch.                                *)

Awaits(r) == pc[r] \in {"guard", "flight", "answered", "tools", "final"}

\* A guardrail blocks, the gateway or a steering hook raises.
Raise(r) ==
  /\ Awaits(r)
  /\ Raised(r)
  /\ UNCHANGED <<turn, cost, killed, spent, sinceKill, cut>>

\* The handlers are through: execute returns or raises.
Done(r) ==
  /\ pc[r] = "leaving"
  /\ pc' = [pc EXCEPT ![r] = "done"]
  /\ UNCHANGED <<msgs, start, guard, todo, memory, killed, outcome, spent, sinceKill, cut, memoryCut>>

\* The task is cancelled at an await of a turn, or of the finally: then execute
\* raises, and a result it was returning is lost.
Cancel(r) ==
  \/ /\ Awaits(r)
     /\ Over(r, "cancelled")
     /\ UNCHANGED <<turn, cost, memory, killed, spent, sinceKill, cut, memoryCut>>
  \/ /\ pc[r] = "leaving"
     /\ pc' = [pc EXCEPT ![r] = "done"]
     /\ outcome' = [outcome EXCEPT ![r] = IF @ = "returned" THEN "lost" ELSE "cancelled"]
     /\ UNCHANGED <<msgs, start, guard, todo, memory, killed, spent, sinceKill, cut, memoryCut>>

Activate ==
  /\ ~killed /\ killed' = TRUE
  /\ sinceKill' = [r \in Runs |-> 0]
  /\ UNCHANGED <<pc, msgs, start, guard, todo, memory, outcome, spent, cut, memoryCut>>

Deactivate ==
  /\ killed /\ killed' = FALSE
  /\ UNCHANGED <<pc, msgs, start, guard, todo, memory, outcome, spent, sinceKill, cut, memoryCut>>

-----------------------------------------------------------------------------
Step(r) ==
  \/ BeginTurn(r) \/ CallLLM(r) \/ TurnsExhausted(r)
  \/ \E c \in 0..MaxCost : Response(r, c) \/ FinalResponse(r, c)
  \/ Discard(r) \/ Interrupt(r) \/ FinalAnswer(r)
  \/ \E b \in Batches : ToolCalls(r, b)
  \/ ToolAnswered(r)
  \/ Raise(r) \/ Done(r)

Next ==
  \/ \E r \in Runs : Execute(r) \/ Step(r) \/ Cancel(r)
  \/ Activate \/ Deactivate

Spec == Init /\ [][Next]_vars

\* The event loop runs every task; guardrails, tools and the gateway return or
\* raise.
FairSpec == Spec /\ \A r \in Runs : WF_vars(Step(r))

-----------------------------------------------------------------------------
(* Properties.                                                             *)

Messages == [role : {"system", "task", "user", "assistant", "tool", "answer"}, n : Nat]

\* Every variable has its type; calls are left exactly while tools run.
TypeOK ==
  /\ pc \in [Runs -> {"idle", "turn", "guard", "flight", "answered", "tools", "final",
                    "leaving", "done"}]
  /\ msgs \in [Runs -> Seq(Messages)] /\ memory \in Seq(Messages) /\ Len(memory) <= Window
  /\ start \in [Runs -> Nat] /\ turn \in [Runs -> 0..MaxTurns]
  /\ cost \in [Runs -> Nat] /\ spent \in [Runs -> Nat]
  /\ repeats \in [Runs -> [batch : Batches \cup {<<>>}, times : 0..(MaxRepeats - 1)]]
  /\ todo \in [Runs -> Nat] /\ \A r \in Runs : pc[r] = "tools" <=> todo[r] > 0
  /\ killed \in BOOLEAN /\ sinceKill \in [Runs -> Nat]
  /\ outcome \in [Runs -> {"none", "returned", "lost", "raised", "cancelled"}]
  /\ cut \subseteq Runs /\ memoryCut \in BOOLEAN

\* Every tool call has its tool messages right after it, and no tool message is
\* without its call.
WellFormed(m) ==
  \A i \in DOMAIN m :
    /\ m[i].role = "assistant" =>
         \A j \in 1..m[i].n : i + j \in DOMAIN m /\ m[i + j] = Msg("tool", j)
    /\ m[i].role = "tool" =>
         /\ i > m[i].n
         /\ m[i - m[i].n].role = "assistant" /\ m[i - m[i].n].n >= m[i].n

\* What is sent to the LLM answers every tool call, and answers nothing else,
\* through blocked calls, discarded answers, broken loops and earlier runs in the
\* memory, unless the context was compressed or the memory has evicted
\* (engine.py:297-419, 555-565, 591-613).
TranscriptsAnswerCalls ==
  \A r \in Runs : pc[r] \in {"flight", "final"} /\ r \notin cut => WellFormed(msgs[r])

\* Without compression and eviction the memory holds whole exchanges, each run's
\* once, also when the runs were concurrent, and nothing of a run that raised or
\* was cancelled before it had its answer; one that is cancelled on its way out is
\* remembered, though its caller never sees the result (engine.py:323-330,
\* 438-445, 484-494).
MemoryHoldsExchanges ==
  ~memoryCut =>
    /\ WellFormed(memory)
    /\ \A i \in DOMAIN memory :
         memory[i].role = "task" => outcome[memory[i].n] \in {"returned", "lost"}
    /\ \A i, j \in DOMAIN memory :
         memory[i].role = "task" /\ memory[j].role = "task" /\ i < j =>
           /\ memory[i] # memory[j]
           /\ memory[j - 1].role = "answer"

\* A run overspends its budget by one LLM call at most, the forced final one,
\* which checks no budget, included (loop_guard.py:31-50, engine.py:555-577).
OverrunsByOneCall == \A r \in Runs : spent[r] <= Budget + MaxCost

\* Once the kill switch is active a run begins at most one more LLM call, the one
\* it had checked the switch for (engine.py:226-232, 239-273, 558).
KillStopsCalls == \A r \in Runs : sinceKill[r] <= 1

\* "Only messages from this index onward belong to the current run"
\* (engine.py:189-190): what a run saves includes its task.
TaskIsSaved ==
  [][\A r \in Runs :
       pc[r] = "answered" /\ outcome'[r] = "returned" /\ memory' # memory =>
         \E i \in DOMAIN memory' : memory'[i] = Msg("task", r)]_vars

\* Every run ends: returned, raised or cancelled.
RunsEnd == \A r \in Runs : (pc[r] # "idle") ~> (pc[r] = "done")
=============================================================================
