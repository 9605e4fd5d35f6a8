--------------------------------- MODULE Dag ---------------------------------
(* DAGWorkflow: nodes and edges are added, run validates the graph and then
   executes the nodes in batches. The nodes of a batch run concurrently on one
   and the same state dict, and their results are merged into it in the order
   the nodes were added. A dict is the keys its nodes' results go under; the
   value of a key is the number of the run that wrote it, 0 when it is absent.
   A list of dependencies is the set of its names.

   Validation and the merging of a batch contain no await. They are steps of
   their own nevertheless, one per call of visit, dependency looked at and
   result, because that is how the loops are read and proved about; no other
   action is enabled in between. *)
EXTENDS Integers, Sequences, FiniteSets

CONSTANTS
  Nodes,   \* names for nodes
  Costs,   \* what the run of a node may cost
  Budgets, \* values of cost_budget, 0 for none
  MaxRuns, \* bound: runs of one workflow
  MaxLate  \* bound: nodes and edges added after a run

ASSUME DagAssumption ==
  /\ IsFiniteSet(Nodes)
  /\ Costs \subseteq Nat
  /\ Budgets \subseteq Nat
  /\ MaxRuns \in Nat
  /\ MaxLate \in Nat

VARIABLES
  order,     \* nodes in insertion order
  deps,      \* node -> names it depends on, added or not
  owner,     \* node -> the first node that was added with its list of deps
  late,      \* counter for the bound
  pc,        \* building, validating, choosing (the while loop), running (gather
             \* and what is made of its results), returned
  color,     \* of the nodes in _validate_graph
  calls,     \* its calls of visit, outermost first, and what each has still to look at
  runNo,
  state,     \* the dict: [out |-> output keys, err |-> error keys]
  completed,
  given,     \* the dict as the nodes of the batch got it
  ready,     \* the batch, without the nodes whose results are merged
  results,   \* of the nodes of the batch that have finished
  total, budget, exceeded,
  starts, batchOf, answers  \* history of this run

graph == <<order, deps, owner, late>>
search == <<color, calls>>
execution == <<runNo, state, completed, given, ready, results, total, budget,
               exceeded, starts, batchOf, answers>>
vars == <<graph, pc, search, execution>>

Added == {order[i] : i \in DOMAIN order}
Nothing == [n \in Nodes |-> 0]
NoAnswers == [n \in Nodes |-> "none"]
Empty == [out |-> Nothing, err |-> Nothing]
White == [n \in Nodes |-> "white"]

(* In the order in which the dict of the nodes is iterated. *)
Follows(m, n) == \E i, j \in DOMAIN order : i < j /\ order[i] = n /\ order[j] = m
IsFirst(n, S) == n \in S /\ \A m \in S \ {n} : Follows(m, n)

Init ==
  /\ order = <<>>
  /\ deps = [n \in Nodes |-> {}]
  /\ owner = [n \in Nodes |-> n]
  /\ late = 0
  /\ pc = "building"
  /\ color = White
  /\ calls = <<>>
  /\ runNo = 0
  /\ state = Empty
  /\ completed = {}
  /\ given = Empty
  /\ ready = {}
  /\ results = <<>>
  /\ total = 0
  /\ budget \in Budgets
  /\ exceeded = FALSE
  /\ starts = Nothing
  /\ batchOf = Nothing
  /\ answers = NoAnswers

(* Before the first run and between two runs. *)
IsIdle == pc \in {"building", "returned"}

Changes ==
  /\ IsIdle
  /\ pc' = "building"
  /\ IF runNo = 0 THEN UNCHANGED late ELSE late < MaxLate /\ late' = late + 1

(* An Agent is wrapped into a function, so a node is what its function does. *)
AddNode(n, ds, first) ==
  /\ Changes
  /\ n \notin Added
  /\ order' = Append(order, n)
  /\ deps' = [deps EXCEPT ![n] = ds]
  /\ owner' = [owner EXCEPT ![n] = first]
  /\ UNCHANGED <<search, execution>>

(* The caller gives the list it gave for another node: the nodes keep that one
   list, unless it is empty. *)
AddNodeSharing(n, m) ==
  /\ m \in Added /\ deps[m] # {}
  /\ AddNode(n, deps[m], owner[m])

(* add_edge: an unknown target is ignored, an unknown source is not. The list
   that it appends to may be that of several nodes. *)
AddEdge(source, target) ==
  /\ Changes
  /\ target \in Added
  /\ deps' = [n \in Nodes |->
       IF owner[n] = owner[target] THEN deps[n] \cup {source} ELSE deps[n]]
  /\ UNCHANGED <<order, owner, search, execution>>

-----------------------------------------------------------------------------
(* _validate_graph: a missing dependency raises, with nothing changed; then a
   depth first search with three colours. *)
Validate ==
  /\ IsIdle
  /\ runNo < MaxRuns
  /\ \A n \in Added : deps[n] \subseteq Added
  /\ pc' = "validating"
  /\ UNCHANGED <<graph, search, execution>>

\* Mutant: a node is black as soon as it is entered.
EnterDone(n) == color' = [color EXCEPT ![n] = "black"]

Enter(n) == color' = [color EXCEPT ![n] = "gray"]

Call(n) == [node |-> n, rest |-> deps[n]]

\* The loop over the nodes: visit of the first one that is white.
VisitNode ==
  /\ pc = "validating" /\ calls = <<>>
  /\ \E n \in Added :
       /\ IsFirst(n, {m \in Added : color[m] = "white"})
       /\ Enter(n)
       /\ calls' = <<Call(n)>>
  /\ UNCHANGED <<graph, pc, execution>>

Top == calls[Len(calls)]
Looked(d) == [calls EXCEPT ![Len(calls)].rest = @ \ {d}]
LooksAt(d) == pc = "validating" /\ calls # <<>> /\ d \in Top.rest

VisitDep(d) ==
  /\ LooksAt(d)
  /\ color[d] = "white"
  /\ Enter(d)
  /\ calls' = Append(Looked(d), Call(d))
  /\ UNCHANGED <<graph, pc, execution>>

SkipDep(d) ==
  /\ LooksAt(d)
  /\ color[d] = "black"
  /\ calls' = Looked(d)
  /\ UNCHANGED <<graph, pc, color, execution>>

\* ValueError: the search is over, and so is the call of run.
RefuseCycle(d) ==
  /\ LooksAt(d)
  /\ color[d] = "gray"
  /\ pc' = "building"
  /\ color' = White
  /\ calls' = <<>>
  /\ UNCHANGED <<graph, execution>>

LeaveVisit ==
  /\ pc = "validating" /\ calls # <<>>
  /\ Top.rest = {}
  /\ color' = [color EXCEPT ![Top.node] = "black"]
  /\ calls' = SubSeq(calls, 1, Len(calls) - 1)
  /\ UNCHANGED <<graph, pc, execution>>

(* run(initial_state) after its validation: with an empty state, or with the one
   that the last run returned. *)
Run(initial) ==
  /\ pc = "validating" /\ calls = <<>>
  /\ \A n \in Added : color[n] # "white"
  /\ pc' = "choosing"
  /\ color' = White
  /\ runNo' = runNo + 1
  /\ state' = initial
  /\ completed' = {}
  /\ total' = 0
  /\ exceeded' = FALSE
  /\ starts' = Nothing
  /\ batchOf' = Nothing
  /\ answers' = NoAnswers
  /\ UNCHANGED <<graph, calls, given, ready, results, budget>>

-----------------------------------------------------------------------------
IsReady(n) == n \notin completed /\ deps[n] \subseteq completed

Ready == {n \in Added : IsReady(n)}

IsOver == completed = Added \/ Ready = {}

Return ==
  /\ pc = "choosing"
  /\ IsOver
  /\ pc' = "returned"
  /\ UNCHANGED <<graph, search, execution>>

ExceedBudget ==
  /\ pc = "choosing"
  /\ ~IsOver
  /\ budget > 0 /\ total >= budget
  /\ exceeded' = TRUE
  /\ pc' = "returned"
  /\ UNCHANGED <<graph, search, runNo, state, completed, given, ready, results, total,
                 budget, starts, batchOf, answers>>

Gather ==
  /\ pc = "choosing"
  /\ ~IsOver
  /\ budget = 0 \/ total < budget
  /\ pc' = "running"
  /\ given' = state
  /\ ready' = Ready
  /\ results' = <<>>
  /\ starts' = [n \in Nodes |-> starts[n] + IF n \in Ready THEN 1 ELSE 0]
  /\ batchOf' = [n \in Nodes |->
       IF n \in Ready THEN Cardinality(completed) + 1 ELSE batchOf[n]]
  /\ UNCHANGED <<graph, search, runNo, state, completed, total, budget, exceeded, answers>>

IsRunning(n) == pc = "running" /\ n \in ready \ DOMAIN results

(* {n: value}, and {**g, **f} *)
Entry(n, value) == [m \in {n} |-> value]
Over(f, g) == [n \in DOMAIN f \cup DOMAIN g |-> IF n \in DOMAIN f THEN f[n] ELSE g[n]]

Present(keys) == [n \in {m \in Nodes : keys[m] # 0} |-> keys[n]]

Finish(n, answer, result) ==
  /\ IsRunning(n)
  /\ results' = Over(Entry(n, result), results)
  /\ answers' = [answers EXCEPT ![n] = answer]
  /\ UNCHANGED <<graph, pc, search, runNo, completed, given, ready, total, budget,
                 exceeded, starts, batchOf>>

Result(raised, out, err, cost) ==
  [raised |-> raised, out |-> out, err |-> err, cost |-> cost]

Raise(n) ==
  /\ Finish(n, "raised", Result(TRUE, <<>>, <<>>, 0))
  /\ UNCHANGED state

(* _agent_handler returns {**state, ...}, and so may any function: the whole
   dict as it is now, or as it was before the function awaited something. *)
ReturnsCopy(n, dict, cost) ==
  /\ Finish(n, "copy", Result(FALSE, Over(Entry(n, runNo), Present(dict.out)),
                              Present(dict.err), cost))
  /\ UNCHANGED state

(* A function that returns a dict with its own keys, or another value: its cost
   is that of the dict's key or of the value's attribute. *)
ReturnsOwn(n, cost) ==
  /\ Finish(n, "own", Result(FALSE, Entry(n, runNo), <<>>, cost))
  /\ UNCHANGED state

(* A function that writes into the dict it was given and returns that dict:
   merging it into itself later changes nothing. *)
Mutates(n, cost) ==
  /\ Finish(n, "wrote", Result(FALSE, <<>>, <<>>, cost))
  /\ state' = [state EXCEPT !.out[n] = runNo]

(* CancelledError is not an Exception: the loop takes it for what the node
   returned and stores it as its result. *)
Cancelled(n) ==
  /\ Finish(n, "own", Result(FALSE, Entry(n, runNo), <<>>, 0))
  /\ UNCHANGED state

\* Mutant: the result becomes the state.
Replace(s, r) == [out |-> Over(r.out, Nothing), err |-> Over(r.err, Nothing)]

(* state.update(result) *)
Update(s, r) == [out |-> Over(r.out, s.out), err |-> Over(r.err, s.err)]

Apply(s, n) ==
  IF results[n].raised
    THEN [s EXCEPT !.err[n] = runNo]
    ELSE Update(s, results[n])

(* gather has returned: one pass of the loop over zip(ready, batch_results). *)
Merge(n) ==
  /\ pc = "running"
  /\ ready \subseteq DOMAIN results
  /\ IsFirst(n, ready)
  /\ state' = Apply(state, n)
  /\ total' = total + results[n].cost
  /\ completed' = completed \cup {n}
  /\ ready' = ready \ {n}
  /\ IF ready = {n} THEN pc' = "choosing" /\ results' = <<>> /\ given' = Empty
                    ELSE UNCHANGED <<pc, results, given>>
  /\ UNCHANGED <<graph, search, runNo, budget, exceeded, starts, batchOf, answers>>

-----------------------------------------------------------------------------
Next ==
  \/ \E n \in Nodes :
       \/ \E ds \in SUBSET Nodes : AddNode(n, ds, n)
       \/ \E m \in Nodes : AddNodeSharing(n, m)
       \/ \E source \in Nodes : AddEdge(source, n)
       \/ VisitDep(n)
       \/ SkipDep(n)
       \/ RefuseCycle(n)
       \/ Raise(n)
       \/ \E cost \in Costs \cup {0} :
            \/ \E dict \in {given, state} : ReturnsCopy(n, dict, cost)
            \/ ReturnsOwn(n, cost)
            \/ Mutates(n, cost)
       \/ Cancelled(n)
       \/ Merge(n)
  \/ Validate
  \/ VisitNode
  \/ LeaveVisit
  \/ Run(Empty)
  \/ Run(state)
  \/ Return
  \/ ExceedBudget
  \/ Gather

Spec == Init /\ [][Next]_vars

-----------------------------------------------------------------------------

(* What validation is for: a run that did not hit its budget has executed every
   node exactly once, and a node only after all it depends on. A cycle that the
   search missed would end the loop early and silently. *)
ReturnedMeansAllRan ==
  pc = "returned" =>
    /\ exceeded \/ \A n \in Added : starts[n] = 1
    /\ \A n \in Added : starts[n] = 1 =>
         \A d \in deps[n] : starts[d] = 1 /\ batchOf[d] < batchOf[n]

(* What a completed node wrote stays in the state, although its siblings ran on
   the same dict and return copies of it. The exception is a key that an
   earlier run had already written: a sibling in the same batch that returns a
   copy, as every agent does, puts the old value back, when it was added later
   than the node or when the node wrote into the dict itself. *)
ResultsSurvive ==
  \A n \in completed :
    \/ runNo \in {state.out[n], state.err[n]}
    \/ /\ state.out[n] \in 1..(runNo - 1) \/ state.err[n] \in 1..(runNo - 1)
       /\ \E m \in completed \ {n} :
            /\ answers[m] = "copy" /\ batchOf[m] = batchOf[n]
            /\ Follows(m, n) \/ answers[n] = "wrote"
=============================================================================
