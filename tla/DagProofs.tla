------------------------------ MODULE DagProofs ------------------------------
(* Theorems about Dag, for any nodes, costs and budgets, and any number of runs
   and of changes between them. *)
EXTENDS Dag, FiniteSetTheorems, SequenceTheorems, TLAPS

-----------------------------------------------------------------------------
(* The search. *)

Colors == {"white", "gray", "black"}
Frames == [node : Nodes, rest : SUBSET Nodes]

SearchTypes ==
  /\ order \in Seq(Nodes)
  /\ deps \in [Nodes -> SUBSET Nodes]
  /\ pc \in {"building", "validating", "choosing", "running", "returned"}
  /\ color \in [Nodes -> Colors]
  /\ calls \in Seq(Frames)

\* Nodes that each depend on one of them: those around a cycle, or some that
\* lead to one.
Entangled(S) == S # {} /\ \A n \in S : deps[n] \cap S # {}

HasCycle == \E S \in SUBSET Added : Entangled(S)

\* Nodes that can be executed: all that they depend on is among them, and there
\* is no cycle in them.
Grounded(B) ==
  /\ \A n \in B : deps[n] \subseteq B
  /\ \A S \in SUBSET B : ~Entangled(S)

Black == {n \in Nodes : color[n] = "black"}

\* The calls of visit are a path of gray nodes, and the only ones; what a call
\* has looked at is black, but for the node of the call it made.
CallsArePath ==
  /\ \A n \in Nodes : color[n] = "gray" <=> \E i \in DOMAIN calls : calls[i].node = n
  /\ \A i, j \in DOMAIN calls : calls[i].node = calls[j].node => i = j
  /\ \A i \in DOMAIN calls :
       /\ calls[i].rest \subseteq deps[calls[i].node]
       /\ i + 1 \in DOMAIN calls => calls[i + 1].node \in deps[calls[i].node]
       /\ \A d \in deps[calls[i].node] \ calls[i].rest :
            \/ color[d] = "black"
            \/ i + 1 \in DOMAIN calls /\ d = calls[i + 1].node

SearchInv ==
  /\ SearchTypes
  /\ pc = "validating" =>
       /\ \A n \in Added : deps[n] \subseteq Added
       /\ \A n \in Nodes : color[n] # "white" => n \in Added
       /\ CallsArePath
       /\ Grounded(Black)
  /\ pc # "validating" => color = White /\ calls = <<>>
  /\ pc \in {"choosing", "running", "returned"} => Grounded(Added)

-----------------------------------------------------------------------------
(* The batches. *)

RunTypes ==
  /\ completed \subseteq Added /\ ready \subseteq Added
  /\ starts \in [Nodes -> Nat] /\ batchOf \in [Nodes -> Nat]
  /\ exceeded \in BOOLEAN

BatchInv ==
  /\ RunTypes
  /\ IsFiniteSet(completed) /\ completed \cap ready = {}
  /\ pc # "running" => ready = {}
  /\ \A n \in completed : batchOf[n] <= Cardinality(completed)
  /\ \A n \in ready :
       /\ batchOf[n] <= Cardinality(completed) + 1
       /\ \A m \in ready : batchOf[m] = batchOf[n]
  /\ pc \in {"choosing", "running", "returned"} =>
       /\ \A n \in Nodes : starts[n] = IF n \in completed \cup ready THEN 1 ELSE 0
       /\ \A n \in completed \cup ready : \A d \in deps[n] :
            d \in completed /\ batchOf[d] < batchOf[n]
  /\ pc = "returned" => exceeded \/ completed = Added

-----------------------------------------------------------------------------
(* The state. *)

Earlier == 1..(runNo - 1)

StateTypes ==
  /\ runNo \in Nat
  /\ pc \in {"choosing", "running", "returned"} => runNo > 0
  /\ state \in [out : [Nodes -> 0..runNo], err : [Nodes -> 0..runNo]]

\* A dict of keys that nodes wrote in this run or in earlier ones.
IsDict(f) == DOMAIN f \subseteq Nodes /\ \A n \in DOMAIN f : f[n] \in 1..runNo

\* What a result says of keys other than its node's is a copy that the node took
\* of the state; the keys of earlier batches are as they were then.
SaysOfOthers(m) ==
  LET r == results[m] IN
  /\ IsDict(r.out) /\ IsDict(r.err)
  /\ m \in DOMAIN r.out => r.out[m] = runNo
  /\ answers[m] # "copy" => DOMAIN r.out \subseteq {m} /\ DOMAIN r.err = {}
  /\ \A n \in completed :
       batchOf[n] # batchOf[m] =>
         /\ n \in DOMAIN r.out => r.out[n] = state.out[n]
         /\ n \in DOMAIN r.err => r.err[n] = state.err[n]

\* A result without its node's key is that of a function that wrote the key into
\* the state itself, where only a copy from its batch has overwritten it.
SaysOfItself(m) ==
  \/ results[m].raised \/ m \in DOMAIN results[m].out
  \/ /\ answers[m] = "wrote"
     /\ \/ state.out[m] = runNo
        \/ /\ state.out[m] \in Earlier
           /\ \E n \in completed : answers[n] = "copy" /\ batchOf[n] = batchOf[m]

\* The dict that the batch got has the keys that earlier batches left, for as
\* long as a node of the batch can still copy it.
GivenInv ==
  /\ given \in [out : [Nodes -> 0..runNo], err : [Nodes -> 0..runNo]]
  /\ pc = "running" /\ ~(ready \subseteq DOMAIN results) =>
       \A n \in completed : given.out[n] = state.out[n] /\ given.err[n] = state.err[n]

ResultsInv ==
  /\ StateTypes
  /\ GivenInv
  /\ answers \in [Nodes -> {"none", "raised", "own", "copy", "wrote"}]
  /\ \A m \in ready \cap DOMAIN results : SaysOfOthers(m) /\ SaysOfItself(m)
  /\ \A n \in completed, m \in ready : batchOf[n] = batchOf[m] => Follows(m, n)

\* What ResultsSurvive says of one node.
Survives(n) ==
  \/ runNo \in {state.out[n], state.err[n]}
  \/ /\ state.out[n] \in Earlier \/ state.err[n] \in Earlier
     /\ \E m \in completed \ {n} :
          /\ answers[m] = "copy" /\ batchOf[m] = batchOf[n]
          /\ Follows(m, n) \/ answers[n] = "wrote"

DagInv == SearchInv /\ BatchInv /\ ResultsInv /\ ResultsSurvive

-----------------------------------------------------------------------------
(* The search keeps its account. *)

LEMMA AddedType ==
  ASSUME order \in Seq(Nodes)
  PROVE  /\ Added \subseteq Nodes /\ Len(order) \in Nat
         /\ DOMAIN order = 1..Len(order)
         /\ \A i \in DOMAIN order : order[i] \in Nodes
BY LenProperties, ElementOfSeq DEF Added

\* The call that looks at a dependency has one less to look at.
LEMMA LookedType ==
  ASSUME SearchTypes, NEW d, LooksAt(d)
  PROVE  /\ Len(calls) \in Nat \ {0} /\ Top \in Frames
         /\ Looked(d) \in Seq(Frames) /\ Len(Looked(d)) = Len(calls)
         /\ \A i \in 1..Len(calls) :
              /\ Looked(d)[i].node = calls[i].node
              /\ Looked(d)[i].rest = IF i = Len(calls) THEN Top.rest \ {d} ELSE calls[i].rest
<1>1. /\ calls \in Seq(Frames) /\ calls # <<>>
  BY DEF SearchTypes, LooksAt
<1>2. /\ Len(calls) \in Nat \ {0} /\ DOMAIN calls = 1..Len(calls)
  BY <1>1, EmptySeq, LenProperties
<1>3. Top \in Frames
  BY <1>1, <1>2, ElementOfSeq DEF Top
<1> DEFINE e == [Top EXCEPT !.rest = @ \ {d}]
<1>4. e \in Frames /\ e.node = Top.node /\ e.rest = Top.rest \ {d}
  BY <1>3 DEF Frames
<1>5. Looked(d) = [calls EXCEPT ![Len(calls)] = e]
  BY <1>2 DEF Looked, Top
<1> HIDE DEF e
<1>6. /\ Looked(d) \in Seq(Frames) /\ Len(Looked(d)) = Len(calls)
      /\ \A i \in 1..Len(calls) : Looked(d)[i] = IF i = Len(calls) THEN e ELSE calls[i]
  BY <1>1, <1>2, <1>4, <1>5, ExceptSeq
<1>7. QED
  BY <1>2, <1>3, <1>4, <1>6 DEF Top

LEMMA CallType ==
  ASSUME SearchTypes, NEW n \in Nodes
  PROVE  Call(n) \in Frames /\ Call(n).node = n /\ Call(n).rest = deps[n]
BY DEF SearchTypes, Call, Frames

LEMMA CallsType ==
  ASSUME SearchTypes
  PROVE  /\ Len(calls) \in Nat /\ DOMAIN calls = 1..Len(calls)
         /\ \A i \in DOMAIN calls :
              calls[i] \in Frames /\ calls[i].node \in Nodes /\ calls[i].rest \subseteq Nodes
<1>1. calls \in Seq(Frames)
  BY DEF SearchTypes
<1>2. Len(calls) \in Nat /\ DOMAIN calls = 1..Len(calls) /\ \A i \in DOMAIN calls : calls[i] \in Frames
  BY <1>1, LenProperties, ElementOfSeq
<1> QED
  BY <1>2 DEF Frames

\* Nothing is grounded more simply than nothing.
LEMMA EmptyGrounded == Grounded({})
BY DEF Grounded, Entangled

\* A node whose dependencies are all grounded joins them.
LEMMA GroundedGrows ==
  ASSUME NEW B, NEW t, Grounded(B), t \notin B, deps[t] \subseteq B
  PROVE  Grounded(B \cup {t})
<1>1. ASSUME NEW S \in SUBSET (B \cup {t}), Entangled(S) PROVE FALSE
  <2> DEFINE R == S \ {t}
  <2>1. R \in SUBSET B
    OBVIOUS
  <2>2. ASSUME NEW n \in R PROVE deps[n] \cap R # {}
    <3>1. deps[n] \subseteq B /\ deps[n] \cap S # {}
      BY <1>1, <2>2 DEF Grounded, Entangled
    <3>2. QED
      BY <3>1
  <2>3. R # {}
    BY <1>1 DEF Entangled
  <2>4. QED
    BY <2>1, <2>2, <2>3 DEF Grounded, Entangled
<1>2. \A n \in B \cup {t} : deps[n] \subseteq B \cup {t}
  BY DEF Grounded
<1>3. QED
  BY <1>1, <1>2 DEF Grounded

LEMMA ValidateSearch ==
  ASSUME SearchInv, Validate
  PROVE  SearchInv'
<1>1. /\ UNCHANGED <<order, deps, color, calls>> /\ pc' = "validating"
      /\ \A n \in Added : deps[n] \subseteq Added
  BY DEF Validate, graph, search
<1>2. color = White /\ calls = <<>>
  BY DEF SearchInv, Validate, IsIdle
<1>3. Black' = {} /\ Added' = Added
  BY <1>1, <1>2 DEF Black, White, Added
<1>4. Grounded(Black)'
  BY <1>3, EmptyGrounded DEF Grounded, Entangled
<1>5. CallsArePath'
  BY <1>1, <1>2 DEF CallsArePath, White
<1>6. SearchTypes'
  BY <1>1 DEF SearchInv, SearchTypes
<1>7. QED
  BY <1>1, <1>2, <1>3, <1>4, <1>5, <1>6 DEF SearchInv, White

LEMMA VisitNodeSearch ==
  ASSUME SearchInv, VisitNode
  PROVE  SearchInv'
<1>1. /\ UNCHANGED <<order, deps, pc>> /\ pc = "validating" /\ calls = <<>>
      /\ order \in Seq(Nodes) /\ deps \in [Nodes -> SUBSET Nodes]
      /\ color \in [Nodes -> Colors]
  BY DEF VisitNode, graph, SearchInv, SearchTypes
<1>2. PICK n \in Added :
        /\ color[n] = "white" /\ color' = [color EXCEPT ![n] = "gray"]
        /\ calls' = <<Call(n)>>
  BY DEF VisitNode, IsFirst, Enter
<1>3. n \in Nodes /\ Call(n) \in Frames /\ Call(n).node = n /\ Call(n).rest = deps[n]
  BY <1>1, AddedType, CallType DEF SearchInv
<1>4. /\ calls' \in Seq(Frames) /\ DOMAIN calls' = {1} /\ calls'[1] = Call(n)
  BY <1>2, <1>3
<1>5. SearchTypes'
  BY <1>1, <1>2, <1>3, <1>4 DEF SearchInv, SearchTypes, Colors
<1>6. Black' = Black /\ Added' = Added
  BY <1>1, <1>2 DEF Black, Added
<1>7. Grounded(Black)'
  BY <1>1, <1>6 DEF SearchInv, Grounded, Entangled
<1>8. \A m \in Nodes : color[m] # "gray"
  BY <1>1 DEF SearchInv, CallsArePath
<1>9. CallsArePath'
  BY <1>1, <1>2, <1>3, <1>4, <1>8 DEF CallsArePath
<1>10. QED
  BY <1>1, <1>2, <1>5, <1>6, <1>7, <1>9 DEF SearchInv

\* What the search is looking at.
LEMMA LookingAt ==
  ASSUME SearchInv, NEW d \in Nodes, LooksAt(d)
  PROVE  /\ pc = "validating" /\ CallsArePath
         /\ Len(calls) \in DOMAIN calls
         /\ Top = calls[Len(calls)] /\ Top.node \in Nodes
         /\ d \in Top.rest /\ d \in deps[Top.node]
         /\ Top.node \in Added /\ d \in Added
         /\ \A n \in Added : deps[n] \subseteq Added
<1>1. /\ SearchTypes /\ pc = "validating" /\ CallsArePath
      /\ \A n \in Added : deps[n] \subseteq Added
      /\ \A n \in Nodes : color[n] # "white" => n \in Added
  BY DEF SearchInv, LooksAt
<1>2. Len(calls) \in DOMAIN calls /\ Top = calls[Len(calls)] /\ Top.node \in Nodes
  <2>1. Len(calls) \in Nat \ {0} /\ Top \in Frames
    BY <1>1, LookedType
  <2>2. DOMAIN calls = 1..Len(calls)
    BY <1>1, CallsType
  <2>3. QED
    BY <2>1, <2>2 DEF Top, Frames
<1>3. d \in Top.rest /\ d \in deps[Top.node] /\ color[Top.node] = "gray"
  BY <1>1, <1>2 DEF CallsArePath, LooksAt
<1>4. QED
  BY <1>1, <1>2, <1>3

LEMMA VisitDepSearch ==
  ASSUME SearchInv, NEW d \in Nodes, VisitDep(d)
  PROVE  SearchInv'
<1>1. /\ UNCHANGED <<order, deps, pc>> /\ LooksAt(d)
      /\ color[d] = "white" /\ color' = [color EXCEPT ![d] = "gray"]
      /\ calls' = Append(Looked(d), Call(d))
      /\ SearchTypes /\ color \in [Nodes -> Colors]
  BY DEF VisitDep, graph, SearchInv, SearchTypes, Enter
<1>2. /\ pc = "validating" /\ CallsArePath /\ d \in Added
      /\ d \in deps[Top.node] /\ Top = calls[Len(calls)]
  BY <1>1, LookingAt
<1> DEFINE k == Len(calls)
<1>3. /\ calls' \in Seq(Frames)
      /\ k \in Nat \ {0} /\ DOMAIN calls = 1..k /\ DOMAIN calls' = 1..(k + 1)
      /\ \A i \in 1..k :
           /\ calls'[i].node = calls[i].node
           /\ calls'[i].rest = IF i = k THEN Top.rest \ {d} ELSE calls[i].rest
      /\ calls'[k + 1].node = d /\ calls'[k + 1].rest = deps[d]
  <2>1. Looked(d) \in Seq(Frames) /\ Call(d) \in Frames
    BY <1>1, LookedType, CallType
  <2>2. /\ calls' \in Seq(Frames) /\ Len(calls') = Len(Looked(d)) + 1
        /\ \A i \in 1..Len(Looked(d)) : calls'[i] = Looked(d)[i]
        /\ calls'[Len(Looked(d)) + 1] = Call(d)
    BY <1>1, <2>1, AppendProperties
  <2>3. DOMAIN calls' = 1..Len(calls')
    BY <2>2, LenProperties
  <2>4. QED
    <3>1. /\ Len(calls) \in Nat \ {0} /\ Len(Looked(d)) = Len(calls)
          /\ \A i \in 1..Len(calls) :
               /\ Looked(d)[i].node = calls[i].node
               /\ Looked(d)[i].rest = IF i = Len(calls) THEN Top.rest \ {d} ELSE calls[i].rest
      BY <1>1, LookedType
    <3>2. DOMAIN calls = 1..Len(calls)
      BY <1>1, CallsType
    <3>3. Call(d).node = d /\ Call(d).rest = deps[d]
      BY <1>1, CallType
    <3>4. QED
      BY <2>2, <2>3, <3>1, <3>2, <3>3
<1>4. SearchTypes'
  BY <1>1, <1>3 DEF SearchTypes, Colors
<1>5. Black' = Black /\ Added' = Added
  BY <1>1 DEF Black, Added
<1>6. Grounded(Black)'
  BY <1>1, <1>2, <1>5 DEF SearchInv, Grounded, Entangled
<1>7. CallsArePath'
  <2> HIDE DEF k
  <2>0. /\ k \in Nat \ {0} /\ DOMAIN calls = 1..k /\ DOMAIN calls' = 1..(k + 1)
        /\ \A i \in 1..k : calls'[i].node = calls[i].node
        /\ calls'[k + 1].node = d
    BY <1>3
  <2>1. \A i \in DOMAIN calls : calls[i].node # d
    BY <1>1, <1>2 DEF CallsArePath
  <2>2. ASSUME NEW n \in Nodes
        PROVE  color'[n] = "gray" <=> \E i \in DOMAIN calls' : calls'[i].node = n
    <3>1. CASE n = d
      <4>1. color'[n] = "gray"
        BY <1>1, <3>1
      <4>2. k + 1 \in DOMAIN calls' /\ calls'[k + 1].node = n
        BY <2>0, <3>1
      <4>3. QED
        BY <4>1, <4>2
    <3>2. CASE n # d
      <4>1. color'[n] = color[n]
        BY <1>1, <3>2
      <4>2. color[n] = "gray" <=> \E i \in DOMAIN calls : calls[i].node = n
        BY <1>2 DEF CallsArePath
      <4>3. (\E i \in DOMAIN calls : calls[i].node = n)
              <=> \E i \in DOMAIN calls' : calls'[i].node = n
        BY <2>0, <3>2
      <4>4. QED
        BY <4>1, <4>2, <4>3
    <3>3. QED
      BY <3>1, <3>2
  <2>3. \A i, j \in DOMAIN calls' : calls'[i].node = calls'[j].node => i = j
    <3>1. \A i, j \in DOMAIN calls : calls[i].node = calls[j].node => i = j
      BY <1>2 DEF CallsArePath
    <3>2. QED
      BY <2>0, <2>1, <3>1
  <2>4. ASSUME NEW i \in DOMAIN calls'
        PROVE  /\ calls'[i].rest \subseteq deps[calls'[i].node]
               /\ i + 1 \in DOMAIN calls' => calls'[i + 1].node \in deps[calls'[i].node]
               /\ \A e \in deps[calls'[i].node] \ calls'[i].rest :
                    \/ color'[e] = "black"
                    \/ i + 1 \in DOMAIN calls' /\ e = calls'[i + 1].node
    <3>1. CASE i = k + 1
      <4>1. i + 1 \notin DOMAIN calls' /\ calls'[i].rest = deps[calls'[i].node]
        BY <1>3, <2>0, <3>1
      <4>2. QED
        BY <4>1
    <3>2. CASE i \in 1..k
      <4>1. /\ calls[i].rest \subseteq deps[calls[i].node]
            /\ i + 1 \in DOMAIN calls => calls[i + 1].node \in deps[calls[i].node]
            /\ \A e \in deps[calls[i].node] \ calls[i].rest :
                 \/ color[e] = "black"
                 \/ i + 1 \in DOMAIN calls /\ e = calls[i + 1].node
        BY <1>2, <2>0, <3>2 DEF CallsArePath
      <4>2. /\ calls'[i].node = calls[i].node
            /\ calls'[i].rest = IF i = k THEN Top.rest \ {d} ELSE calls[i].rest
            /\ i + 1 \in DOMAIN calls'
            /\ calls'[i + 1].node = IF i = k THEN d ELSE calls[i + 1].node
            /\ i = k => i + 1 \notin DOMAIN calls
            /\ i # k => i + 1 \in DOMAIN calls
        <5>1. i \in 1..(k + 1) /\ i + 1 \in 1..(k + 1) /\ (i # k => i + 1 \in 1..k)
          BY <2>0, <3>2
        <5>2. \A j \in 1..k : calls'[j].rest = IF j = k THEN Top.rest \ {d} ELSE calls[j].rest
          BY <1>3
        <5>3. i = k => i + 1 \notin DOMAIN calls
          BY <2>0
        <5>4. QED
          BY <2>0, <3>2, <5>1, <5>2, <5>3
      <4>3. /\ \A e \in Nodes : color[e] = "black" => color'[e] = "black"
            /\ calls[i].node \in Nodes /\ deps[calls[i].node] \subseteq Nodes
        <5>1. calls[i].node \in Nodes
          BY <1>1, <2>0, <3>2, CallsType
        <5>2. deps \in [Nodes -> SUBSET Nodes]
          BY <1>1 DEF SearchTypes
        <5>3. \A e \in Nodes : color[e] = "black" => color'[e] = "black"
          BY <1>1
        <5>4. QED
          BY <5>1, <5>2, <5>3
      <4>4. i = k => Top = calls[i] /\ d \in deps[calls[i].node]
        BY <1>2 DEF k
      <4>5. QED
        BY <4>1, <4>2, <4>3, <4>4
    <3>3. QED
      <4>1. i = k + 1 \/ i \in 1..k
        BY <2>0
      <4>2. QED
        BY <4>1, <3>1, <3>2
  <2>5. QED
    BY <1>1, <2>2, <2>3, <2>4 DEF CallsArePath
<1>8. QED
  BY <1>1, <1>2, <1>4, <1>5, <1>6, <1>7 DEF SearchInv

LEMMA SkipDepSearch ==
  ASSUME SearchInv, NEW d \in Nodes, SkipDep(d)
  PROVE  SearchInv'
<1>1. /\ UNCHANGED <<order, deps, pc, color>> /\ LooksAt(d)
      /\ color[d] = "black" /\ calls' = Looked(d) /\ SearchTypes
  BY DEF SkipDep, graph, SearchInv
<1>2. pc = "validating" /\ CallsArePath /\ Top = calls[Len(calls)]
  BY <1>1, LookingAt
<1>3. /\ Len(calls) \in Nat \ {0} /\ DOMAIN calls = 1..Len(calls)
      /\ calls' \in Seq(Frames) /\ DOMAIN calls' = 1..Len(calls)
      /\ \A i \in 1..Len(calls) :
           /\ calls'[i].node = calls[i].node
           /\ calls'[i].rest = IF i = Len(calls) THEN Top.rest \ {d} ELSE calls[i].rest
  <2>1. calls' \in Seq(Frames) /\ DOMAIN calls' = 1..Len(calls')
    BY <1>1, LookedType, LenProperties
  <2>2. QED
    BY <1>1, <2>1, LookedType, CallsType
<1>4. SearchTypes'
  BY <1>1, <1>3 DEF SearchTypes
<1>5. Black' = Black /\ Added' = Added
  BY <1>1 DEF Black, Added
<1>6. Grounded(Black)'
  BY <1>1, <1>2, <1>5 DEF SearchInv, Grounded, Entangled
<1>7. CallsArePath'
  <2> DEFINE k == Len(calls)
  <2>0. /\ k \in Nat \ {0} /\ DOMAIN calls = 1..k /\ DOMAIN calls' = 1..k
        /\ \A i \in 1..k : calls'[i].node = calls[i].node
        /\ \A i \in 1..k :
             calls'[i].rest = IF i = k THEN Top.rest \ {d} ELSE calls[i].rest
        /\ Top = calls[k]
    BY <1>2, <1>3
  <2> HIDE DEF k
  <2>1. \A n \in Nodes : color'[n] = "gray" <=> \E i \in DOMAIN calls' : calls'[i].node = n
    BY <1>1, <1>2, <2>0 DEF CallsArePath
  <2>2. \A i, j \in DOMAIN calls' : calls'[i].node = calls'[j].node => i = j
    BY <1>2, <2>0 DEF CallsArePath
  <2>3. ASSUME NEW i \in DOMAIN calls'
        PROVE  /\ calls'[i].rest \subseteq deps[calls'[i].node]
               /\ i + 1 \in DOMAIN calls' => calls'[i + 1].node \in deps[calls'[i].node]
               /\ \A e \in deps[calls'[i].node] \ calls'[i].rest :
                    \/ color'[e] = "black"
                    \/ i + 1 \in DOMAIN calls' /\ e = calls'[i + 1].node
    <3>1. /\ calls[i].rest \subseteq deps[calls[i].node]
          /\ i + 1 \in DOMAIN calls => calls[i + 1].node \in deps[calls[i].node]
          /\ \A e \in deps[calls[i].node] \ calls[i].rest :
               \/ color[e] = "black"
               \/ i + 1 \in DOMAIN calls /\ e = calls[i + 1].node
      BY <1>2, <2>0 DEF CallsArePath
    <3>2. /\ calls'[i].node = calls[i].node
          /\ calls[i].rest \ {d} \subseteq calls'[i].rest
          /\ calls'[i].rest \subseteq calls[i].rest
          /\ i + 1 \in DOMAIN calls' =>
               i + 1 \in DOMAIN calls /\ calls'[i + 1].node = calls[i + 1].node
          /\ DOMAIN calls' = DOMAIN calls
      BY <2>0
    <3>3. QED
      BY <1>1, <3>1, <3>2
  <2>4. QED
    BY <1>1, <2>1, <2>2, <2>3 DEF CallsArePath
<1>8. QED
  BY <1>1, <1>2, <1>4, <1>5, <1>6, <1>7 DEF SearchInv

LEMMA RefuseCycleSearch ==
  ASSUME SearchInv, NEW d \in Nodes, RefuseCycle(d)
  PROVE  SearchInv'
<1>1. /\ UNCHANGED <<order, deps>> /\ pc' = "building"
      /\ color' = White /\ calls' = <<>> /\ SearchTypes
  BY DEF RefuseCycle, graph, SearchInv
<1>2. SearchTypes'
  BY <1>1 DEF SearchTypes, White, Colors
<1>3. QED
  BY <1>1, <1>2 DEF SearchInv, White

LEMMA LeaveVisitSearch ==
  ASSUME SearchInv, LeaveVisit
  PROVE  SearchInv'
<1> DEFINE t == Top.node
<1>1. /\ UNCHANGED <<order, deps, pc>> /\ pc = "validating" /\ calls # <<>>
      /\ Top.rest = {} /\ color' = [color EXCEPT ![t] = "black"]
      /\ calls' = SubSeq(calls, 1, Len(calls) - 1)
      /\ SearchTypes /\ CallsArePath /\ color \in [Nodes -> Colors]
      /\ calls \in Seq(Frames)
  BY DEF LeaveVisit, graph, SearchInv, SearchTypes
<1>2. /\ Len(calls) \in Nat \ {0} /\ DOMAIN calls = 1..Len(calls)
      /\ \A i \in DOMAIN calls : calls[i] \in Frames /\ calls[i].node \in Nodes
      /\ Top = calls[Len(calls)]
  BY <1>1, EmptySeq, CallsType DEF Top
<1>3. /\ calls' \in Seq(Frames) /\ DOMAIN calls' = 1..(Len(calls) - 1)
      /\ \A i \in 1..(Len(calls) - 1) : calls'[i] = calls[i]
  <2>1. /\ calls' \in Seq(Frames) /\ Len(calls') = Len(calls) - 1
        /\ \A i \in 1..(Len(calls) - 1) : calls'[i] = calls[i]
    BY <1>1, <1>2, SubSeqProperties
  <2>2. QED
    BY <2>1, LenProperties
<1>4. /\ t \in Nodes /\ color[t] = "gray"
      /\ \A d \in deps[t] : color[d] = "black"
  BY <1>1, <1>2 DEF CallsArePath
<1>5. SearchTypes'
  BY <1>1, <1>3, <1>4 DEF SearchTypes, Colors
<1> HIDE DEF t
<1>6. Black' = Black \cup {t} /\ t \notin Black /\ Added' = Added
  BY <1>1, <1>4 DEF Black, Added
<1>7. Grounded(Black)'
  <2>1. Grounded(Black) /\ deps[t] \subseteq Black
    BY <1>1, <1>4 DEF SearchInv, SearchTypes, Black
  <2>2. Grounded(Black \cup {t})
    BY <1>6, <2>1, GroundedGrows
  <2>3. QED
    BY <1>1, <1>6, <2>2 DEF Grounded, Entangled
<1>8. CallsArePath'
  <2>1. t = calls[Len(calls)].node
    BY <1>2 DEF t
  <2>2. ASSUME NEW n \in Nodes
        PROVE  color'[n] = "gray" <=> \E i \in DOMAIN calls' : calls'[i].node = n
    <3>1. CASE n = t
      BY <1>1, <1>2, <1>3, <2>1, <3>1 DEF CallsArePath
    <3>2. CASE n # t
      <4>1. color'[n] = color[n]
        BY <1>1, <3>2 DEF t
      <4>2. color[n] = "gray" <=> \E i \in DOMAIN calls : calls[i].node = n
        BY <1>1 DEF CallsArePath
      <4>3. \A i \in DOMAIN calls' : i \in DOMAIN calls /\ calls'[i] = calls[i]
        BY <1>2, <1>3
      <4>4. \A i \in DOMAIN calls : calls[i].node = n => i \in DOMAIN calls'
        BY <1>2, <1>3, <2>1, <3>2
      <4>5. QED
        BY <4>1, <4>2, <4>3, <4>4
    <3>3. QED
      BY <3>1, <3>2
  <2>3. \A i, j \in DOMAIN calls' : calls'[i].node = calls'[j].node => i = j
    BY <1>1, <1>2, <1>3 DEF CallsArePath
  <2>4. ASSUME NEW i \in DOMAIN calls'
        PROVE  /\ calls'[i].rest \subseteq deps[calls'[i].node]
               /\ i + 1 \in DOMAIN calls' => calls'[i + 1].node \in deps[calls'[i].node]
               /\ \A e \in deps[calls'[i].node] \ calls'[i].rest :
                    \/ color'[e] = "black"
                    \/ i + 1 \in DOMAIN calls' /\ e = calls'[i + 1].node
    <3>1. i \in DOMAIN calls /\ i + 1 \in DOMAIN calls /\ calls'[i] = calls[i]
      BY <1>2, <1>3
    <3>2. i + 1 \notin DOMAIN calls' => calls[i + 1].node = t
      BY <1>2, <1>3, <2>1
    <3>3. i + 1 \in DOMAIN calls' => calls'[i + 1] = calls[i + 1]
      BY <1>3
    <3>4. deps[calls[i].node] \subseteq Nodes
      BY <1>1, <1>2, <3>1 DEF SearchTypes
    <3>5. QED
      BY <1>1, <1>4, <3>1, <3>2, <3>3, <3>4 DEF CallsArePath
  <2>5. QED
    BY <1>1, <2>2, <2>3, <2>4 DEF CallsArePath
<1>9. QED
  BY <1>1, <1>4, <1>5, <1>6, <1>7, <1>8 DEF SearchInv

\* When every node is black, the graph is grounded.
LEMMA SearchEnds ==
  ASSUME SearchInv, pc = "validating", calls = <<>>,
         \A n \in Added : color[n] # "white"
  PROVE  Grounded(Added)
<1>1. \A n \in Nodes : color[n] # "gray"
  BY DEF SearchInv, CallsArePath
<1>2. Added \subseteq Nodes /\ color \in [Nodes -> Colors]
  BY AddedType DEF SearchInv, SearchTypes
<1>3. Black = Added
  BY <1>1, <1>2 DEF SearchInv, Black, Colors
<1>4. QED
  BY <1>3 DEF SearchInv

LEMMA RunSearch ==
  ASSUME SearchInv, NEW s, Run(s)
  PROVE  SearchInv'
<1>1. /\ UNCHANGED <<order, deps>> /\ pc' = "choosing"
      /\ color' = White /\ calls' = <<>> /\ SearchTypes
      /\ pc = "validating" /\ calls = <<>> /\ \A n \in Added : color[n] # "white"
  BY DEF Run, graph, SearchInv
<1>2. SearchTypes'
  BY <1>1 DEF SearchTypes, White, Colors
<1>3. Grounded(Added)'
  <2>1. Grounded(Added) /\ Added' = Added
    BY <1>1, SearchEnds DEF Added
  <2>2. QED
    BY <1>1, <2>1 DEF Grounded, Entangled
<1>4. QED
  BY <1>1, <1>2, <1>3 DEF SearchInv, White

\* The steps of the execution leave the graph and the search alone.
LEMMA ExecutionSearch ==
  ASSUME SearchInv, UNCHANGED <<order, deps, color, calls>>,
         pc \in {"choosing", "running", "returned"}, pc' \in {"choosing", "running", "returned"}
  PROVE  SearchInv'
<1>1. SearchTypes'
  BY DEF SearchInv, SearchTypes
<1>2. color' = White' /\ calls' = <<>>
  BY DEF SearchInv, White
<1>3. Grounded(Added)'
  BY DEF SearchInv, Grounded, Entangled, Added
<1>4. QED
  BY <1>1, <1>2, <1>3 DEF SearchInv

\* The graph grows.
LEMMA ChangeSearch ==
  ASSUME SearchInv, Changes, UNCHANGED search,
         order' \in Seq(Nodes), deps' \in [Nodes -> SUBSET Nodes]
  PROVE  SearchInv'
<1>1. pc' = "building" /\ UNCHANGED <<color, calls>> /\ color = White /\ calls = <<>>
  BY DEF SearchInv, Changes, IsIdle, search
<1>2. SearchTypes'
  BY <1>1 DEF SearchInv, SearchTypes
<1>3. QED
  BY <1>1, <1>2 DEF SearchInv, White

LEMMA AddNodeSearch ==
  ASSUME SearchInv, NEW n \in Nodes, NEW ds \in SUBSET Nodes, NEW m, AddNode(n, ds, m)
  PROVE  SearchInv'
<1>1. SearchTypes
  BY DEF SearchInv
<1>2. order' \in Seq(Nodes)
  BY <1>1, AppendProperties DEF AddNode, SearchTypes
<1>3. deps' \in [Nodes -> SUBSET Nodes]
  BY <1>1 DEF AddNode, SearchTypes
<1>4. QED
  BY <1>2, <1>3, ChangeSearch DEF AddNode

LEMMA AddEdgeSearch ==
  ASSUME SearchInv, NEW n \in Nodes, NEW source \in Nodes, AddEdge(source, n)
  PROVE  SearchInv'
<1>1. deps' \in [Nodes -> SUBSET Nodes] /\ UNCHANGED order
  BY DEF AddEdge, SearchInv, SearchTypes
<1>2. QED
  BY <1>1, ChangeSearch DEF AddEdge, SearchInv, SearchTypes

\* What the nodes do while they run.
NodeStep(n) ==
  \/ Raise(n)
  \/ \E cost \in Costs \cup {0} :
       \/ \E dict \in {given, state} : ReturnsCopy(n, dict, cost)
       \/ ReturnsOwn(n, cost)
       \/ Mutates(n, cost)
  \/ Cancelled(n)

\* How nodes are added, with a list of their own or that of another node.
LEMMA AddingNodes ==
  ASSUME SearchTypes, NEW n \in Nodes, NEW l \in Nodes, AddNodeSharing(n, l)
  PROVE  \E ds \in SUBSET Nodes, m \in {owner[l]} : AddNode(n, ds, m)
BY DEF AddNodeSharing, SearchTypes

LEMMA InitSearch == Init => SearchInv
<1> SUFFICES ASSUME Init PROVE SearchInv
  OBVIOUS
<1>1. <<>> \in Seq(Nodes) /\ <<>> \in Seq(Frames)
  OBVIOUS
<1>2. /\ order = <<>> /\ deps = [n \in Nodes |-> {}]
      /\ pc = "building" /\ color = White /\ calls = <<>>
  BY DEF Init
<1>3. SearchTypes
  BY <1>1, <1>2 DEF SearchTypes, White, Colors
<1>4. QED
  BY <1>2, <1>3 DEF SearchInv

LEMMA NextSearch == SearchInv /\ [Next]_vars => SearchInv'
<1> SUFFICES ASSUME SearchInv, [Next]_vars PROVE SearchInv'
  OBVIOUS
<1>1. ASSUME NEW n \in Nodes, NEW ds \in SUBSET Nodes, NEW m, AddNode(n, ds, m)
      PROVE  SearchInv'
  BY <1>1, AddNodeSearch
<1>a. ASSUME NEW n \in Nodes, NEW l \in Nodes, AddNodeSharing(n, l) PROVE SearchInv'
  BY <1>1, <1>a, AddingNodes DEF SearchInv
<1>2. ASSUME NEW n \in Nodes, NEW source \in Nodes, AddEdge(source, n) PROVE SearchInv'
  BY <1>2, AddEdgeSearch
<1>3. CASE Validate
  BY <1>3, ValidateSearch
<1>4. CASE VisitNode
  BY <1>4, VisitNodeSearch
<1>5. ASSUME NEW n \in Nodes, VisitDep(n) \/ SkipDep(n) \/ RefuseCycle(n) PROVE SearchInv'
  BY <1>5, VisitDepSearch, SkipDepSearch, RefuseCycleSearch
<1>6. CASE LeaveVisit
  BY <1>6, LeaveVisitSearch
<1>7. CASE Run(Empty) \/ Run(state)
  BY <1>7, RunSearch
<1>8. CASE Return \/ ExceedBudget \/ Gather
  BY <1>8, ExecutionSearch DEF Return, ExceedBudget, Gather, graph, search, execution
<1>9. ASSUME NEW n \in Nodes, NodeStep(n) PROVE SearchInv'
  BY <1>9, ExecutionSearch
     DEF NodeStep, Raise, ReturnsCopy, ReturnsOwn, Mutates, Cancelled,
         Finish, IsRunning, graph, search
<1>10. ASSUME NEW n \in Nodes, Merge(n) PROVE SearchInv'
  BY <1>10, ExecutionSearch DEF Merge, graph, search
<1>11. CASE UNCHANGED vars
  <2>1. UNCHANGED <<order, deps, pc, color, calls>>
    BY <1>11 DEF vars, graph, search, execution
  <2>2. UNCHANGED <<SearchTypes, CallsArePath, Added, White>>
    BY <2>1 DEF SearchTypes, CallsArePath, Added, White
  <2>3. UNCHANGED <<Grounded(Black), Grounded(Added)>>
    BY <2>1 DEF Grounded, Entangled, Black, Added
  <2>4. QED
    BY <2>1, <2>2, <2>3 DEF SearchInv
<1>12. QED
  BY <1>1, <1>a, <1>2, <1>3, <1>4, <1>5, <1>6, <1>7, <1>8, <1>9, <1>10, <1>11
     DEF Next, NodeStep

\* A cycle is refused for a cycle, and only a graph without one is run.
LEMMA OutcomeOfSearch ==
  ASSUME SearchInv
  PROVE  /\ \A d \in Nodes : RefuseCycle(d) => HasCycle
         /\ \A s : Run(s) => ~HasCycle
<1>1. ASSUME NEW d \in Nodes, RefuseCycle(d) PROVE HasCycle
  <2>1. LooksAt(d) /\ color[d] = "gray"
    BY <1>1 DEF RefuseCycle
  <2>2. /\ CallsArePath /\ Len(calls) \in DOMAIN calls /\ Top = calls[Len(calls)]
        /\ d \in deps[Top.node]
    BY <2>1, LookingAt
  <2>3. PICK j \in DOMAIN calls : calls[j].node = d
    BY <2>1, <2>2 DEF CallsArePath
  <2>4. /\ Len(calls) \in Nat /\ DOMAIN calls = 1..Len(calls)
        /\ \A i \in DOMAIN calls : calls[i].node \in Nodes
    BY CallsType DEF SearchInv
  <2> DEFINE S == {calls[i].node : i \in j..Len(calls)}
  <2>5. \A i \in j..Len(calls) : i \in DOMAIN calls
    BY <2>4
  <2>6. S \subseteq Added
    <3>1. ASSUME NEW i \in j..Len(calls) PROVE calls[i].node \in Added
      <4>1. color[calls[i].node] = "gray" /\ calls[i].node \in Nodes
        BY <2>2, <2>4, <2>5 DEF CallsArePath
      <4>2. QED
        BY <2>1, <4>1 DEF SearchInv, LooksAt
    <3>2. QED
      BY <3>1
  <2>7. d \in S
    BY <2>3, <2>4
  <2>8. ASSUME NEW i \in j..Len(calls) PROVE deps[calls[i].node] \cap S # {}
    <3>1. CASE i = Len(calls)
      BY <2>2, <2>7, <3>1
    <3>2. CASE i # Len(calls)
      <4>1. i + 1 \in j..Len(calls) /\ i \in DOMAIN calls /\ i + 1 \in DOMAIN calls
        <5> DEFINE k == Len(calls)
        <5>1. k \in Nat /\ j \in 1..k /\ i \in j..k /\ i # k
          BY <2>4, <3>2
        <5> HIDE DEF k
        <5>2. i + 1 \in j..k /\ i \in 1..k /\ i + 1 \in 1..k
          BY <5>1
        <5>3. QED
          BY <2>4, <5>2 DEF k
      <4>2. calls[i + 1].node \in deps[calls[i].node]
        BY <2>2, <4>1 DEF CallsArePath
      <4>3. QED
        BY <4>1, <4>2
    <3>3. QED
      BY <3>1, <3>2
  <2>9. Entangled(S)
    BY <2>7, <2>8 DEF Entangled
  <2>10. QED
    BY <2>6, <2>9 DEF HasCycle
<1>2. ASSUME NEW s, Run(s) PROVE ~HasCycle
  <2>1. Grounded(Added)
    BY <1>2, SearchEnds DEF Run
  <2>2. QED
    BY <2>1 DEF Grounded, HasCycle
<1>3. QED
  BY <1>1, <1>2
-----------------------------------------------------------------------------
(* The batches keep their account. *)

\* A grounded graph always has a node to run, until all have run.
LEMMA SomeNodeIsReady ==
  ASSUME Grounded(Added), completed \subseteq Added, Ready = {}
  PROVE  completed = Added
<1> DEFINE S == Added \ completed
<1>1. SUFFICES ASSUME S # {} PROVE FALSE
  OBVIOUS
<1>2. \E n \in S : deps[n] \cap S = {}
  BY <1>1 DEF Grounded, Entangled
<1>3. PICK n \in S : deps[n] \cap S = {}
  BY <1>2
<1>4. deps[n] \subseteq completed
  BY <1>3 DEF Grounded
<1>5. QED
  BY <1>3, <1>4 DEF Ready, IsReady

\* Steps that leave the batches alone and start, run or end none.
LEMMA BatchesAlone ==
  ASSUME BatchInv, UNCHANGED <<completed, ready, starts, batchOf, exceeded>>,
         Added \subseteq Added',
         \/ pc # "running" /\ pc' \in {"building", "validating"}
         \/ pc = "running" /\ pc' = "running" /\ UNCHANGED deps
  PROVE  BatchInv'
<1>1. RunTypes'
  BY DEF BatchInv, RunTypes
<1>2. QED
  BY <1>1 DEF BatchInv

LEMMA RunBatches ==
  ASSUME SearchTypes, BatchInv, NEW s, Run(s)
  PROVE  BatchInv'
<1>1. /\ completed' = {} /\ starts' = Nothing /\ batchOf' = Nothing /\ exceeded' = FALSE
      /\ pc' = "choosing" /\ ready' = {} /\ Added' = Added
  BY DEF Run, BatchInv, graph, Added
<1>2. Nothing \in [Nodes -> Nat] /\ \A n \in Nodes : Nothing[n] = 0
  BY DEF Nothing
<1>3. RunTypes'
  BY <1>1, <1>2 DEF RunTypes
<1>4. IsFiniteSet({})
  BY FS_EmptySet
<1>5. QED
  BY <1>1, <1>2, <1>3, <1>4 DEF BatchInv

LEMMA EndBatches ==
  ASSUME SearchInv, BatchInv, Return \/ ExceedBudget
  PROVE  BatchInv'
<1>1. /\ UNCHANGED <<order, deps, completed, ready, starts, batchOf>>
      /\ pc = "choosing" /\ pc' = "returned" /\ exceeded' \in {exceeded, TRUE}
  BY DEF Return, ExceedBudget, graph, execution
<1>2. exceeded' \/ completed = Added
  <2>1. CASE ExceedBudget
    BY <2>1 DEF ExceedBudget
  <2>2. CASE Return
    BY <1>1, <2>2, SomeNodeIsReady DEF Return, IsOver, SearchInv, BatchInv, RunTypes
  <2>3. QED
    BY <2>1, <2>2
<1>3. Added' = Added
  BY <1>1 DEF Added
<1>4. RunTypes'
  BY <1>1, <1>3 DEF BatchInv, RunTypes
<1>5. QED
  BY <1>1, <1>2, <1>3, <1>4 DEF BatchInv

LEMMA GatherBatches ==
  ASSUME SearchInv, BatchInv, Gather
  PROVE  BatchInv'
<1> DEFINE k == Cardinality(completed)
<1>1. /\ UNCHANGED <<order, deps, completed, exceeded>> /\ Added' = Added
      /\ pc = "choosing" /\ pc' = "running" /\ ready' = Ready /\ ready = {}
      /\ starts' = [n \in Nodes |-> starts[n] + IF n \in Ready THEN 1 ELSE 0]
      /\ batchOf' = [n \in Nodes |-> IF n \in Ready THEN k + 1 ELSE batchOf[n]]
  BY DEF Gather, graph, BatchInv, Added
<1>2. k \in Nat
  BY FS_CardinalityType DEF BatchInv
<1>3. /\ completed \subseteq Added /\ Added \subseteq Nodes
      /\ starts \in [Nodes -> Nat] /\ batchOf \in [Nodes -> Nat] /\ exceeded \in BOOLEAN
  BY AddedType DEF BatchInv, RunTypes, SearchInv, SearchTypes
<1>4. Ready \subseteq Added /\ \A n \in Ready : n \notin completed /\ deps[n] \subseteq completed
  BY DEF Ready, IsReady
<1> HIDE DEF k
<1>5. RunTypes'
  BY <1>1, <1>2, <1>3, <1>4 DEF RunTypes
<1>6. \A n \in completed : batchOf[n] <= k /\ batchOf'[n] = batchOf[n]
  BY <1>1, <1>3, <1>4 DEF BatchInv, k
<1>7. \A n \in Ready : batchOf'[n] = k + 1
  BY <1>1, <1>3, <1>4
<1>8. \A n \in Nodes : starts'[n] = IF n \in completed \cup Ready THEN 1 ELSE 0
  BY <1>1, <1>3, <1>4 DEF BatchInv
<1>9. \A n \in completed \cup Ready : \A d \in deps[n] :
        d \in completed /\ batchOf'[d] < batchOf'[n]
  <2>1. \A n \in completed : \A d \in deps[n] : d \in completed /\ batchOf[d] < batchOf[n]
    BY <1>1 DEF BatchInv
  <2>2. QED
    BY <1>2, <1>3, <1>4, <1>6, <1>7, <2>1
<1>10. k' = k
  BY <1>1 DEF k
<1>11. /\ IsFiniteSet(completed)' /\ completed' \cap ready' = {}
       /\ \A n \in completed' : batchOf'[n] <= Cardinality(completed')
       /\ \A n \in ready' :
            /\ batchOf'[n] <= Cardinality(completed') + 1
            /\ \A m \in ready' : batchOf'[m] = batchOf'[n]
  <2>1. IsFiniteSet(completed) /\ completed \cap Ready = {}
    BY <1>4 DEF BatchInv
  <2>2. Cardinality(completed') = k
    BY <1>10 DEF k
  <2>3. \A n \in Ready : batchOf'[n] <= k + 1 /\ \A m \in Ready : batchOf'[m] = batchOf'[n]
    BY <1>2, <1>7
  <2>4. QED
    BY <1>1, <1>6, <2>1, <2>2, <2>3
<1>12. UNCHANGED <<deps, completed>> /\ pc' = "running" /\ ready' = Ready
  BY <1>1
<1>13. QED
  BY <1>5, <1>8, <1>9, <1>11, <1>12 DEF BatchInv

LEMMA MergeBatches ==
  ASSUME SearchInv, BatchInv, NEW n \in Nodes, Merge(n)
  PROVE  BatchInv'
<1>1. /\ UNCHANGED <<order, deps, starts, batchOf, exceeded>> /\ Added' = Added
      /\ pc = "running" /\ n \in ready
      /\ completed' = completed \cup {n} /\ ready' = ready \ {n}
      /\ \/ ready = {n} /\ pc' = "choosing"
         \/ pc' = "running"
  BY DEF Merge, IsFirst, graph, Added
<1>2. /\ completed \subseteq Added /\ ready \subseteq Added /\ Added \subseteq Nodes
      /\ batchOf \in [Nodes -> Nat] /\ IsFiniteSet(completed) /\ n \notin completed
  BY <1>1, AddedType DEF BatchInv, RunTypes, SearchInv, SearchTypes
<1>3. /\ IsFiniteSet(completed') /\ Cardinality(completed) \in Nat
      /\ Cardinality(completed') = Cardinality(completed) + 1
  BY <1>1, <1>2, FS_AddElement, FS_CardinalityType
<1>4. RunTypes'
  BY <1>1, <1>2 DEF BatchInv, RunTypes
<1>5. /\ \A m \in completed' : batchOf'[m] <= Cardinality(completed')
      /\ \A m \in ready' :
           /\ batchOf'[m] <= Cardinality(completed') + 1
           /\ \A l \in ready' : batchOf'[l] = batchOf'[m]
  <2>1. /\ \A m \in completed : batchOf[m] <= Cardinality(completed)
        /\ \A m \in ready : batchOf[m] <= Cardinality(completed) + 1
        /\ \A m, l \in ready : batchOf[m] = batchOf[l]
    BY DEF BatchInv
  <2>2. \A m \in Nodes : batchOf[m] \in Nat
    BY <1>2
  <2>3. /\ \A m \in completed' : m \in Nodes /\ (m \in completed \/ m = n)
        /\ \A m \in ready' : m \in ready /\ m \in Nodes
    BY <1>1, <1>2
  <2>4. QED
    BY <1>1, <1>3, <2>1, <2>2, <2>3
<1>6. /\ completed' \cup ready' = completed \cup ready /\ completed \subseteq completed'
      /\ completed' \cap ready' = {}
  BY <1>1 DEF BatchInv
<1>7. /\ \A m \in Nodes : starts'[m] = IF m \in completed' \cup ready' THEN 1 ELSE 0
      /\ \A m \in completed' \cup ready' : \A d \in deps'[m] :
           d \in completed' /\ batchOf'[d] < batchOf'[m]
  <2>1. /\ \A m \in Nodes : starts[m] = IF m \in completed \cup ready THEN 1 ELSE 0
        /\ \A m \in completed \cup ready : \A d \in deps[m] :
             d \in completed /\ batchOf[d] < batchOf[m]
    BY <1>1 DEF BatchInv
  <2>2. QED
    BY <1>1, <1>6, <2>1
<1>8. pc' # "running" => ready' = {}
  BY <1>1
<1>9. QED
  BY <1>1, <1>3, <1>4, <1>5, <1>6, <1>7, <1>8 DEF BatchInv

LEMMA InitBatches == Init => BatchInv
<1> SUFFICES ASSUME Init PROVE BatchInv
  OBVIOUS
<1>1. /\ completed = {} /\ ready = {} /\ starts = Nothing /\ batchOf = Nothing
      /\ exceeded = FALSE /\ pc = "building"
  BY DEF Init
<1>2. Nothing \in [Nodes -> Nat]
  BY DEF Nothing
<1>3. RunTypes
  BY <1>1, <1>2 DEF RunTypes
<1>4. IsFiniteSet({})
  BY FS_EmptySet
<1>5. QED
  BY <1>1, <1>3, <1>4 DEF BatchInv

\* What changes the graph adds to it.
LEMMA ChangesAdd ==
  ASSUME SearchTypes, NEW n \in Nodes, NEW ds, NEW m, AddNode(n, ds, m)
  PROVE  /\ Added' = Added \cup {n}
         /\ \A i \in DOMAIN order : i \in DOMAIN order' /\ order'[i] = order[i]
<1>1. order \in Seq(Nodes) /\ order' = Append(order, n)
  BY DEF AddNode, SearchTypes
<1>2. Len(order) \in Nat /\ DOMAIN order = 1..Len(order)
  BY <1>1, LenProperties
<1>3. /\ order' \in Seq(Nodes) /\ Len(order') = Len(order) + 1
      /\ \A i \in 1..Len(order) : order'[i] = order[i]
      /\ order'[Len(order) + 1] = n
  BY <1>1, AppendProperties
<1>4. DOMAIN order' = 1..(Len(order) + 1)
  BY <1>3, LenProperties
<1>5. \A i \in DOMAIN order' : i \in DOMAIN order \/ i = Len(order) + 1
  BY <1>2, <1>4
<1>6. \A i \in DOMAIN order : i \in DOMAIN order'
  BY <1>2, <1>4
<1>7. Len(order) + 1 \in DOMAIN order'
  BY <1>2, <1>4
<1>8. QED
  BY <1>2, <1>3, <1>5, <1>6, <1>7 DEF Added

LEMMA NextBatches == SearchInv /\ BatchInv /\ [Next]_vars => BatchInv'
<1> SUFFICES ASSUME SearchInv, BatchInv, [Next]_vars PROVE BatchInv'
  OBVIOUS
<1>0. SearchTypes
  BY DEF SearchInv
<1>1. ASSUME NEW n \in Nodes, NEW ds \in SUBSET Nodes, NEW m, AddNode(n, ds, m)
      PROVE  BatchInv'
  <2>1. Added \subseteq Added'
    BY <1>0, <1>1, ChangesAdd
  <2>2. QED
    BY <1>1, <2>1, BatchesAlone DEF AddNode, Changes, IsIdle, execution
<1>a. ASSUME NEW n \in Nodes, NEW l \in Nodes, AddNodeSharing(n, l) PROVE BatchInv'
  BY <1>0, <1>1, <1>a, AddingNodes
<1>2. ASSUME NEW n \in Nodes, NEW source \in Nodes, AddEdge(source, n) PROVE BatchInv'
  BY <1>2, BatchesAlone DEF AddEdge, Changes, IsIdle, Added, execution
<1>3. CASE Validate
  BY <1>3, BatchesAlone DEF Validate, IsIdle, graph, execution, Added
<1>4. CASE VisitNode \/ LeaveVisit
  BY <1>4, BatchesAlone DEF VisitNode, LeaveVisit, graph, execution, Added
<1>5. ASSUME NEW n \in Nodes, VisitDep(n) \/ SkipDep(n) \/ RefuseCycle(n) PROVE BatchInv'
  BY <1>5, BatchesAlone
     DEF VisitDep, SkipDep, RefuseCycle, LooksAt, graph, execution, Added
<1>6. CASE Run(Empty) \/ Run(state)
  BY <1>0, <1>6, RunBatches
<1>7. CASE Return \/ ExceedBudget
  BY <1>7, EndBatches
<1>8. CASE Gather
  BY <1>8, GatherBatches
<1>9. ASSUME NEW n \in Nodes, NodeStep(n) PROVE BatchInv'
  BY <1>9, BatchesAlone
     DEF NodeStep, Raise, ReturnsCopy, ReturnsOwn, Mutates, Cancelled,
         Finish, IsRunning, graph, Added
<1>10. ASSUME NEW n \in Nodes, Merge(n) PROVE BatchInv'
  BY <1>10, MergeBatches
<1>11. CASE UNCHANGED vars
  <2>1. UNCHANGED <<order, deps, pc, completed, ready, starts, batchOf, exceeded>>
    BY <1>11 DEF vars, graph, execution
  <2>2. UNCHANGED <<RunTypes, Added>>
    BY <2>1 DEF RunTypes, Added
  <2>3. QED
    BY <2>1, <2>2 DEF BatchInv
<1>12. QED
  BY <1>1, <1>a, <1>2, <1>3, <1>4, <1>5, <1>6, <1>7, <1>8, <1>9, <1>10, <1>11
     DEF Next, NodeStep

\* A run that returned has executed what it had to.
LEMMA BatchesMean ==
  ASSUME SearchTypes, BatchInv
  PROVE  ReturnedMeansAllRan
<1> SUFFICES ASSUME pc = "returned" PROVE ReturnedMeansAllRan
  BY DEF ReturnedMeansAllRan
<1>1. /\ ready = {} /\ Added \subseteq Nodes /\ (exceeded \/ completed = Added)
      /\ \A n \in Nodes : starts[n] = IF n \in completed THEN 1 ELSE 0
      /\ \A n \in completed : \A d \in deps[n] :
           d \in completed /\ batchOf[d] < batchOf[n]
  BY AddedType DEF BatchInv, SearchTypes
<1>2. completed \subseteq Nodes
  BY <1>1 DEF BatchInv, RunTypes
<1>3. QED
  BY <1>1, <1>2 DEF ReturnedMeansAllRan
-----------------------------------------------------------------------------
(* Dicts and results. *)

LEMMA SurviveOneByOne ==
  /\ ResultsSurvive <=> \A n \in completed : Survives(n)
  /\ ResultsSurvive' <=> \A n \in completed' : Survives(n)'
BY DEF ResultsSurvive, Survives, Earlier

\* A dict updated with another.
LEMMA Overlay ==
  ASSUME NEW N \in Nat, NEW S, NEW g \in [S -> 0..N], NEW f,
         DOMAIN f \subseteq S, \A x \in DOMAIN f : f[x] \in 1..N
  PROVE  /\ Over(f, g) \in [S -> 0..N]
         /\ \A x \in S : Over(f, g)[x] = IF x \in DOMAIN f THEN f[x] ELSE g[x]
BY DEF Over

LEMMA EmptyDict == DOMAIN <<>> = {}
OBVIOUS

\* What the merging of a result does to the state.
LEMMA ApplyType ==
  ASSUME StateTypes, NEW n \in Nodes, IsDict(results[n].out), IsDict(results[n].err)
  PROVE  LET r == results[n]
             s == Apply(state, n)
         IN  /\ s \in [out : [Nodes -> 0..runNo], err : [Nodes -> 0..runNo]]
             /\ r.raised => s.err[n] = runNo
             /\ \A x \in Nodes : s.out[x] =
                  IF ~r.raised /\ x \in DOMAIN r.out THEN r.out[x] ELSE state.out[x]
             /\ \A x \in Nodes \ {n} : s.err[x] =
                  IF ~r.raised /\ x \in DOMAIN r.err THEN r.err[x] ELSE state.err[x]
<1> DEFINE r == results[n]
           s == Apply(state, n)
<1>1. runNo \in Nat /\ state.out \in [Nodes -> 0..runNo] /\ state.err \in [Nodes -> 0..runNo]
  BY DEF StateTypes
<1>2. CASE r.raised
  <2>1. s = [state EXCEPT !.err[n] = runNo]
    BY <1>2 DEF Apply
  <2>2. s = [out |-> state.out, err |-> [state.err EXCEPT ![n] = runNo]]
    BY <2>1 DEF StateTypes
  <2>3. [state.err EXCEPT ![n] = runNo] \in [Nodes -> 0..runNo]
    BY <1>1
  <2> HIDE DEF r, s
  <2>4. /\ s \in [out : [Nodes -> 0..runNo], err : [Nodes -> 0..runNo]]
        /\ s.err[n] = runNo /\ s.out = state.out
        /\ \A x \in Nodes \ {n} : s.err[x] = state.err[x]
    BY <1>1, <2>2, <2>3
  <2>5. QED
    BY <1>2, <2>4 DEF r, s
<1>3. CASE ~r.raised
  <2> DEFINE o == Over(r.out, state.out)
             e == Over(r.err, state.err)
  <2>1. s = [out |-> o, err |-> e]
    BY <1>3 DEF Apply, Update
  <2>2. /\ o \in [Nodes -> 0..runNo]
        /\ \A x \in Nodes : o[x] = IF x \in DOMAIN r.out THEN r.out[x] ELSE state.out[x]
    BY <1>1, Overlay DEF IsDict
  <2>3. /\ e \in [Nodes -> 0..runNo]
        /\ \A x \in Nodes : e[x] = IF x \in DOMAIN r.err THEN r.err[x] ELSE state.err[x]
    BY <1>1, Overlay DEF IsDict
  <2> HIDE DEF o, e, s
  <2>4. /\ s \in [out : [Nodes -> 0..runNo], err : [Nodes -> 0..runNo]]
        /\ s.out = o /\ s.err = e
    BY <2>1, <2>2, <2>3
  <2>5. QED
    BY <1>3, <2>2, <2>3, <2>4 DEF s
<1>4. QED
  BY <1>2, <1>3

\* What is present in a dict.
LEMMA PresentType ==
  ASSUME runNo \in Nat, NEW keys \in [Nodes -> 0..runNo]
  PROVE  /\ IsDict(Present(keys))
         /\ \A n \in DOMAIN Present(keys) : Present(keys)[n] = keys[n]
BY DEF Present, IsDict
-----------------------------------------------------------------------------
(* The results and the state keep their account. *)

\* What nodes and their order say of each other, as the graph grows.
LEMMA FollowsGrows ==
  ASSUME \A i \in DOMAIN order : i \in DOMAIN order' /\ order'[i] = order[i],
         NEW m, NEW n, Follows(m, n)
  PROVE  Follows(m, n)'
BY DEF Follows

\* A node survives what leaves its keys alone.
LEMMA SurvivesAlone ==
  ASSUME NEW n \in completed, Survives(n), runNo' = runNo,
         state'.out[n] = state.out[n], state'.err[n] = state.err[n],
         completed \subseteq completed',
         \A m \in completed : answers'[m] = answers[m] /\ batchOf'[m] = batchOf[m],
         \A i \in DOMAIN order : i \in DOMAIN order' /\ order'[i] = order[i]
  PROVE  Survives(n)'
<1>1. CASE runNo \in {state.out[n], state.err[n]}
  BY <1>1 DEF Survives
<1>2. CASE /\ state.out[n] \in Earlier \/ state.err[n] \in Earlier
           /\ \E m \in completed \ {n} :
                /\ answers[m] = "copy" /\ batchOf[m] = batchOf[n]
                /\ Follows(m, n) \/ answers[n] = "wrote"
  <2>1. state'.out[n] \in Earlier' \/ state'.err[n] \in Earlier'
    BY <1>2 DEF Earlier
  <2>2. PICK m \in completed \ {n} :
          /\ answers[m] = "copy" /\ batchOf[m] = batchOf[n]
          /\ Follows(m, n) \/ answers[n] = "wrote"
    BY <1>2
  <2>3. Follows(m, n) => Follows(m, n)'
    BY FollowsGrows
  <2>4. m \in completed' \ {n} /\ answers'[m] = "copy" /\ batchOf'[m] = batchOf'[n]
    BY <2>2
  <2>5. Follows(m, n)' \/ answers'[n] = "wrote"
    BY <2>2, <2>3
  <2>6. QED
    BY <2>1, <2>4, <2>5 DEF Survives
<1>3. QED
  BY <1>1, <1>2 DEF Survives

\* Steps that leave the state and the results alone.
LEMMA ResultsAlone ==
  ASSUME ResultsInv, ResultsSurvive,
         UNCHANGED <<state, runNo, completed, given, ready, results, batchOf, answers>>,
         \A i \in DOMAIN order : i \in DOMAIN order' /\ order'[i] = order[i],
         pc' \in {"choosing", "running", "returned"} => pc \in {"choosing", "running", "returned"},
         pc' = "running" => pc = "running"
  PROVE  ResultsInv' /\ ResultsSurvive'
<1>1. StateTypes'
  BY DEF ResultsInv, StateTypes
<1>2. ASSUME NEW m \in ready \cap DOMAIN results PROVE SaysOfOthers(m)' /\ SaysOfItself(m)'
  <2>1. SaysOfOthers(m) /\ SaysOfItself(m)
    BY DEF ResultsInv
  <2>2. SaysOfOthers(m)'
    BY <2>1 DEF SaysOfOthers, IsDict
  <2>3. SaysOfItself(m)'
    BY <2>1 DEF SaysOfItself, Earlier
  <2>4. QED
    BY <2>2, <2>3
<1>3. \A n \in completed, m \in ready : batchOf[n] = batchOf[m] => Follows(m, n)'
  BY FollowsGrows DEF ResultsInv
<1>4. ASSUME NEW n \in completed PROVE Survives(n)'
  <2>1. Survives(n)
    BY SurviveOneByOne
  <2>2. QED
    BY <2>1, SurvivesAlone
<1>5. ResultsSurvive'
  BY <1>4, SurviveOneByOne
<1>6. GivenInv'
  BY DEF ResultsInv, GivenInv
<1>7. QED
  BY <1>1, <1>2, <1>3, <1>5, <1>6 DEF ResultsInv

LEMMA RunResults ==
  ASSUME BatchInv, ResultsInv, NEW s \in {Empty, state}, Run(s)
  PROVE  ResultsInv' /\ ResultsSurvive'
<1>1. /\ completed' = {} /\ ready' = {} /\ state' = s /\ runNo' = runNo + 1
      /\ given' = given /\ answers' = NoAnswers /\ pc' = "choosing"
  BY DEF Run, BatchInv
<1>2. StateTypes'
  <2>1. runNo \in Nat /\ state \in [out : [Nodes -> 0..runNo], err : [Nodes -> 0..runNo]]
    BY DEF ResultsInv, StateTypes
  <2>2. Nothing \in [Nodes -> 0..(runNo + 1)]
    BY <2>1 DEF Nothing
  <2>3. state.out \in [Nodes -> 0..(runNo + 1)] /\ state.err \in [Nodes -> 0..(runNo + 1)]
    BY <2>1
  <2>4. state' \in [out : [Nodes -> 0..(runNo + 1)], err : [Nodes -> 0..(runNo + 1)]]
    BY <1>1, <2>1, <2>2, <2>3 DEF Empty
  <2>5. QED
    BY <1>1, <2>1, <2>4 DEF StateTypes
<1>3. GivenInv'
  <2>1. runNo \in Nat /\ given \in [out : [Nodes -> 0..runNo], err : [Nodes -> 0..runNo]]
    BY DEF ResultsInv, StateTypes, GivenInv
  <2>2. given.out \in [Nodes -> 0..(runNo + 1)] /\ given.err \in [Nodes -> 0..(runNo + 1)]
    BY <2>1
  <2>3. given \in [out : [Nodes -> 0..(runNo + 1)], err : [Nodes -> 0..(runNo + 1)]]
    BY <2>1, <2>2
  <2>4. QED
    BY <1>1, <2>3 DEF GivenInv
<1>4. answers' \in [Nodes -> {"none", "raised", "own", "copy", "wrote"}]
  BY <1>1 DEF NoAnswers
<1>5. QED
  BY <1>1, <1>2, <1>3, <1>4 DEF ResultsInv, ResultsSurvive

LEMMA GatherResults ==
  ASSUME SearchInv, BatchInv, ResultsInv, ResultsSurvive, Gather
  PROVE  ResultsInv' /\ ResultsSurvive'
<1> DEFINE k == Cardinality(completed)
<1>1. /\ UNCHANGED <<order, answers, state, runNo, completed>> /\ given' = state
      /\ pc = "choosing" /\ results' = <<>> /\ ready' = Ready
      /\ batchOf' = [n \in Nodes |-> IF n \in Ready THEN k + 1 ELSE batchOf[n]]
  BY DEF Gather, graph
<1>2. /\ k \in Nat /\ \A n \in completed : batchOf[n] <= k /\ n \in Nodes
      /\ batchOf \in [Nodes -> Nat]
  BY FS_CardinalityType, AddedType DEF BatchInv, RunTypes, SearchInv, SearchTypes
<1>3. Ready \subseteq Nodes /\ \A n \in Ready : n \notin completed
  BY AddedType DEF Ready, IsReady, SearchInv, SearchTypes
<1> HIDE DEF k
<1>4. \A n \in completed : batchOf'[n] = batchOf[n] /\ batchOf'[n] <= k
  BY <1>1, <1>2, <1>3
<1>5. \A m \in Ready : batchOf'[m] = k + 1
  BY <1>1, <1>3
<1>6. \A n \in completed, m \in Ready : batchOf'[n] # batchOf'[m]
  BY <1>2, <1>4, <1>5
<1>7. StateTypes'
  BY <1>1 DEF ResultsInv, StateTypes
<1>8. ASSUME NEW n \in completed PROVE Survives(n)'
  <2>1. Survives(n)
    BY SurviveOneByOne
  <2>2. QED
    BY <1>1, <1>4, <2>1, SurvivesAlone
<1>9. ResultsSurvive'
  BY <1>1, <1>8, SurviveOneByOne
<1>10. DOMAIN results' = {}
  BY <1>1, EmptyDict
<1>11. GivenInv'
  BY <1>1 DEF ResultsInv, StateTypes, GivenInv
<1>12. QED
  BY <1>1, <1>6, <1>7, <1>9, <1>10, <1>11 DEF ResultsInv

\* A result that a node adds, without a change of the state.
LEMMA FinishResults ==
  ASSUME ResultsInv, ResultsSurvive, ready \cup completed \subseteq Nodes, NEW n \in ready \ completed, NEW r,
         NEW a \in {"raised", "own", "copy"}, Finish(n, a, r), UNCHANGED state,
         IsDict(r.out), IsDict(r.err),
         n \in DOMAIN r.out => r.out[n] = runNo,
         a # "copy" => DOMAIN r.out \subseteq {n} /\ DOMAIN r.err = {},
         \A m \in completed :
           /\ m \in DOMAIN r.out => m = n \/ r.out[m] = state.out[m]
           /\ m \in DOMAIN r.err => r.err[m] = state.err[m],
         r.raised \/ n \in DOMAIN r.out
  PROVE  ResultsInv' /\ ResultsSurvive'
<1>1. /\ UNCHANGED <<order, pc, runNo, completed, given, ready, batchOf>>
      /\ results' = Over(Entry(n, r), results)
      /\ answers' = [answers EXCEPT ![n] = a]
  BY DEF Finish, graph
<1>a. /\ answers' \in [Nodes -> {"none", "raised", "own", "copy", "wrote"}]
      /\ answers'[n] = a
      /\ \A m \in Nodes : m # n => answers'[m] = answers[m]
  BY <1>1 DEF ResultsInv
<1>2. /\ DOMAIN results' = {n} \cup DOMAIN results /\ results'[n] = r
      /\ \A m \in DOMAIN results : m # n => results'[m] = results[m]
  <2>1. /\ DOMAIN Over(Entry(n, r), results) = {n} \cup DOMAIN results
        /\ Over(Entry(n, r), results)[n] = r
        /\ \A m \in DOMAIN results : m # n => Over(Entry(n, r), results)[m] = results[m]
    BY DEF Entry, Over
  <2>2. QED
    BY <1>1, <2>1
<1>3. StateTypes'
  BY <1>1 DEF ResultsInv, StateTypes
<1>4. ASSUME NEW m \in ready \cap DOMAIN results' PROVE SaysOfOthers(m)' /\ SaysOfItself(m)'
  <2>1. CASE m = n
    <3>1. SaysOfOthers(m)'
      BY <1>1, <1>a, <1>2, <2>1 DEF SaysOfOthers, IsDict
    <3>2. SaysOfItself(m)'
      BY <1>2, <2>1 DEF SaysOfItself
    <3>3. QED
      BY <3>1, <3>2
  <2>2. CASE m # n
    <3>1. SaysOfOthers(m) /\ SaysOfItself(m) /\ results'[m] = results[m]
      BY <1>2, <2>2 DEF ResultsInv
    <3>2. SaysOfOthers(m)'
      BY <1>1, <1>a, <2>2, <3>1 DEF SaysOfOthers, IsDict
    <3>3. SaysOfItself(m)'
      BY <1>1, <1>a, <2>2, <3>1 DEF SaysOfItself, Earlier
    <3>4. QED
      BY <3>2, <3>3
  <2>3. QED
    BY <2>1, <2>2
<1>5. \A l \in completed, m \in ready : batchOf[l] = batchOf[m] => Follows(m, l)'
  BY <1>1, FollowsGrows DEF ResultsInv
<1>6. ASSUME NEW m \in completed PROVE Survives(m)'
  <2>1. Survives(m)
    BY SurviveOneByOne
  <2>2. QED
    BY <1>1, <1>a, <2>1, SurvivesAlone
<1>7. ResultsSurvive'
  BY <1>1, <1>6, SurviveOneByOne
<1>8. GivenInv'
  BY <1>1, <1>2 DEF ResultsInv, GivenInv
<1>9. QED
  BY <1>1, <1>a, <1>3, <1>4, <1>5, <1>7, <1>8 DEF ResultsInv

\* What a running node is.
LEMMA RunningNode ==
  ASSUME SearchInv, BatchInv, ResultsInv, NEW n \in Nodes, IsRunning(n)
  PROVE  /\ n \in ready /\ n \notin completed
         /\ runNo \in Nat /\ runNo > 0
         /\ state.out \in [Nodes -> 0..runNo] /\ state.err \in [Nodes -> 0..runNo]
         /\ ready \cup completed \subseteq Nodes
<1>1. n \in ready /\ n \notin completed
  BY DEF IsRunning, BatchInv
<1>2. /\ runNo \in Nat /\ runNo > 0
      /\ state.out \in [Nodes -> 0..runNo] /\ state.err \in [Nodes -> 0..runNo]
  BY DEF IsRunning, ResultsInv, StateTypes
<1>3. ready \cup completed \subseteq Nodes
  BY AddedType DEF BatchInv, RunTypes, SearchInv, SearchTypes
<1>4. QED
  BY <1>1, <1>2, <1>3

\* A node that returns its own key, or raises.
LEMMA OwnResult ==
  ASSUME SearchInv, BatchInv, ResultsInv, ResultsSurvive, NEW n \in Nodes,
         NEW cost, Raise(n) \/ ReturnsOwn(n, cost) \/ Cancelled(n)
  PROVE  ResultsInv' /\ ResultsSurvive'
<1>1. IsRunning(n) /\ UNCHANGED state
  BY DEF Raise, ReturnsOwn, Cancelled, Finish
<1>2. /\ n \in ready /\ n \notin completed /\ runNo \in Nat /\ runNo > 0
      /\ ready \cup completed \subseteq Nodes
  BY <1>1, RunningNode
<1>3. CASE Raise(n)
  <2> DEFINE r == Result(TRUE, <<>>, <<>>, 0)
  <2>1. r.raised /\ r.out = <<>> /\ r.err = <<>>
    BY DEF Result
  <2>2. Finish(n, "raised", r)
    BY <1>3 DEF Raise
  <2> HIDE DEF r
  <2>3. IsDict(<<>>) /\ DOMAIN <<>> = {}
    BY EmptyDict DEF IsDict
  <2>4. QED
    BY <1>1, <1>2, <2>1, <2>2, <2>3, FinishResults
<1>4. CASE ReturnsOwn(n, cost) \/ Cancelled(n)
  <2>0. PICK r : /\ Finish(n, "own", r)
                 /\ r.out = Entry(n, runNo) /\ r.err = <<>>
    <3>1. PICK paid \in {cost, 0} : Finish(n, "own", Result(FALSE, Entry(n, runNo), <<>>, paid))
      BY <1>4 DEF ReturnsOwn, Cancelled
    <3>2. QED
      BY <3>1 DEF Result
  <2>1. r.out = Entry(n, runNo) /\ r.err = <<>>
    BY <2>0
  <2>2. Finish(n, "own", r)
    BY <2>0
  <2>3. DOMAIN r.out = {n} /\ r.out[n] = runNo /\ DOMAIN r.err = {}
    BY <2>1, EmptyDict DEF Entry
  <2>4. IsDict(r.out) /\ IsDict(r.err)
    BY <1>2, <2>3 DEF IsDict
  <2>5. QED
    BY <1>1, <1>2, <2>2, <2>3, <2>4, FinishResults
<1>5. QED
  BY <1>3, <1>4

\* A node returns its key, and a copy of the dict.
LEMMA CopyResult ==
  ASSUME SearchInv, BatchInv, ResultsInv, ResultsSurvive, NEW n \in Nodes,
         NEW dict \in {given, state}, NEW cost, ReturnsCopy(n, dict, cost)
  PROVE  ResultsInv' /\ ResultsSurvive'
<1>1. Finish(n, "copy", Result(FALSE, Over(Entry(n, runNo), Present(dict.out)),
                               Present(dict.err), cost))
  BY DEF ReturnsCopy
<1>2. IsRunning(n) /\ UNCHANGED state
  BY DEF ReturnsCopy, Finish
<1>3. /\ n \in ready /\ n \notin completed /\ runNo \in Nat /\ runNo > 0
      /\ ready \cup completed \subseteq Nodes
      /\ state.out \in [Nodes -> 0..runNo] /\ state.err \in [Nodes -> 0..runNo]
  BY <1>2, RunningNode
<1>c. /\ dict.out \in [Nodes -> 0..runNo] /\ dict.err \in [Nodes -> 0..runNo]
      /\ \A m \in completed : dict.out[m] = state.out[m] /\ dict.err[m] = state.err[m]
  <2>1. CASE dict = state
    BY <1>3, <2>1
  <2>2. CASE dict = given
    BY <1>2, <2>2 DEF ResultsInv, GivenInv, IsRunning
  <2>3. QED
    BY <2>1, <2>2
<1> DEFINE o == Over(Entry(n, runNo), Present(dict.out))
           r == Result(FALSE, o, Present(dict.err), cost)
<1>4. r.out = o /\ r.err = Present(dict.err) /\ Finish(n, "copy", r)
  BY <1>1 DEF Result
<1>5. /\ IsDict(Present(dict.out)) /\ IsDict(Present(dict.err))
      /\ \A m \in DOMAIN Present(dict.out) : Present(dict.out)[m] = dict.out[m]
      /\ \A m \in DOMAIN Present(dict.err) : Present(dict.err)[m] = dict.err[m]
  BY <1>3, <1>c, PresentType
<1>6. /\ DOMAIN o = {n} \cup DOMAIN Present(dict.out) /\ o[n] = runNo
      /\ \A m \in DOMAIN Present(dict.out) : m # n => o[m] = Present(dict.out)[m]
  BY DEF Entry, Over
<1> HIDE DEF o, r
<1>7. ASSUME NEW m \in DOMAIN o, m # n
      PROVE  m \in DOMAIN Present(dict.out) /\ o[m] = dict.out[m]
  <2>1. m \in DOMAIN Present(dict.out)
    BY <1>6, <1>7
  <2>2. QED
    BY <1>5, <1>6, <1>7, <2>1
<1>8. IsDict(o)
  <2>1. DOMAIN o \subseteq Nodes
    BY <1>5, <1>6 DEF IsDict
  <2>2. ASSUME NEW m \in DOMAIN o PROVE o[m] \in 1..runNo
    <3>1. CASE m = n
      BY <1>3, <1>6, <3>1
    <3>2. CASE m # n
      BY <1>5, <1>6, <3>2 DEF IsDict
    <3>3. QED
      BY <3>1, <3>2
  <2>3. QED
    BY <2>1, <2>2 DEF IsDict
<1>9. QED
  BY <1>2, <1>3, <1>c, <1>4, <1>5, <1>6, <1>7, <1>8, FinishResults

\* A function writes its key into the state itself.
LEMMA MutatedState ==
  ASSUME SearchInv, BatchInv, ResultsInv, ResultsSurvive, NEW n \in Nodes,
         NEW cost, Mutates(n, cost)
  PROVE  ResultsInv' /\ ResultsSurvive'
<1> DEFINE r == Result(FALSE, <<>>, <<>>, cost)
<1>1. /\ IsRunning(n) /\ Finish(n, "wrote", r)
      /\ state' = [state EXCEPT !.out[n] = runNo]
  BY DEF Mutates, Finish
<1>2. /\ n \in ready /\ n \notin completed /\ runNo \in Nat /\ runNo > 0
      /\ state.out \in [Nodes -> 0..runNo] /\ state.err \in [Nodes -> 0..runNo]
      /\ ready \cup completed \subseteq Nodes
  BY <1>1, RunningNode
<1>3. DOMAIN r.out = {} /\ DOMAIN r.err = {} /\ IsDict(r.out) /\ IsDict(r.err)
  BY EmptyDict DEF Result, IsDict
<1>4. /\ UNCHANGED <<order, pc, runNo, completed, given, ready, batchOf>>
      /\ results' = Over(Entry(n, r), results)
      /\ answers' = [answers EXCEPT ![n] = "wrote"]
  BY <1>1 DEF Finish, graph
<1>a. /\ answers' \in [Nodes -> {"none", "raised", "own", "copy", "wrote"}]
      /\ answers'[n] = "wrote"
      /\ \A m \in Nodes : m # n => answers'[m] = answers[m]
  BY <1>4 DEF ResultsInv
<1> HIDE DEF r
<1>5. /\ DOMAIN results' = {n} \cup DOMAIN results /\ results'[n] = r
      /\ \A m \in DOMAIN results : m # n => results'[m] = results[m]
  BY <1>4 DEF Entry, Over
<1>6. /\ state' = [out |-> [state.out EXCEPT ![n] = runNo], err |-> state.err]
  BY <1>1 DEF ResultsInv, StateTypes
<1>7. /\ state'.out[n] = runNo /\ state'.err = state.err
      /\ \A m \in Nodes : m # n => state'.out[m] = state.out[m]
      /\ state' \in [out : [Nodes -> 0..runNo], err : [Nodes -> 0..runNo]]
  BY <1>2, <1>6
<1>8. StateTypes'
  BY <1>4, <1>7 DEF ResultsInv, StateTypes
<1>9. \A m \in completed : state'.out[m] = state.out[m] /\ state'.err[m] = state.err[m]
  BY <1>2, <1>7
<1>10. ASSUME NEW m \in ready \cap DOMAIN results' PROVE SaysOfOthers(m)' /\ SaysOfItself(m)'
  <2>1. CASE m = n
    <3>1. SaysOfOthers(m)'
      BY <1>3, <1>4, <1>5, <2>1 DEF SaysOfOthers, IsDict
    <3>2. SaysOfItself(m)'
      BY <1>1, <1>4, <1>a, <1>7, <2>1 DEF SaysOfItself
    <3>3. QED
      BY <3>1, <3>2
  <2>2. CASE m # n
    <3>1. SaysOfOthers(m) /\ SaysOfItself(m) /\ results'[m] = results[m]
      BY <1>5, <2>2 DEF ResultsInv
    <3>2. SaysOfOthers(m)'
      BY <1>2, <1>4, <1>a, <1>9, <2>2, <3>1 DEF SaysOfOthers, IsDict
    <3>3. m \in Nodes /\ state'.out[m] = state.out[m]
      BY <1>7, <2>2, AddedType DEF BatchInv, RunTypes, SearchInv, SearchTypes
    <3>4. SaysOfItself(m)'
      BY <1>2, <1>4, <1>a, <2>2, <3>1, <3>3 DEF SaysOfItself, Earlier
    <3>5. QED
      BY <3>2, <3>4
  <2>3. QED
    BY <2>1, <2>2
<1>11. \A l \in completed, m \in ready : batchOf[l] = batchOf[m] => Follows(m, l)'
  BY <1>4, FollowsGrows DEF ResultsInv
<1>12. ASSUME NEW m \in completed PROVE Survives(m)'
  <2>1. Survives(m)
    BY SurviveOneByOne
  <2>2. QED
    BY <1>2, <1>4, <1>a, <1>9, <2>1, SurvivesAlone
<1>13. ResultsSurvive'
  BY <1>4, <1>12, SurviveOneByOne
<1>14. GivenInv'
  BY <1>4, <1>5, <1>9 DEF ResultsInv, GivenInv
<1>15. QED
  BY <1>4, <1>a, <1>14, <1>8, <1>10, <1>11, <1>13 DEF ResultsInv

\* What a node's result makes of the keys of a node merged before.
LEMMA MergedBeforeSurvives ==
  ASSUME SearchInv, BatchInv, ResultsInv, NEW n \in Nodes, Merge(n),
         NEW l \in completed, Survives(l)
  PROVE  Survives(l)'
<1> DEFINE r == results[n]
<1>1. /\ UNCHANGED <<order, answers, runNo, batchOf>> /\ n \in ready /\ n \in DOMAIN results
      /\ state' = Apply(state, n) /\ completed' = completed \cup {n}
  BY DEF Merge, IsFirst, graph
<1>2. SaysOfOthers(n) /\ StateTypes
  BY <1>1 DEF ResultsInv
<1>3. /\ l \in Nodes /\ l # n /\ completed \subseteq completed'
  BY <1>1, AddedType DEF BatchInv, RunTypes, SearchInv, SearchTypes
<1>4. IsDict(r.out) /\ IsDict(r.err)
  BY <1>2 DEF SaysOfOthers
<1>5. /\ state'.out[l] = IF ~r.raised /\ l \in DOMAIN r.out THEN r.out[l] ELSE state.out[l]
      /\ state'.err[l] = IF ~r.raised /\ l \in DOMAIN r.err THEN r.err[l] ELSE state.err[l]
  BY <1>1, <1>2, <1>3, <1>4, ApplyType
<1>6. CASE state'.out[l] = state.out[l] /\ state'.err[l] = state.err[l]
  BY <1>1, <1>3, <1>6, SurvivesAlone
<1>7. CASE ~(state'.out[l] = state.out[l] /\ state'.err[l] = state.err[l])
  <2>1. answers[n] = "copy" /\ batchOf[l] = batchOf[n] /\ Follows(n, l)
    <3>1. answers[n] = "copy"
      BY <1>2, <1>3, <1>5, <1>7 DEF SaysOfOthers
    <3>2. batchOf[l] = batchOf[n]
      BY <1>2, <1>5, <1>7 DEF SaysOfOthers
    <3>3. QED
      BY <1>1, <3>1, <3>2 DEF ResultsInv
  <2>2. \/ l \in DOMAIN r.out /\ state'.out[l] = r.out[l]
        \/ l \in DOMAIN r.err /\ state'.err[l] = r.err[l]
    BY <1>5, <1>7
  <2>3. runNo \in Nat /\ (state'.out[l] \in 1..runNo \/ state'.err[l] \in 1..runNo)
    BY <1>2, <1>4, <2>2 DEF IsDict, StateTypes
  <2>4. \/ runNo \in {state'.out[l], state'.err[l]}
        \/ state'.out[l] \in Earlier \/ state'.err[l] \in Earlier
    BY <2>3 DEF Earlier
  <2>5. n \in completed' \ {l} /\ answers'[n] = "copy" /\ batchOf'[n] = batchOf'[l] /\ Follows(n, l)'
    BY <1>1, <1>3, <2>1 DEF Follows
  <2>6. QED
    BY <1>1, <2>4, <2>5 DEF Survives, Earlier
<1>8. QED
  BY <1>6, <1>7

\* The node whose result is merged survives it.
LEMMA MergedSurvives ==
  ASSUME SearchInv, BatchInv, ResultsInv, NEW n \in Nodes, Merge(n)
  PROVE  Survives(n)'
<1> DEFINE r == results[n]
<1>1. /\ UNCHANGED <<order, answers, runNo, batchOf>> /\ n \in ready /\ n \in DOMAIN results
      /\ state' = Apply(state, n) /\ completed' = completed \cup {n}
  BY DEF Merge, IsFirst, graph
<1>2. SaysOfOthers(n) /\ SaysOfItself(n) /\ StateTypes /\ n \notin completed
  BY <1>1 DEF ResultsInv, BatchInv
<1>3. IsDict(r.out) /\ IsDict(r.err)
  BY <1>2 DEF SaysOfOthers
<1>4. CASE r.raised
  <2>1. state'.err[n] = runNo
    BY <1>1, <1>2, <1>3, <1>4, ApplyType
  <2>2. QED
    BY <1>1, <2>1 DEF Survives
<1>5. CASE ~r.raised /\ n \in DOMAIN r.out
  <2>1. state'.out[n] = r.out[n] /\ r.out[n] = runNo
    BY <1>1, <1>2, <1>3, <1>5, ApplyType DEF SaysOfOthers
  <2>2. QED
    BY <1>1, <2>1 DEF Survives
<1>6. CASE ~r.raised /\ n \notin DOMAIN r.out
  <2>1. state'.out[n] = state.out[n] /\ answers[n] = "wrote"
    BY <1>1, <1>2, <1>3, <1>6, ApplyType DEF SaysOfItself
  <2>2. CASE state.out[n] = runNo
    BY <1>1, <2>1, <2>2 DEF Survives
  <2>3. CASE /\ state.out[n] \in Earlier
             /\ \E m \in completed : answers[m] = "copy" /\ batchOf[m] = batchOf[n]
    <3>1. PICK m \in completed : answers[m] = "copy" /\ batchOf[m] = batchOf[n]
      BY <2>3
    <3>2. m \in completed' \ {n} /\ answers'[m] = "copy" /\ batchOf'[m] = batchOf'[n]
      BY <1>1, <1>2, <3>1
    <3>3. QED
      BY <1>1, <2>1, <2>3, <3>2 DEF Survives, Earlier
  <2>4. QED
    BY <1>2, <1>6, <2>2, <2>3 DEF SaysOfItself
<1>7. QED
  BY <1>4, <1>5, <1>6

\* The results that wait for theirs to be merged.
LEMMA WaitingResults ==
  ASSUME SearchInv, BatchInv, ResultsInv, NEW n \in Nodes, Merge(n),
         NEW m \in ready \ {n}, m \in DOMAIN results, results' = results
  PROVE  SaysOfOthers(m)' /\ SaysOfItself(m)'
<1> DEFINE r == results[n]
<1>1. /\ UNCHANGED <<order, answers, runNo, batchOf>> /\ n \in ready /\ n \in DOMAIN results
      /\ state' = Apply(state, n) /\ completed' = completed \cup {n}
  BY DEF Merge, IsFirst, graph
<1>2. /\ SaysOfOthers(n) /\ StateTypes /\ n \notin completed
      /\ SaysOfOthers(m) /\ SaysOfItself(m)
  BY <1>1 DEF ResultsInv, BatchInv
<1>3. /\ completed \subseteq Nodes /\ m \in Nodes /\ m # n /\ batchOf[m] = batchOf[n]
  BY <1>1, AddedType DEF BatchInv, RunTypes, SearchInv, SearchTypes
<1>4. IsDict(r.out) /\ IsDict(r.err)
  BY <1>2 DEF SaysOfOthers
<1>5. \A x \in Nodes \ {n} :
        /\ state'.out[x] = IF ~r.raised /\ x \in DOMAIN r.out THEN r.out[x] ELSE state.out[x]
        /\ state'.err[x] = IF ~r.raised /\ x \in DOMAIN r.err THEN r.err[x] ELSE state.err[x]
  BY <1>1, <1>2, <1>4, ApplyType
<1>6. SaysOfOthers(m)'
  <2>1. ASSUME NEW l \in completed', batchOf[l] # batchOf[m]
        PROVE  /\ l \in completed /\ batchOf[l] # batchOf[n]
               /\ state'.out[l] = state.out[l] /\ state'.err[l] = state.err[l]
    <3>1. l \in completed /\ l \in Nodes /\ l # n /\ batchOf[l] # batchOf[n]
      BY <1>1, <1>2, <1>3, <2>1
    <3>2. /\ l \in DOMAIN r.out => r.out[l] = state.out[l]
          /\ l \in DOMAIN r.err => r.err[l] = state.err[l]
      BY <1>2, <3>1 DEF SaysOfOthers
    <3>3. QED
      BY <1>5, <3>1, <3>2
  <2>2. QED
    BY <1>1, <1>2, <2>1 DEF SaysOfOthers, IsDict
<1>7. SaysOfItself(m)'
  <2>1. CASE results[m].raised \/ m \in DOMAIN results[m].out
    BY <2>1 DEF SaysOfItself
  <2>2. CASE ~(results[m].raised \/ m \in DOMAIN results[m].out)
    <3>1. /\ answers[m] = "wrote"
          /\ \/ state.out[m] = runNo
             \/ /\ state.out[m] \in Earlier
                /\ \E l \in completed : answers[l] = "copy" /\ batchOf[l] = batchOf[m]
      BY <1>2, <2>2 DEF SaysOfItself
    <3>2. CASE state'.out[m] = state.out[m]
      BY <1>1, <3>1, <3>2 DEF SaysOfItself, Earlier
    <3>3. CASE state'.out[m] # state.out[m]
      <4>1. m \in DOMAIN r.out /\ state'.out[m] = r.out[m]
        BY <1>3, <1>5, <3>3
      <4>2. answers[n] = "copy" /\ n \in completed' /\ batchOf[n] = batchOf[m]
        BY <1>1, <1>2, <1>3, <4>1 DEF SaysOfOthers
      <4>3. runNo \in Nat /\ state'.out[m] \in 1..runNo
        BY <1>2, <1>4, <4>1 DEF IsDict, StateTypes
      <4>4. state'.out[m] = runNo \/ state'.out[m] \in Earlier
        BY <4>3 DEF Earlier
      <4>5. QED
        BY <1>1, <3>1, <4>2, <4>4 DEF SaysOfItself, Earlier
    <3>4. QED
      BY <3>2, <3>3
  <2>3. QED
    BY <2>1, <2>2
<1>8. QED
  BY <1>6, <1>7

LEMMA MergeResults ==
  ASSUME SearchInv, BatchInv, ResultsInv, ResultsSurvive, NEW n \in Nodes, Merge(n)
  PROVE  ResultsInv' /\ ResultsSurvive'
<1>1. /\ UNCHANGED <<order, answers, runNo, batchOf>> /\ n \in ready /\ n \in DOMAIN results
      /\ state' = Apply(state, n) /\ completed' = completed \cup {n}
      /\ ready' = ready \ {n} /\ pc = "running"
      /\ \/ ready' = {} /\ pc' = "choosing" /\ given' = Empty
         \/ results' = results /\ given' = given
      /\ ready \subseteq DOMAIN results
      /\ \A m \in ready \ {n} : Follows(m, n)
  BY DEF Merge, IsFirst, graph
<1>2. StateTypes'
  <2>1. StateTypes /\ IsDict(results[n].out) /\ IsDict(results[n].err)
    BY <1>1 DEF ResultsInv, SaysOfOthers
  <2>2. state' \in [out : [Nodes -> 0..runNo], err : [Nodes -> 0..runNo]]
    BY <1>1, <2>1, ApplyType
  <2>3. QED
    BY <1>1, <2>1, <2>2 DEF StateTypes
<1>3. ASSUME NEW m \in ready' \cap DOMAIN results' PROVE SaysOfOthers(m)' /\ SaysOfItself(m)'
  <2>1. m \in ready \ {n} /\ results' = results /\ m \in DOMAIN results
    BY <1>1
  <2>2. QED
    BY <2>1, WaitingResults
<1>4. ASSUME NEW l \in completed', NEW m \in ready', batchOf'[l] = batchOf'[m]
      PROVE  Follows(m, l)'
  <2>1. Follows(m, l)
    BY <1>1, <1>4 DEF ResultsInv
  <2>2. QED
    BY <1>1, <2>1 DEF Follows
<1>5. ASSUME NEW l \in completed' PROVE Survives(l)'
  <2>1. CASE l = n
    BY <2>1, MergedSurvives
  <2>2. CASE l # n
    <3>1. l \in completed /\ Survives(l)
      BY <1>1, <2>2, SurviveOneByOne
    <3>2. QED
      BY <3>1, MergedBeforeSurvives
  <2>3. QED
    BY <2>1, <2>2
<1>6. ResultsSurvive'
  BY <1>5, SurviveOneByOne
<1>7. GivenInv'
  <2>1. runNo \in Nat /\ Empty \in [out : [Nodes -> 0..runNo], err : [Nodes -> 0..runNo]]
    BY DEF ResultsInv, StateTypes, Empty, Nothing
  <2>2. QED
    BY <1>1, <2>1 DEF ResultsInv, GivenInv
<1>8. QED
  BY <1>1, <1>2, <1>3, <1>4, <1>6, <1>7 DEF ResultsInv

LEMMA InitResults == Init => ResultsInv /\ ResultsSurvive
<1> SUFFICES ASSUME Init PROVE ResultsInv /\ ResultsSurvive
  OBVIOUS
<1>1. /\ completed = {} /\ ready = {} /\ state = Empty /\ runNo = 0 /\ pc = "building"
      /\ given = Empty /\ answers = NoAnswers
  BY DEF Init
<1>2. StateTypes /\ GivenInv
  BY <1>1 DEF StateTypes, GivenInv, Empty, Nothing
<1>3. answers \in [Nodes -> {"none", "raised", "own", "copy", "wrote"}]
  BY <1>1 DEF NoAnswers
<1>4. QED
  BY <1>1, <1>2, <1>3 DEF ResultsInv, ResultsSurvive

LEMMA NextResults ==
  SearchInv /\ BatchInv /\ ResultsInv /\ ResultsSurvive /\ [Next]_vars
    => ResultsInv' /\ ResultsSurvive'
<1> SUFFICES ASSUME SearchInv, BatchInv, ResultsInv, ResultsSurvive, [Next]_vars
             PROVE  ResultsInv' /\ ResultsSurvive'
  OBVIOUS
<1> DEFINE Kept == ResultsInv' /\ ResultsSurvive'
           Same == UNCHANGED <<state, runNo, completed, given, ready, results, batchOf, answers>>
<1>0. SearchTypes /\ completed \subseteq Added /\ (pc # "running" => ready = {})
  BY DEF SearchInv, BatchInv, RunTypes
<1>1. ASSUME NEW n \in Nodes, NEW ds \in SUBSET Nodes, NEW m, AddNode(n, ds, m)
      PROVE  Kept
  <2>1. Same /\ pc' = "building"
    BY <1>1 DEF AddNode, Changes, execution
  <2>2. \A i \in DOMAIN order : i \in DOMAIN order' /\ order'[i] = order[i]
    BY <1>0, <1>1, ChangesAdd
  <2>3. QED
    BY <2>1, <2>2, ResultsAlone
<1>a. ASSUME NEW n \in Nodes, NEW l \in Nodes, AddNodeSharing(n, l) PROVE Kept
  BY <1>0, <1>1, <1>a, AddingNodes
<1>2. ASSUME NEW n \in Nodes, NEW source \in Nodes, AddEdge(source, n) PROVE Kept
  BY <1>2, ResultsAlone DEF AddEdge, Changes, execution
<1>3. CASE Validate
  BY <1>3, ResultsAlone DEF Validate, graph, execution
<1>4. CASE VisitNode \/ LeaveVisit
  BY <1>4, ResultsAlone DEF VisitNode, LeaveVisit, graph, execution
<1>5. ASSUME NEW n \in Nodes, VisitDep(n) \/ SkipDep(n) \/ RefuseCycle(n) PROVE Kept
  BY <1>5, ResultsAlone DEF VisitDep, SkipDep, RefuseCycle, graph, execution
<1>6. CASE Run(Empty) \/ Run(state)
  BY <1>6, RunResults
<1>7. CASE Return \/ ExceedBudget
  BY <1>7, ResultsAlone DEF Return, ExceedBudget, graph, execution
<1>8. CASE Gather
  BY <1>8, GatherResults
<1>9. ASSUME NEW n \in Nodes, NodeStep(n) PROVE Kept
  BY <1>9, OwnResult, CopyResult, MutatedState DEF NodeStep
<1>10. ASSUME NEW n \in Nodes, Merge(n) PROVE Kept
  BY <1>10, MergeResults
<1>11. CASE UNCHANGED vars
  BY <1>11, ResultsAlone DEF vars, graph, execution
<1>12. QED
  BY <1>1, <1>a, <1>2, <1>3, <1>4, <1>5, <1>6, <1>7, <1>8, <1>9, <1>10, <1>11
     DEF Next, NodeStep
-----------------------------------------------------------------------------
(* What Dag promises. *)

\* The search, the batches and the results are accounted for at every point, of
\* any graph that is built, run, extended and run again (dag.py:45-125).
THEOREM DagInvariant == Spec => []DagInv
<1>1. Init => DagInv
  BY InitSearch, InitBatches, InitResults DEF DagInv
<1>2. DagInv /\ [Next]_vars => DagInv'
  BY NextSearch, NextBatches, NextResults DEF DagInv
<1>3. QED
  BY <1>1, <1>2, PTL DEF Spec

\* A run that returned within its budget has executed every node exactly once,
\* and every node after all it depends on (dag.py:83-125).
THEOREM AllNodesRun == Spec => []ReturnedMeansAllRan
<1>1. DagInv => ReturnedMeansAllRan
  BY BatchesMean DEF DagInv, SearchInv
<1>2. QED
  BY <1>1, DagInvariant, PTL

\* Validation is exact: what it refuses as a cycle is one, and it never lets a
\* graph with a cycle run (dag.py:61-86).
THEOREM ValidationIsExact ==
  Spec => [][/\ \A d \in Nodes : RefuseCycle(d) => HasCycle
             /\ \A s \in {Empty, state} : Run(s) => ~HasCycle]_vars
<1>1. DagInv /\ [Next]_vars =>
        [/\ \A d \in Nodes : RefuseCycle(d) => HasCycle
         /\ \A s \in {Empty, state} : Run(s) => ~HasCycle]_vars
  BY OutcomeOfSearch DEF DagInv
<1>2. QED
  BY <1>1, DagInvariant, PTL DEF Spec

\* The loop's way out for a batch without nodes is never taken: run ends with
\* every node completed, or at its budget (dag.py:92-103).
THEOREM EveryRunCompletes == Spec => [][Return => completed = Added]_vars
<1>1. DagInv /\ [Next]_vars => [Return => completed = Added]_vars
  <2> SUFFICES ASSUME DagInv, Return PROVE completed = Added
    OBVIOUS
  <2>1. Grounded(Added) /\ completed \subseteq Added /\ IsOver
    BY DEF DagInv, SearchInv, BatchInv, RunTypes, Return
  <2>2. QED
    BY <2>1, SomeNodeIsReady DEF IsOver
<1>2. QED
  BY <1>1, DagInvariant, PTL DEF Spec

\* What a completed node wrote stays in the state, but for a key of an earlier
\* run that a copy from its batch puts back (dag.py:105-123, 139-157).
THEOREM ResultsStay == Spec => []ResultsSurvive
<1>1. DagInv => ResultsSurvive
  BY DEF DagInv
<1>2. QED
  BY <1>1, DagInvariant, PTL
==============================================================================
