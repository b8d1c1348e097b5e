--------------------------- MODULE ExecutionProofs ---------------------------
(***************************************************************************)
(* Theorems about the execution engine, for every schema that satisfies    *)
(* the assumptions of module Execution, every number of nodes, and every   *)
(* interleaving of calls; and about the partitions of exclusive splits,    *)
(* for decisions of any number of branches with any bounds or texts.       *)
(***************************************************************************)
EXTENDS Execution, Decisions, WellFoundedInduction, TLAPS

-----------------------------------------------------------------------------
(* The fixpoint equation has a solution.                                   *)

LEMMA LeastNumber ==
  ASSUME NEW S \in SUBSET Nat, S # {}
  PROVE  \E k \in S : \A j \in S : k <= j
<1> DEFINE R == OpToRel(<, Nat)
<1>1. \E k \in S : \A j \in S : ~ (<<j, k>> \in R)
  <2>1. IsWellFoundedOn(R, Nat)
    BY NatLessThanWellFounded
  <2> HIDE DEF R
  <2>2. QED  BY <2>1, WFMin
<1>2. R = {p \in Nat \X Nat : p[1] < p[2]}
  BY Zenon DEF OpToRel
<1> HIDE DEF R
<1>3. \A j, k \in S : ~ (<<j, k>> \in R) => k <= j
  BY <1>2
<1>4. QED  BY <1>1, <1>3

(* A marking equation looks at nothing but the node's predecessors.        *)
LEMMA NextMarkLocal ==
  \A n \in Nodes : \A f, g, ns0, v, inPlace :
    (\A e \in Incoming(n) : f[e[1]] = g[e[1]]) =>
      NextMark(n, f, ns0, v, inPlace) = NextMark(n, g, ns0, v, inPlace)
<1> SUFFICES ASSUME NEW n \in Nodes, NEW f, NEW g, NEW ns0, NEW v, NEW inPlace,
                    \A e \in Incoming(n) : f[e[1]] = g[e[1]]
             PROVE  NextMark(n, f, ns0, v, inPlace) = NextMark(n, g, ns0, v, inPlace)
  OBVIOUS
<1>1. {Signal(e, f[e[1]], v) : e \in Incoming(n)} = {Signal(e, g[e[1]], v) : e \in Incoming(n)}
  OBVIOUS
<1>2. QED  BY <1>1 DEF NextMark

(* A marking equation yields a node state.                                 *)
LEMMA NextMarkType ==
  ASSUME NEW n \in Nodes, NEW f, NEW ns0 \in [Nodes -> NodeStates], NEW v, NEW inPlace
  PROVE  NextMark(n, f, ns0, v, inPlace) \in NodeStates
<1>1. Entered(n, inPlace) \in NodeStates
  BY DEF Entered, NodeStates
<1>2. \A signals : Evaluated(n, signals, inPlace) \in NodeStates
  BY <1>1 DEF Evaluated, NodeStates
<1>3. QED  BY <1>1, <1>2 DEF NextMark

(* A solution of all equations at once: the outcome of _advance from ns0.  *)
IsFixpoint(m, ns0, v, inPlace) ==
  /\ m \in [Nodes -> NodeStates]
  /\ \A n \in Nodes : m[n] = NextMark(n, m, ns0, v, inPlace)

(* Solutions exist up to every rank: a least rank without one would have a *)
(* predecessor with a solution, which extends by one level.                *)
LEMMA SolutionExists ==
  ASSUME NEW ns0 \in [Nodes -> NodeStates], NEW v, NEW inPlace
  PROVE  \E g : IsFixpoint(g, ns0, v, inPlace)
<1> DEFINE Solves(g, k) ==
      \A n \in Nodes : Rank[n] < k => g[n] = NextMark(n, g, ns0, v, inPlace)
    Without == {k \in Nat : ~ \E g \in [Nodes -> NodeStates] : Solves(g, k)}
<1>1. Rank \in [Nodes -> Nat] /\ MaxRank \in Nat /\ \A n \in Nodes : Rank[n] < MaxRank + 1
  BY GraphAssumption DEF GraphOK
<1>2. \A n \in Nodes : \A e \in Incoming(n) : e[1] \in Nodes /\ Rank[e[1]] < Rank[n]
  BY GraphAssumption DEF GraphOK, Incoming
<1>3. Without = {}
  <2>1. SUFFICES ASSUME Without # {}  PROVE FALSE
    OBVIOUS
  <2>2. PICK k \in Without : \A j \in Without : k <= j
    BY <2>1, LeastNumber
  <2>3. k # 0
    <3>1. Solves(ns0, 0)
      BY <1>1
    <3>2. QED  BY <3>1, <2>2
  <2>4. k - 1 \in Nat /\ k - 1 \notin Without
    BY <2>2, <2>3
  <2>5. PICK g \in [Nodes -> NodeStates] : Solves(g, k - 1)
    BY <2>4
  <2> DEFINE h == [n \in Nodes |->
                     IF Rank[n] < k - 1 THEN g[n] ELSE NextMark(n, g, ns0, v, inPlace)]
  <2>6. h \in [Nodes -> NodeStates]
    BY <2>5, NextMarkType
  <2>7. ASSUME NEW n \in Nodes, Rank[n] < k
        PROVE  h[n] = NextMark(n, h, ns0, v, inPlace)
    <3>1. h[n] = NextMark(n, g, ns0, v, inPlace)
      BY <2>5
    <3>2. \A e \in Incoming(n) : g[e[1]] = h[e[1]]
      <4>1. \A e \in Incoming(n) : Rank[e[1]] < k - 1
        BY <1>1, <1>2, <2>2, <2>7
      <4>2. QED  BY <4>1, <1>2
    <3>3. NextMark(n, g, ns0, v, inPlace) = NextMark(n, h, ns0, v, inPlace)
      <4>1. PICK f : f = h
        OBVIOUS
      <4>2. \A e \in Incoming(n) : g[e[1]] = f[e[1]]
        BY <3>2, <4>1
      <4>3. NextMark(n, g, ns0, v, inPlace) = NextMark(n, f, ns0, v, inPlace)
        BY <4>2, NextMarkLocal
      <4>4. QED
        BY <4>1, <4>3
    <3>4. QED  BY <3>1, <3>3
  <2>8. Solves(h, k)
    BY <2>7
  <2>9. QED  BY <2>2, <2>6, <2>8
<1> HIDE DEF Without
<1>4. MaxRank + 1 \in Nat /\ MaxRank + 1 \notin Without
  BY <1>1, <1>3
<1>5. PICK g \in [Nodes -> NodeStates] : Solves(g, MaxRank + 1)
  BY <1>4 DEF Without
<1>6. QED  BY <1>1, <1>5 DEF Solves, IsFixpoint

(* Marking solves the equation: what it returns is a fixpoint of _advance. *)
LEMMA MarkingSolves ==
  ASSUME NEW ns0 \in [Nodes -> NodeStates], NEW v, NEW inPlace
  PROVE  IsFixpoint(Marking(ns0, v, inPlace), ns0, v, inPlace)
<1> DEFINE IsMarking(m) == m = [n \in Nodes |-> NextMark(n, m, ns0, v, inPlace)]
<1>1. PICK g : IsFixpoint(g, ns0, v, inPlace)
  BY SolutionExists
<1>2. IsMarking(g)
  BY <1>1 DEF IsFixpoint
<1>3. Marking(ns0, v, inPlace) = CHOOSE m : IsMarking(m)
  BY DEF Marking
<1>4. IsMarking(Marking(ns0, v, inPlace))
  BY <1>2, <1>3
<1>5. PICK m : m = Marking(ns0, v, inPlace)
  OBVIOUS
<1>6. m = [n \in Nodes |-> NextMark(n, m, ns0, v, inPlace)]
  BY <1>4, <1>5
<1>7. \A n \in Nodes : NextMark(n, m, ns0, v, inPlace) \in NodeStates
  BY NextMarkType, Zenon
<1>8. QED
  BY <1>5, <1>6, <1>7 DEF IsFixpoint

-----------------------------------------------------------------------------
(* The inductive invariant.                                                *)

(* Before START has run nothing else has been touched.                     *)
Untouched ==
  istate = "ABSENT" \/ ns[Start] # "COMPLETED" =>
    /\ \A n \in Nodes \ {Start} : ns[n] = "NOT_ACTIVATED"
    /\ IF istate = "ABSENT" THEN ns[Start] = "NOT_ACTIVATED"
       ELSE ns[Start] = "ACTIVATED" /\ istate = "RUNNING"

(* A split has a decision from its completion on, for one of its edges.    *)
Decided ==
  \A x \in XorSplits :
    IF ns[x] = "COMPLETED" THEN <<x, decisions[x]>> \in Edges ELSE decisions[x] = NoNode

(* A child that runs has a parent node that waits for it, and a node waits *)
(* only for a child that was started.                                      *)
Awaited ==
  \A s \in SubProcesses :
    /\ child[s] = "running" => ns[s] = "RUNNING"
    /\ ns[s] = "RUNNING" => child[s] # "none"

IInv ==
  /\ TypeOK
  /\ SignalsFollowMarking
  /\ OnlyChosenBranches
  /\ Settled
  /\ Untouched
  /\ Decided
  /\ Awaited

-----------------------------------------------------------------------------
(* What a call may do before it advances: a is the one node it finishes    *)
(* (START, an activity, or a SUBPROCESS that is joined).                   *)
Ready(a, ns0) ==
  /\ a \in Nodes /\ a \notin XorSplits
  /\ ns0 \in [Nodes -> NodeStates]
  /\ ns[a] \notin Terminal
  /\ \/ ns0[a] = "COMPLETED" /\ a # Start
     \/ ns0[a] = "ACTIVATED" /\ a = Start
  /\ a = Start \/ ns[Start] = "COMPLETED"
  /\ \A l \in Ctx[a] : Chosen(l)
  /\ \A e \in Incoming(a) : es[e] # "NOT_SIGNALED"
  /\ \A n \in Nodes \ {a} :
       /\ ns0[n] = ns[n]
       /\ ns[n] = "ACTIVATED" => n \in Activities
       /\ ns[n] = "RUNNING" => n \in Activities \cup SubProcesses
       /\ ns[n] # "NOT_ACTIVATED" => \A e \in Incoming(n) : es[e] # "NOT_SIGNALED"

(* What the graph assumption says of the edges at a node.                  *)
LEMMA GraphFacts ==
  /\ \A e \in Edges : e[1] \in Nodes /\ e[2] \in Nodes /\ e = <<e[1], e[2]>>
  /\ \A n \in Nodes : \A e \in Incoming(n) : e \in Edges /\ e[2] = n
  /\ \A e \in Edges : e \in Incoming(e[2])
  /\ \A x \in XorSplits : x \in Nodes /\ Kind[x] = "XOR_SPLIT"
  /\ Start \notin XorSplits /\ Start \notin Activities /\ Start \notin SubProcesses
  /\ End \notin XorSplits /\ End \notin Activities /\ End \notin SubProcesses
  /\ Start # End /\ Start \in Nodes /\ End \in Nodes
  /\ Incoming(Start) = {}
BY GraphAssumption DEF GraphOK, Incoming, XorSplits, Activities, SubProcesses

(* START is ready to be activated in an instance that does not exist yet.  *)
LEMMA ReadyStart ==
  ASSUME IInv, istate = "ABSENT"
  PROVE  Ready(Start, [ns EXCEPT ![Start] = "ACTIVATED"])
<1>1. \A n \in Nodes : ns[n] = "NOT_ACTIVATED"
  BY DEF IInv, Untouched
<1>2. ns \in [Nodes -> NodeStates] /\ "ACTIVATED" \in NodeStates
  BY DEF IInv, TypeOK, NodeStates
<1>3. Ctx[Start] = {}
  BY GraphAssumption DEF BlockOK
<1>4. QED  BY <1>1, <1>2, <1>3, GraphFacts DEF Ready, Terminal

(* So is every activity in progress and every SUBPROCESS that waits.       *)
LEMMA ReadyWork ==
  ASSUME IInv, NEW a \in Activities \cup SubProcesses, ns[a] \in {"ACTIVATED", "RUNNING"}
  PROVE  Ready(a, [ns EXCEPT ![a] = "COMPLETED"])
<1>1. a \in Nodes /\ a \notin XorSplits /\ a # Start
  BY GraphAssumption DEF GraphOK, Activities, SubProcesses, XorSplits
<1>2. ns[Start] = "COMPLETED" /\ istate # "ABSENT"
  BY <1>1 DEF IInv, Untouched
<1>3. ns \in [Nodes -> NodeStates] /\ "COMPLETED" \in NodeStates
  BY DEF IInv, TypeOK, NodeStates
<1>4. \A l \in Ctx[a] : Chosen(l)
  BY <1>1 DEF IInv, OnlyChosenBranches, Entering
<1>5. \A n \in Nodes :
        /\ ns[n] # "NOT_ACTIVATED" => \A e \in Incoming(n) : es[e] # "NOT_SIGNALED"
        /\ ns[n] = "ACTIVATED" => n \in Activities
        /\ ns[n] = "RUNNING" => n \in Activities \cup SubProcesses
  BY <1>2 DEF IInv, Settled
<1>6. QED  BY <1>1, <1>2, <1>3, <1>4, <1>5 DEF Ready, Terminal

-----------------------------------------------------------------------------
(* What _advance does to a ready instance.  The context of each lemma: m   *)
(* is a fixpoint from ns0 under view v, every split on the way resolves,   *)
(* and data d is left behind.                                              *)
Advancing(a, ns0, m, v, d, inPlace) ==
  /\ Ready(a, ns0)
  /\ v \in [XorSplits -> Writes] /\ d \in Writes
  /\ IsFixpoint(m, ns0, v, inPlace)
  /\ Resolved(ns0, m, v)
  /\ Advance(ns0, m, v, d)

(* The finished node completes; what was touched keeps its state.          *)
LEMMA MarkingExtends ==
  ASSUME NEW a, NEW ns0, NEW m, NEW v, NEW d, NEW inPlace,
         IInv, Advancing(a, ns0, m, v, d, inPlace)
  PROVE  /\ m[a] = "COMPLETED"
         /\ \A n \in Nodes \ {a} : ns[n] # "NOT_ACTIVATED" => m[n] = ns[n]
         /\ \A n \in Nodes : ns[n] \in Terminal => n # a /\ m[n] = ns[n]
<1>1. \A n \in Nodes : m[n] = NextMark(n, m, ns0, v, inPlace)
  BY DEF Advancing, IsFixpoint
<1>2. Entered(Start, inPlace) = "COMPLETED"
  BY GraphFacts DEF Entered
<1>3. m[a] = "COMPLETED"
  BY <1>1, <1>2 DEF Advancing, Ready, NextMark
<1>4. ASSUME NEW n \in Nodes \ {a}, ns[n] # "NOT_ACTIVATED"
      PROVE  m[n] = ns[n]
  <2>1. ns0[n] = ns[n] /\ (ns[n] = "ACTIVATED" => n \in Activities)
    BY DEF Advancing, Ready
  <2>2. QED  BY <1>1, <1>4, <2>1 DEF NextMark, Entered
<1>5. \A n \in Nodes : ns[n] \in Terminal => n # a /\ m[n] = ns[n]
  BY <1>4 DEF Advancing, Ready, Terminal
<1>6. QED  BY <1>3, <1>4, <1>5

(* Decisions are made once, for an edge of the split, when it completes.   *)
LEMMA DecisionsExtend ==
  ASSUME NEW a, NEW ns0, NEW m, NEW v, NEW d, NEW inPlace,
         IInv, Advancing(a, ns0, m, v, d, inPlace)
  PROVE  /\ decisions' \in [XorSplits -> Nodes \cup {NoNode}]
         /\ \A x \in XorSplits : ns[x] = "COMPLETED" => decisions'[x] = decisions[x]
         /\ \A x \in XorSplits : ns[x] # "COMPLETED" /\ m[x] = "COMPLETED" =>
              decisions'[x] = Choice(x, v)
         /\ Decided'
<1>1. \A x \in XorSplits : x \in Nodes /\ x # a /\ ns0[x] = ns[x]
  BY GraphFacts DEF Advancing, Ready
<1>2. \A x \in XorSplits :
        decisions'[x] = IF m[x] = "COMPLETED" /\ ns[x] # "COMPLETED"
                        THEN Choice(x, v) ELSE decisions[x]
  BY <1>1 DEF Advancing, Advance, Reached
<1>3. \A x \in XorSplits : m[x] = "COMPLETED" /\ ns[x] # "COMPLETED" =>
        <<x, Choice(x, v)>> \in Edges /\ Choice(x, v) \in Nodes
  <2>1. SUFFICES ASSUME NEW x \in XorSplits, m[x] = "COMPLETED", ns[x] # "COMPLETED"
                 PROVE  <<x, Choice(x, v)>> \in Edges /\ Choice(x, v) \in Nodes
    OBVIOUS
  <2>2. Choice(x, v) # NoNode
    BY <1>1, <2>1 DEF Advancing, Resolved, Reached
  <2>3. v[x][Disc[x]] \in Values
    BY <2>2, DataAssumption DEF BranchesOK, Advancing, Writes, Choice
  <2>4. <<x, Choice(x, v)>> \in Edges
    BY <2>2, <2>3, DataAssumption DEF BranchesOK, Choice
  <2>5. QED  BY <2>4, GraphAssumption DEF GraphOK
<1>4. \A x \in XorSplits : ns[x] \in Terminal => m[x] = ns[x]
  BY <1>1, MarkingExtends
<1>5. \A x \in XorSplits : decisions'[x] \in Nodes \cup {NoNode}
  BY <1>2, <1>3 DEF IInv, TypeOK
<1>6. decisions' \in [XorSplits -> Nodes \cup {NoNode}]
  <2>1. decisions' = [x \in XorSplits |-> decisions'[x]]
    BY DEF Advancing, Advance
  <2>2. QED  BY <1>5, <2>1
<1>7. Decided'
  <2>1. ns' = m
    BY DEF Advancing, Advance
  <2>2. ASSUME NEW x \in XorSplits
        PROVE  IF m[x] = "COMPLETED" THEN <<x, decisions'[x]>> \in Edges
               ELSE decisions'[x] = NoNode
    <3>1. CASE ns[x] = "COMPLETED"
      BY <1>2, <1>4, <3>1 DEF IInv, Decided, Terminal
    <3>2. CASE ns[x] # "COMPLETED"
      BY <1>2, <1>3, <3>2 DEF IInv, Decided
    <3>3. QED  BY <3>1, <3>2
  <2>3. QED  BY <2>1, <2>2 DEF Decided
<1>8. QED  BY <1>2, <1>6, <1>7

(* Signals are given once and follow the new marking.                      *)
LEMMA SignalsExtend ==
  ASSUME NEW a, NEW ns0, NEW m, NEW v, NEW d, NEW inPlace,
         IInv, Advancing(a, ns0, m, v, d, inPlace)
  PROVE  /\ \A e \in Edges : es'[e] = Signal(e, m[e[1]], v)
         /\ \A e \in Edges : es[e] # "NOT_SIGNALED" => es'[e] = es[e]
         /\ es' \in [Edges -> EdgeStates]
         /\ SignalsFollowMarking'
<1>1. /\ ns' = m
      /\ es' = [e \in Edges |-> Signal(e, m[e[1]], v)]
  BY DEF Advancing, Advance
<1>2. es \in [Edges -> EdgeStates]
  BY DEF IInv, TypeOK
<1>3. \A e \in Edges : Signal(e, m[e[1]], v) \in EdgeStates
  BY <1>2 DEF Signal, EdgeStates
<1>4. \A e \in Edges : es'[e] = Signal(e, m[e[1]], v)
  BY <1>1
<1>5. \A e \in Edges : es[e] # "NOT_SIGNALED" => es'[e] = es[e]
  BY <1>4 DEF Signal
<1>6. es' \in [Edges -> EdgeStates]
  BY <1>1, <1>3
<1>7. ASSUME NEW e \in Edges
      PROVE  es'[e] = IF m[e[1]] = "SKIPPED" THEN "FALSE_SIGNALED"
                      ELSE IF m[e[1]] # "COMPLETED" THEN "NOT_SIGNALED"
                      ELSE IF e[1] \in XorSplits /\ decisions'[e[1]] # e[2]
                      THEN "FALSE_SIGNALED" ELSE "TRUE_SIGNALED"
  <2>1. e[1] \in Nodes
    BY GraphFacts
  <2>2. es[e] = IF ns[e[1]] = "SKIPPED" THEN "FALSE_SIGNALED"
                ELSE IF ns[e[1]] # "COMPLETED" THEN "NOT_SIGNALED"
                ELSE IF e[1] \in XorSplits /\ decisions[e[1]] # e[2]
                THEN "FALSE_SIGNALED" ELSE "TRUE_SIGNALED"
    BY DEF IInv, SignalsFollowMarking
  <2>3. CASE es[e] # "NOT_SIGNALED"
    <3>1. ns[e[1]] \in Terminal
      BY <2>2, <2>3 DEF Terminal
    <3>2. m[e[1]] = ns[e[1]]
      BY <2>1, <3>1, MarkingExtends
    <3>3. e[1] \in XorSplits /\ ns[e[1]] = "COMPLETED" => decisions'[e[1]] = decisions[e[1]]
      BY DecisionsExtend
    <3>4. QED  BY <1>5, <2>2, <2>3, <3>2, <3>3
  <2>4. CASE es[e] = "NOT_SIGNALED"
    <3>1. ns[e[1]] # "COMPLETED"
      BY <2>2, <2>4
    <3>2. e[1] \in XorSplits /\ m[e[1]] = "COMPLETED" => decisions'[e[1]] = Choice(e[1], v)
      BY <3>1, DecisionsExtend
    <3>3. QED  BY <1>4, <2>4, <3>2 DEF Signal
  <2>5. QED  BY <2>3, <2>4
<1>8. SignalsFollowMarking'
  BY <1>1, <1>7 DEF SignalsFollowMarking
<1>9. QED  BY <1>4, <1>5, <1>6, <1>8

(* A node that was untouched is evaluated under the new signals.           *)
LEMMA NewlyEvaluated ==
  ASSUME NEW a, NEW ns0, NEW m, NEW v, NEW d, NEW inPlace,
         IInv, Advancing(a, ns0, m, v, d, inPlace),
         NEW n \in Nodes \ {a}, ns[n] = "NOT_ACTIVATED"
  PROVE  m[n] = Evaluated(n, {es'[e] : e \in Incoming(n)}, inPlace)
<1>1. ns0[n] = "NOT_ACTIVATED"
  BY DEF Advancing, Ready
<1>2. m[n] = Evaluated(n, {Signal(e, m[e[1]], v) : e \in Incoming(n)}, inPlace)
  BY <1>1 DEF Advancing, IsFixpoint, NextMark
<1>3. \A e \in Incoming(n) : Signal(e, m[e[1]], v) = es'[e]
  BY SignalsExtend, GraphFacts
<1>4. {Signal(e, m[e[1]], v) : e \in Incoming(n)} = {es'[e] : e \in Incoming(n)}
  BY <1>3
<1>5. QED  BY <1>2, <1>4

(* The new marking is settled.                                             *)
LEMMA SettledExtend ==
  ASSUME NEW a, NEW ns0, NEW m, NEW v, NEW d, NEW inPlace,
         IInv, Advancing(a, ns0, m, v, d, inPlace)
  PROVE  Settled' /\ Untouched' /\ m[Start] = "COMPLETED"
<1>1. /\ ns' = m
      /\ istate' = IF m[End] = "COMPLETED" THEN "COMPLETED" ELSE "RUNNING"
  BY DEF Advancing, Advance
<1>2. m[Start] = "COMPLETED"
  <2>1. CASE a = Start
    BY <2>1, MarkingExtends
  <2>2. CASE a # Start
    <3>1. ns[Start] = "COMPLETED" /\ Start \in Nodes \ {a}
      BY <2>2, GraphFacts DEF Advancing, Ready
    <3>2. QED  BY <3>1, MarkingExtends
  <2>3. QED  BY <2>1, <2>2
<1>3. \A n \in Nodes : \A e \in Incoming(n) :
        /\ e \in Edges
        /\ es[e] # "NOT_SIGNALED" => es'[e] # "NOT_SIGNALED"
  BY SignalsExtend, GraphFacts
<1>4. ASSUME NEW n \in Nodes
      PROVE  /\ m[n] = "NOT_ACTIVATED" <=> \E e \in Incoming(n) : es'[e] = "NOT_SIGNALED"
             /\ m[n] = "ACTIVATED" => n \in Activities
             /\ m[n] = "RUNNING" => n \in Activities \cup SubProcesses
  <2>1. CASE n = a
    <3>1. m[n] = "COMPLETED"
      BY <2>1, MarkingExtends
    <3>2. \A e \in Incoming(n) : es'[e] # "NOT_SIGNALED"
      BY <1>3, <2>1 DEF Advancing, Ready
    <3>3. QED  BY <3>1, <3>2
  <2>2. CASE n # a /\ ns[n] # "NOT_ACTIVATED"
    <3>1. m[n] = ns[n]
      BY <2>2, MarkingExtends
    <3>2. \A e \in Incoming(n) : es'[e] # "NOT_SIGNALED"
      BY <1>3, <2>2 DEF Advancing, Ready
    <3>3. QED  BY <2>2, <3>1, <3>2 DEF Advancing, Ready
  <2>3. CASE n # a /\ ns[n] = "NOT_ACTIVATED"
    <3>1. m[n] = Evaluated(n, {es'[e] : e \in Incoming(n)}, inPlace)
      BY <2>3, NewlyEvaluated
    <3>2. n # Start
      BY <2>3 DEF Advancing, Ready
    <3>3. Incoming(n) # {}
      BY <3>2, GraphAssumption DEF GraphOK
    <3>4. /\ Entered(n, inPlace) # "NOT_ACTIVATED"
          /\ Entered(n, inPlace) = "ACTIVATED" => n \in Activities
          /\ Entered(n, inPlace) = "RUNNING" => n \in SubProcesses
      BY DEF Entered
    <3>5. m[n] = "NOT_ACTIVATED" <=> "NOT_SIGNALED" \in {es'[e] : e \in Incoming(n)}
      BY <3>1, <3>3, <3>4 DEF Evaluated
    <3>6. QED  BY <3>1, <3>4, <3>5 DEF Evaluated
  <2>4. QED  BY <2>1, <2>2, <2>3
<1>5. Settled'
  BY <1>1, <1>2, <1>4 DEF Settled
<1>6. Untouched'
  BY <1>1, <1>2 DEF Untouched
<1>7. QED  BY <1>2, <1>5, <1>6

-----------------------------------------------------------------------------
(* Dead-path elimination, for any node states st, edge states sg and       *)
(* decisions dec that agree.                                               *)
Agree(st, sg, dec) ==
  \A e \in Edges :
    sg[e] = IF st[e[1]] = "SKIPPED" THEN "FALSE_SIGNALED"
            ELSE IF st[e[1]] # "COMPLETED" THEN "NOT_SIGNALED"
            ELSE IF e[1] \in XorSplits /\ dec[e[1]] # e[2] THEN "FALSE_SIGNALED"
            ELSE "TRUE_SIGNALED"
Took(l, st, dec) == st[l[1]] = "COMPLETED" /\ dec[l[1]] = l[2]
Left(l, st, dec) == \/ st[l[1]] = "SKIPPED"
                    \/ st[l[1]] = "COMPLETED" /\ dec[l[1]] # l[2]
Runs(n, st, dec) ==
  st[n] \in {"ACTIVATED", "RUNNING", "COMPLETED"} => \A l \in Ctx[n] : Took(l, st, dec)
Skips(n, st, dec) ==
  st[n] = "SKIPPED" => \E l \in Ctx[n] : Left(l, st, dec)

(* An edge carries TRUE when the branches around it were taken and FALSE   *)
(* when one of them was left, provided its source is right.                *)
LEMMA SignalMeaning ==
  ASSUME NEW st, NEW sg, NEW dec, Agree(st, sg, dec),
         NEW e \in Edges, Runs(e[1], st, dec), Skips(e[1], st, dec)
  PROVE  /\ sg[e] = "TRUE_SIGNALED" => \A l \in EdgeCtx(e) : Took(l, st, dec)
         /\ sg[e] = "FALSE_SIGNALED" => \E l \in EdgeCtx(e) : Left(l, st, dec)
<1>1. e = <<e[1], e[2]>>
  BY GraphFacts
<1>2. sg[e] = "TRUE_SIGNALED" =>
        /\ st[e[1]] = "COMPLETED"
        /\ e[1] \in XorSplits => dec[e[1]] = e[2]
  BY DEF Agree
<1>3. sg[e] = "FALSE_SIGNALED" =>
        \/ st[e[1]] = "SKIPPED"
        \/ st[e[1]] = "COMPLETED" /\ e[1] \in XorSplits /\ dec[e[1]] # e[2]
  BY DEF Agree
<1>4. sg[e] = "TRUE_SIGNALED" => \A l \in EdgeCtx(e) : Took(l, st, dec)
  BY <1>2 DEF EdgeCtx, Runs, Took
<1>5. sg[e] = "FALSE_SIGNALED" => \E l \in EdgeCtx(e) : Left(l, st, dec)
  <2>1. CASE st[e[1]] = "SKIPPED"
    BY <2>1 DEF Skips, EdgeCtx
  <2>2. CASE st[e[1]] = "COMPLETED" /\ e[1] \in XorSplits /\ dec[e[1]] # e[2]
    <3>1. e \in EdgeCtx(e) /\ Left(e, st, dec)
      BY <2>2 DEF EdgeCtx, Left
    <3>2. QED  BY <3>1
  <2>3. QED  BY <1>3, <2>1, <2>2
<1>6. QED  BY <1>4, <1>5

(* A node entered on a TRUE edge, or skipped without one, is right if all  *)
(* nodes before it are.  At an XOR_JOIN every branch of the split was left *)
(* only if the whole block was.                                            *)
LEMMA NodeRight ==
  ASSUME NEW st, NEW sg, NEW dec, Agree(st, sg, dec),
         \A x \in XorSplits : st[x] = "COMPLETED" => <<x, dec[x]>> \in Edges,
         NEW n \in Nodes,
         \A p \in Nodes : Rank[p] < Rank[n] => Runs(p, st, dec) /\ Skips(p, st, dec),
         st[n] \in {"ACTIVATED", "RUNNING", "COMPLETED"} =>
           \E e \in Incoming(n) : sg[e] = "TRUE_SIGNALED",
         st[n] = "SKIPPED" =>
           /\ \E e \in Incoming(n) : sg[e] = "FALSE_SIGNALED"
           /\ Kind[n] # "AND_JOIN" => \A e \in Incoming(n) : sg[e] = "FALSE_SIGNALED"
  PROVE  Runs(n, st, dec) /\ Skips(n, st, dec)
<1>1. \A e \in Incoming(n) :
        /\ e \in Edges
        /\ sg[e] = "TRUE_SIGNALED" => \A l \in EdgeCtx(e) : Took(l, st, dec)
        /\ sg[e] = "FALSE_SIGNALED" => \E l \in EdgeCtx(e) : Left(l, st, dec)
  <2>1. \A e \in Incoming(n) : e \in Edges /\ e[1] \in Nodes /\ Rank[e[1]] < Rank[n]
    BY GraphAssumption DEF GraphOK, Incoming
  <2>2. QED  BY <2>1, SignalMeaning
<1>2. CASE Kind[n] # "XOR_JOIN"
  <2>1. \A e \in Incoming(n) : EdgeCtx(e) = Ctx[n]
    BY <1>1, <1>2, GraphAssumption DEF BlockOK, Incoming
  <2>2. QED  BY <1>1, <2>1 DEF Runs, Skips
<1>3. CASE Kind[n] = "XOR_JOIN"
  <2> DEFINE x == Match[n]
  <2>1. /\ x \in XorSplits /\ x \in Nodes /\ Ctx[n] = Ctx[x] /\ Rank[x] < Rank[n]
        /\ \A e \in Incoming(n) : \E o \in Outgoing(x) : EdgeCtx(e) = Ctx[x] \cup {o}
        /\ \A o \in Outgoing(x) : \E e \in Incoming(n) : EdgeCtx(e) = Ctx[x] \cup {o}
    BY <1>3, GraphAssumption DEF BlockOK, XorSplits
  <2> HIDE DEF x
  <2>2. Runs(n, st, dec)
    BY <1>1, <2>1 DEF Runs
  <2>3. ASSUME st[n] = "SKIPPED"
        PROVE  \E l \in Ctx[n] : Left(l, st, dec)
    <3>1. SUFFICES ASSUME \A l \in Ctx[x] : ~Left(l, st, dec)
                   PROVE  FALSE
      BY <2>1
    <3>2. \A o \in Outgoing(x) : Left(o, st, dec)
      BY <1>1, <1>3, <2>1, <2>3, <3>1
    <3>3. st[x] # "SKIPPED"
      BY <2>1, <3>1 DEF Skips
    <3>4. \A o \in Outgoing(x) : o[1] = x
      BY DEF Outgoing
    <3>5. PICK e \in Incoming(n) : sg[e] = "FALSE_SIGNALED"
      BY <2>3
    <3>6. PICK o \in Outgoing(x) : EdgeCtx(e) = Ctx[x] \cup {o}
      BY <2>1
    <3>7. st[x] = "COMPLETED"
      BY <3>2, <3>3, <3>4, <3>6 DEF Left
    <3>8. <<x, dec[x]>> \in Outgoing(x)
      BY <2>1, <3>7 DEF Outgoing
    <3>9. QED  BY <3>2, <3>7, <3>8 DEF Left
  <2>4. QED  BY <2>2, <2>3 DEF Skips
<1>4. QED  BY <1>2, <1>3

(* If one node is wrong, one of least rank is.                             *)
LEMMA LeastNode ==
  ASSUME NEW W \in SUBSET Nodes, W # {}
  PROVE  \E n \in W : \A p \in Nodes : Rank[p] < Rank[n] => p \notin W
<1> DEFINE R == {Rank[n] : n \in W}
<1>1. Rank \in [Nodes -> Nat]
  BY GraphAssumption DEF GraphOK
<1>2. R \in SUBSET Nat /\ R # {}
  BY <1>1
<1>3. PICK k \in R : \A j \in R : k <= j
  BY <1>2, LeastNumber
<1>4. PICK n \in W : Rank[n] = k
  BY <1>3
<1>5. \A p \in W : Rank[n] <= Rank[p]
  BY <1>3, <1>4
<1>6. QED  BY <1>1, <1>5

(* The new marking eliminates exactly the dead paths.                      *)
LEMMA ScopeExtend ==
  ASSUME NEW a, NEW ns0, NEW m, NEW v, NEW d, NEW inPlace,
         IInv, Advancing(a, ns0, m, v, d, inPlace)
  PROVE  OnlyChosenBranches'
<1> DEFINE Right(n) == Runs(n, m, decisions') /\ Skips(n, m, decisions')
<1>1. ns' = m
  BY DEF Advancing, Advance
<1>2. Agree(m, es', decisions')
  BY <1>1, SignalsExtend DEF Agree, SignalsFollowMarking
<1>3. \A x \in XorSplits : m[x] = "COMPLETED" => <<x, decisions'[x]>> \in Edges
  BY <1>1, DecisionsExtend DEF Decided
<1>4. \A n \in Nodes : \A l \in Ctx[n] : l[1] \in XorSplits /\ l[1] \in Nodes
  BY GraphAssumption DEF BlockOK, XorSplits
<1>5. ASSUME NEW l, l[1] \in XorSplits
      PROVE  /\ Chosen(l) => Took(l, m, decisions')
             /\ Dropped(l) => Left(l, m, decisions')
  <2>1. l[1] \in Nodes
    BY <1>5 DEF XorSplits
  <2>2. ns[l[1]] \in Terminal => m[l[1]] = ns[l[1]]
    BY <2>1, MarkingExtends
  <2>3. ns[l[1]] = "COMPLETED" => decisions'[l[1]] = decisions[l[1]]
    BY <1>5, DecisionsExtend
  <2>4. QED  BY <2>2, <2>3 DEF Chosen, Dropped, Took, Left, Terminal
<1>6. ASSUME NEW n \in Nodes, n = a \/ ns[n] # "NOT_ACTIVATED"
      PROVE  Right(n)
  <2>1. CASE n = a
    <3>1. m[n] = "COMPLETED" /\ \A l \in Ctx[n] : Chosen(l)
      BY <2>1, MarkingExtends DEF Advancing, Ready
    <3>2. QED  BY <1>4, <1>5, <3>1 DEF Runs, Skips
  <2>2. CASE n # a
    <3>1. m[n] = ns[n]
      BY <1>6, <2>2, MarkingExtends
    <3>2. /\ Entering(n) => \A l \in Ctx[n] : Chosen(l)
          /\ ns[n] = "SKIPPED" => \E l \in Ctx[n] : Dropped(l)
      BY DEF IInv, OnlyChosenBranches
    <3>3. QED  BY <1>4, <1>5, <3>1, <3>2 DEF Runs, Skips, Entering
  <2>3. QED  BY <2>1, <2>2
<1>7. ASSUME NEW n \in Nodes \ {a}, ns[n] = "NOT_ACTIVATED",
             \A p \in Nodes : Rank[p] < Rank[n] => Right(p)
      PROVE  Right(n)
  <2>1. m[n] = Evaluated(n, {es'[e] : e \in Incoming(n)}, inPlace)
    BY <1>7, NewlyEvaluated
  <2>2. Entered(n, inPlace) # "SKIPPED"
    BY DEF Entered
  <2>3. \A e \in Incoming(n) : es'[e] \in EdgeStates
    BY SignalsExtend, GraphFacts
  <2>4. m[n] \in {"ACTIVATED", "RUNNING", "COMPLETED"} =>
          \E e \in Incoming(n) : es'[e] = "TRUE_SIGNALED"
    BY <2>1 DEF Evaluated
  <2>5. m[n] = "SKIPPED" =>
          /\ \E e \in Incoming(n) : es'[e] = "FALSE_SIGNALED"
          /\ Kind[n] # "AND_JOIN" => \A e \in Incoming(n) : es'[e] = "FALSE_SIGNALED"
    BY <2>1, <2>2, <2>3 DEF Evaluated, EdgeStates
  <2>6. QED  BY <1>2, <1>3, <1>7, <2>4, <2>5, NodeRight
<1>8. \A n \in Nodes : Right(n)
  <2> DEFINE Wrong == {n \in Nodes : ~Right(n)}
  <2>1. SUFFICES ASSUME Wrong # {}  PROVE FALSE
    OBVIOUS
  <2> HIDE DEF Right
  <2>2. PICK n \in Wrong : \A p \in Nodes : Rank[p] < Rank[n] => p \notin Wrong
    BY <2>1, LeastNode
  <2>3. \A p \in Nodes : Rank[p] < Rank[n] => Right(p)
    BY <2>2
  <2>4. QED  BY <1>6, <1>7, <2>2, <2>3
<1>9. QED
  BY <1>1, <1>8 DEF OnlyChosenBranches, Entering, Chosen, Dropped, Runs, Skips, Took, Left

-----------------------------------------------------------------------------
(* The invariant is inductive: first the propagation, then every call.     *)

LEMMA WriteTypes ==
  /\ Nothing \in Writes
  /\ \A v, w \in Writes : Overlay(v, w) \in Writes
  /\ TypedWrites \subseteq Writes
  /\ \A d, w \in Writes : \A late : View(d, w, late) \in [XorSplits -> Writes]
<1>1. /\ Nothing \in Writes
      /\ \A v, w \in Writes : Overlay(v, w) \in Writes
      /\ TypedWrites \subseteq Writes
  BY DEF Writes, Nothing, Overlay, TypedWrites
<1>2. \A d, w \in Writes : \A late : View(d, w, late) \in [XorSplits -> Writes]
  BY <1>1 DEF View
<1>3. QED  BY <1>1, <1>2

(* An advance from ready markings restores the whole invariant.            *)
LEMMA AdvanceKeeps ==
  ASSUME NEW a, NEW ns0, NEW m, NEW v, NEW d, NEW inPlace, NEW ch,
         IInv, Advancing(a, ns0, m, v, d, inPlace),
         performedBy' \in [Nodes -> Agents \cup {NoAgent}], reply' = "ok",
         ch \in [SubProcesses -> {"none", "running", "completed"}],
         \A s \in SubProcesses : ch[s] = "running" => child[s] = "running" /\ s # a,
         child' = Spawned(ch, m, inPlace)
  PROVE  IInv'
<1>1. ns' \in [Nodes -> NodeStates]
  BY DEF Advancing, Advance, IsFixpoint
<1>2. child' \in [SubProcesses -> {"none", "running", "completed"}]
  BY DEF Spawned
<1>3. istate' \in {"ABSENT", "RUNNING", "COMPLETED"} /\ data' \in Writes
  BY DEF Advancing, Advance
<1>4. TypeOK'
  BY <1>1, <1>2, <1>3, SignalsExtend, DecisionsExtend DEF TypeOK
<1>5. Awaited'
  <2>1. ASSUME NEW s \in SubProcesses, child'[s] = "running"
        PROVE  ns'[s] = "RUNNING"
    <3>1. ns' = m /\ s \in Nodes
      BY DEF Advancing, Advance, SubProcesses
    <3>2. CASE ch[s] = "running"
      <4>1. ns[s] = "RUNNING" /\ s \in Nodes \ {a}
        BY <3>1, <3>2 DEF IInv, Awaited
      <4>2. QED  BY <3>1, <4>1, MarkingExtends
    <3>3. CASE ch[s] # "running"
      BY <2>1, <3>1, <3>3 DEF Spawned
    <3>4. QED  BY <3>2, <3>3
  <2>2. ASSUME NEW s \in SubProcesses, ns'[s] = "RUNNING"
        PROVE  child'[s] # "none"
    BY <2>2 DEF Spawned, Advancing, Advance
  <2>3. QED  BY <2>1, <2>2 DEF Awaited
<1>6. QED
  BY <1>4, <1>5, SignalsExtend, DecisionsExtend, SettledExtend, ScopeExtend DEF IInv

(* The calls that propagate, in the form the lemmas above take.            *)
LEMMA ReadyAdvances ==
  ASSUME NEW a, NEW ns0, NEW v \in [XorSplits -> Writes], NEW d \in Writes, NEW inPlace,
         Ready(a, ns0),
         Resolved(ns0, Marking(ns0, v, inPlace), v),
         Advance(ns0, Marking(ns0, v, inPlace), v, d)
  PROVE  Advancing(a, ns0, Marking(ns0, v, inPlace), v, d, inPlace)
<1>1. IsFixpoint(Marking(ns0, v, inPlace), ns0, v, inPlace)
  BY MarkingSolves DEF Ready
<1>2. QED  BY <1>1 DEF Advancing

(* The invariant holds before the instance exists.                         *)
LEMMA InitInv == Init => IInv
<1> SUFFICES ASSUME Init PROVE IInv
  OBVIOUS
<1>1. TypeOK
  BY DataAssumption DEF BranchesOK, Init, TypeOK, NodeStates, EdgeStates, Writes, Nothing
<1>2. SignalsFollowMarking /\ OnlyChosenBranches
  BY GraphFacts DEF Init, SignalsFollowMarking, OnlyChosenBranches, Entering
<1>3. Settled /\ Untouched
  BY GraphFacts DEF Init, Settled, Untouched
<1>4. Decided /\ Awaited
  BY GraphFacts DEF Init, Decided, Awaited, SubProcesses
<1>5. QED  BY <1>1, <1>2, <1>3, <1>4 DEF IInv

(* Creation keeps the invariant, also when it is refused half-way.         *)
LEMMA InstantiateInv ==
  ASSUME IInv, NEW seed \in Writes, NEW inPlace \in SUBSET Fresh,
         NEW out \in Outputs(inPlace), NEW late, Instantiate(seed, inPlace, out, late)
  PROVE  IInv'
<1> DEFINE ns0 == [ns EXCEPT ![Start] = "ACTIVATED"]
           v   == View(seed, out, late)
           d   == Overlay(seed, out)
           m   == Marking(ns0, v, inPlace)
<1>1. d \in Writes /\ v \in [XorSplits -> Writes]
  BY WriteTypes DEF Outputs
<1>2. istate = "ABSENT" /\ Ready(Start, ns0) /\ performedBy' = performedBy
  BY ReadyStart DEF Instantiate
<1>3. CASE Resolved(ns0, m, v) /\ Advance(ns0, m, v, d)
           /\ child' = Spawned(child, m, inPlace) /\ reply' = "ok"
  <2>1. Advancing(Start, ns0, m, v, d, inPlace)
    BY <1>1, <1>2, <1>3, ReadyAdvances
  <2>2. \A s \in SubProcesses : s # Start
    BY GraphFacts
  <2> HIDE DEF ns0, v, d, m
  <2>3. QED  BY <1>2, <1>3, <2>1, <2>2, AdvanceKeeps DEF IInv, TypeOK
<1>4. CASE /\ ns' = ns0 /\ istate' = "RUNNING" /\ data' = seed
           /\ reply' = "unresolved_split" /\ UNCHANGED <<es, decisions, child>>
  <2>1. TypeOK'
    BY <1>2, <1>4 DEF IInv, TypeOK, NodeStates
  <2>2. \A n \in Nodes : ns[n] = "NOT_ACTIVATED"
    BY <1>2 DEF IInv, Untouched
  <2>3. /\ ns'[Start] = "ACTIVATED"
        /\ \A n \in Nodes : ns'[n] = IF n = Start THEN "ACTIVATED" ELSE "NOT_ACTIVATED"
    BY <1>4, <2>2, GraphFacts DEF IInv, TypeOK
  <2>4. \A e \in Edges : es[e] = "NOT_SIGNALED"
    BY <2>2, GraphFacts DEF IInv, SignalsFollowMarking
  <2>5. SignalsFollowMarking'
    BY <1>4, <2>3, <2>4, GraphFacts DEF SignalsFollowMarking
  <2>6. OnlyChosenBranches'
    <3>1. Ctx[Start] = {}
      BY GraphAssumption DEF BlockOK
    <3>2. QED  BY <2>3, <3>1 DEF OnlyChosenBranches, Entering
  <2>7. Settled' /\ Untouched'
    BY <1>4, <2>3 DEF Settled, Untouched
  <2>8. Decided' /\ Awaited'
    <3>1. \A x \in XorSplits : ns'[x] # "COMPLETED" /\ decisions'[x] = NoNode
      BY <1>4, <2>2, <2>3, GraphFacts DEF IInv, Decided
    <3>2. \A s \in SubProcesses : child[s] # "running" /\ ns'[s] # "RUNNING"
      BY <2>2, <2>3 DEF IInv, Awaited, SubProcesses
    <3>3. QED  BY <1>4, <3>1, <3>2 DEF Decided, Awaited
  <2>9. QED  BY <2>1, <2>5, <2>6, <2>7, <2>8 DEF IInv
<1>5. QED  BY <1>3, <1>4 DEF Instantiate

(* Starting an activity keeps the invariant.                               *)
LEMMA StartActivityInv ==
  ASSUME IInv, NEW n \in Activities, StartActivity(n)
  PROVE  IInv'
<1>1. n \in Nodes /\ n # Start /\ n # End /\ n \notin XorSplits /\ n \notin SubProcesses
  BY GraphAssumption DEF GraphOK, Activities, XorSplits, SubProcesses
<1>2. /\ ns' = [ns EXCEPT ![n] = "RUNNING"] /\ ns[n] = "ACTIVATED"
      /\ reply' = "ok"
      /\ UNCHANGED <<es, istate, decisions, data, performedBy, child>>
  BY DEF StartActivity
<1>3. /\ ns'[n] = "RUNNING"
      /\ \A p \in Nodes \ {n} : ns'[p] = ns[p]
      /\ ns' \in [Nodes -> NodeStates]
  BY <1>1, <1>2 DEF IInv, TypeOK, NodeStates
<1>4. TypeOK'
  BY <1>2, <1>3 DEF IInv, TypeOK
<1>5. SignalsFollowMarking'
  BY <1>2, <1>3, GraphFacts DEF IInv, SignalsFollowMarking
<1>6. OnlyChosenBranches'
  <2>1. \A p \in Nodes : \A l \in Ctx[p] : l[1] \in Nodes /\ l[1] # n
    BY <1>1, GraphAssumption DEF BlockOK, XorSplits
  <2>2. \A p \in Nodes : \A l \in Ctx[p] : (Chosen(l) => Chosen(l)') /\ (Dropped(l) => Dropped(l)')
    BY <1>2, <1>3, <2>1 DEF Chosen, Dropped
  <2>3. \A p \in Nodes : (Entering(p)' => Entering(p)) /\ (ns'[p] = "SKIPPED" => ns[p] = "SKIPPED")
    BY <1>2, <1>3 DEF Entering
  <2>4. QED  BY <2>2, <2>3 DEF IInv, OnlyChosenBranches
<1>7. Settled'
  BY <1>1, <1>2, <1>3, GraphFacts DEF IInv, Settled
<1>8. Untouched'
  BY <1>1, <1>2, <1>3, GraphFacts DEF IInv, Untouched
<1>9. Decided' /\ Awaited'
  <2>1. \A x \in XorSplits \cup SubProcesses : ns'[x] = ns[x]
    BY <1>1, <1>3 DEF XorSplits, SubProcesses
  <2>2. QED  BY <1>2, <2>1 DEF IInv, Decided, Awaited
<1>10. QED  BY <1>4, <1>5, <1>6, <1>7, <1>8, <1>9 DEF IInv

(* A call that changes nothing the invariant reads but data, or a child    *)
(* that reports without effect, keeps it.                                  *)
LEMMA MarkingUnchangedInv ==
  ASSUME IInv, UNCHANGED <<ns, es, istate, decisions, performedBy>>,
         data' \in Writes, reply' \in {"ok", "unresolved_split"},
         child' \in [SubProcesses -> {"none", "running", "completed"}],
         \A s \in SubProcesses : /\ child'[s] = "running" => child[s] = "running"
                                 /\ child'[s] = "none" => child[s] = "none"
  PROVE  IInv'
<1>1. TypeOK'
  BY DEF IInv, TypeOK
<1>2. SignalsFollowMarking' /\ Settled' /\ Untouched'
  BY DEF IInv, SignalsFollowMarking, Settled, Untouched
<1>3. OnlyChosenBranches'
  BY DEF IInv, OnlyChosenBranches, Entering, Chosen, Dropped
<1>4. Decided' /\ Awaited'
  BY DEF IInv, Decided, Awaited
<1>5. QED  BY <1>1, <1>2, <1>3, <1>4 DEF IInv

(* Completing an activity keeps the invariant.                             *)
LEMMA CompleteActivityInv ==
  ASSUME IInv, NEW n \in Activities, NEW a \in Agents \cup {NoAgent}, NEW w \in Writes,
         NEW inPlace \in SUBSET Fresh, NEW out \in Outputs(inPlace), NEW late,
         CompleteActivity(n, a, w, inPlace, out, late)
  PROVE  IInv'
<1> DEFINE ns0 == [ns EXCEPT ![n] = "COMPLETED"]
           c   == Overlay(data, w)
           v   == View(c, out, late)
           d   == Overlay(c, out)
           m   == Marking(ns0, v, inPlace)
<1>1. d \in Writes /\ v \in [XorSplits -> Writes]
  BY WriteTypes DEF Outputs, IInv, TypeOK
<1>2. Ready(n, ns0)
  BY ReadyWork DEF CompleteActivity
<1>3. CASE /\ Resolved(ns0, m, v) /\ Advance(ns0, m, v, d)
           /\ performedBy' = [performedBy EXCEPT ![n] = IF a = NoAgent THEN @ ELSE a]
           /\ child' = Spawned(child, m, inPlace) /\ reply' = "ok"
  <2>1. Advancing(n, ns0, m, v, d, inPlace)
    BY <1>1, <1>2, <1>3, ReadyAdvances
  <2>2. performedBy' \in [Nodes -> Agents \cup {NoAgent}]
    BY <1>3 DEF IInv, TypeOK
  <2>3. \A s \in SubProcesses : s # n
    BY DEF SubProcesses, Activities
  <2> HIDE DEF ns0, v, d, m
  <2>4. QED  BY <1>3, <2>1, <2>2, <2>3, AdvanceKeeps DEF IInv, TypeOK
<1>4. CASE /\ reply' = "unresolved_split"
           /\ UNCHANGED <<ns, es, istate, decisions, data, performedBy, child>>
  BY <1>4, MarkingUnchangedInv DEF IInv, TypeOK
<1>5. QED  BY <1>3, <1>4 DEF CompleteActivity

(* Joining a child keeps the invariant.                                    *)
LEMMA JoinSubprocessInv ==
  ASSUME IInv, NEW s \in SubProcesses, NEW w \in Writes,
         NEW inPlace \in SUBSET Fresh, NEW out \in Outputs(inPlace), NEW late,
         JoinSubprocess(s, w, inPlace, out, late)
  PROVE  IInv'
<1> DEFINE ns0 == [ns EXCEPT ![s] = "COMPLETED"]
           c   == Overlay(data, w)
           v   == View(c, out, late)
           d   == Overlay(c, out)
           m   == Marking(ns0, v, inPlace)
           ch  == [child EXCEPT ![s] = "completed"]
<1>1. d \in Writes /\ v \in [XorSplits -> Writes]
  BY WriteTypes DEF Outputs, IInv, TypeOK
<1>2. Ready(s, ns0)
  BY ReadyWork DEF JoinSubprocess, IInv, Awaited
<1>3. /\ ch \in [SubProcesses -> {"none", "running", "completed"}]
      /\ \A q \in SubProcesses : ch[q] = "running" => child[q] = "running" /\ q # s
      /\ performedBy' = performedBy
  BY DEF IInv, TypeOK, JoinSubprocess
<1>4. CASE /\ Resolved(ns0, m, v) /\ Advance(ns0, m, v, d)
           /\ child' = Spawned(ch, m, inPlace) /\ reply' = "ok"
  <2>1. Advancing(s, ns0, m, v, d, inPlace)
    BY <1>1, <1>2, <1>4, ReadyAdvances
  <2> HIDE DEF ns0, v, d, m, ch
  <2>2. QED  BY <1>3, <1>4, <2>1, AdvanceKeeps DEF IInv, TypeOK
<1>5. CASE /\ child' = ch /\ reply' = "unresolved_split"
           /\ UNCHANGED <<ns, es, istate, decisions, data>>
  BY <1>3, <1>5, MarkingUnchangedInv DEF IInv, TypeOK
<1>6. QED  BY <1>4, <1>5 DEF JoinSubprocess

(* A data write keeps the invariant: no marking depends on data.           *)
LEMMA PutDataInv ==
  ASSUME IInv, NEW w \in TypedWrites, PutData(w)
  PROVE  IInv'
<1>1. data' \in Writes
  BY WriteTypes DEF PutData, IInv, TypeOK
<1>2. QED  BY <1>1, MarkingUnchangedInv DEF PutData, IInv, TypeOK

(* The invariant is inductive.                                             *)
LEMMA NextInv == IInv /\ [Next]_vars => IInv'
<1> SUFFICES ASSUME IInv, [Next]_vars PROVE IInv'
  OBVIOUS
<1>1. ASSUME NEW seed \in Writes, NEW ip \in SUBSET Fresh, NEW out \in Outputs(ip), NEW late,
             Instantiate(seed, ip, out, late)
      PROVE  IInv'
  BY <1>1, InstantiateInv
<1>2. ASSUME NEW n \in Activities, StartActivity(n)
      PROVE  IInv'
  BY <1>2, StartActivityInv
<1>3. ASSUME NEW n \in Activities, NEW a \in Agents \cup {NoAgent}, NEW w \in Writes,
             NEW ip \in SUBSET Fresh, NEW out \in Outputs(ip), NEW late,
             CompleteActivity(n, a, w, ip, out, late)
      PROVE  IInv'
  BY <1>3, CompleteActivityInv
<1>4. ASSUME NEW s \in SubProcesses, NEW w \in Writes,
             NEW ip \in SUBSET Fresh, NEW out \in Outputs(ip), NEW late,
             JoinSubprocess(s, w, ip, out, late)
      PROVE  IInv'
  BY <1>4, JoinSubprocessInv
<1>5. ASSUME NEW w \in TypedWrites, PutData(w)
      PROVE  IInv'
  BY <1>5, PutDataInv
<1>6. CASE UNCHANGED vars
  BY <1>6, MarkingUnchangedInv DEF vars, IInv, TypeOK
<1>7. QED  BY <1>1, <1>2, <1>3, <1>4, <1>5, <1>6 DEF Next

(* IInv holds in every reachable state.                                    *)
THEOREM Invariance == Spec => []IInv
<1>1. QED  BY InitInv, NextInv, PTL DEF Spec

-----------------------------------------------------------------------------
(* The properties.                                                         *)

(* Every reachable state of an instance is well-typed.                     *)
THEOREM TypeCorrect == Spec => []TypeOK
<1>1. IInv => TypeOK
  BY DEF IInv
<1>2. QED  BY <1>1, Invariance, PTL

(* Every call leaves node and edge markings in agreement.                  *)
THEOREM SignalsCorrect == Spec => []SignalsFollowMarking
<1>1. IInv => SignalsFollowMarking
  BY DEF IInv
<1>2. QED  BY <1>1, Invariance, PTL

(* A node runs only on chosen branches and is skipped only on dropped      *)
(* ones, in every block-structured schema.                                 *)
THEOREM DeadPathElimination == Spec => []OnlyChosenBranches
<1>1. IInv => OnlyChosenBranches
  BY DEF IInv
<1>2. QED  BY <1>1, Invariance, PTL

(* Every call leaves the propagation at a fixpoint.                        *)
THEOREM PropagationComplete == Spec => []Settled
<1>1. IInv => Settled
  BY DEF IInv
<1>2. QED  BY <1>1, Invariance, PTL

(* In a consistent state all nodes are right, so a TRUE and a FALSE edge   *)
(* can be compared branch by branch.                                       *)
LEMMA JoinsAgreeInv == IInv => JoinsAgree
<1> SUFFICES ASSUME IInv PROVE JoinsAgree
  OBVIOUS
<1>1. Agree(ns, es, decisions)
  BY DEF IInv, SignalsFollowMarking, Agree
<1>2. \A n \in Nodes : Runs(n, ns, decisions) /\ Skips(n, ns, decisions)
  BY DEF IInv, OnlyChosenBranches, Entering, Chosen, Dropped, Runs, Skips, Took, Left
<1>3. \A e \in Edges :
        /\ es[e] = "TRUE_SIGNALED" => \A l \in EdgeCtx(e) : Took(l, ns, decisions)
        /\ es[e] = "FALSE_SIGNALED" => \E l \in EdgeCtx(e) : Left(l, ns, decisions)
  BY <1>1, <1>2, SignalMeaning, GraphFacts
<1>4. ASSUME NEW e \in Edges, NEW f \in Edges, e[2] = f[2], Kind[e[2]] = "AND_JOIN",
             es[e] = "TRUE_SIGNALED", es[f] = "FALSE_SIGNALED"
      PROVE  FALSE
  <2>1. EdgeCtx(e) = EdgeCtx(f)
    BY <1>4, GraphAssumption DEF BlockOK
  <2>2. QED  BY <1>3, <1>4, <2>1 DEF Took, Left
<1>5. ASSUME NEW e \in Edges, NEW f \in Edges, e[2] = f[2], Kind[e[2]] = "XOR_JOIN",
             es[e] = "TRUE_SIGNALED", es[f] = "TRUE_SIGNALED"
      PROVE  e = f
  <2> DEFINE j == e[2]
             x == Match[j]
  <2>1. j \in Nodes /\ e \in Incoming(j) /\ f \in Incoming(j)
    BY <1>5, GraphFacts DEF Incoming
  <2>2. /\ \A g \in Incoming(j) : \E o \in Outgoing(x) : EdgeCtx(g) = Ctx[x] \cup {o}
        /\ EdgeCtx(e) = EdgeCtx(f) => e = f
    BY <1>5, <2>1, GraphAssumption DEF BlockOK
  <2> HIDE DEF j, x
  <2>3. PICK o \in Outgoing(x) : EdgeCtx(e) = Ctx[x] \cup {o}
    BY <2>1, <2>2
  <2>4. PICK p \in Outgoing(x) : EdgeCtx(f) = Ctx[x] \cup {p}
    BY <2>1, <2>2
  <2>5. Took(o, ns, decisions) /\ Took(p, ns, decisions)
    BY <1>3, <1>5, <2>3, <2>4
  <2>6. o[1] = x /\ p[1] = x /\ o = <<o[1], o[2]>> /\ p = <<p[1], p[2]>>
    BY GraphFacts DEF Outgoing
  <2>7. o = p
    BY <2>5, <2>6 DEF Took
  <2>8. QED  BY <2>2, <2>3, <2>4, <2>7
<1>6. QED  BY <1>4, <1>5 DEF JoinsAgree

(* No AND_JOIN ever sees mixed signals and no XOR_JOIN two TRUE ones.      *)
THEOREM JoinSafety == Spec => []JoinsAgree
BY JoinsAgreeInv, Invariance, PTL

(* Every return was heard: no node waits for a child that has completed.   *)
(* A join that is refused (a split behind the SUBPROCESS cannot resolve)   *)
(* makes it false for good: the child is stored and does not report again. *)
ReturnsHeard == \A s \in SubProcesses : ~(ns[s] = "RUNNING" /\ child[s] = "completed")

(* An instance that runs waits for somebody: were every started node done, *)
(* an untouched node of least rank would have all its edges signalled.     *)
LEMMA NeverStuckInv == IInv => (ReturnsHeard => NeverStuck)
<1> SUFFICES ASSUME IInv, ReturnsHeard, istate = "RUNNING", ns[Start] # "ACTIVATED",
                    \A n \in Activities : ns[n] \notin {"ACTIVATED", "RUNNING"},
                    \A s \in SubProcesses : ~(ns[s] = "RUNNING" /\ child[s] = "running")
             PROVE  FALSE
  BY DEF NeverStuck
<1>0. \A s \in SubProcesses : ns[s] # "RUNNING"
  BY DEF IInv, TypeOK, Awaited, ReturnsHeard
<1>1. /\ Settled /\ istate # "ABSENT"
      /\ ns \in [Nodes -> NodeStates]
      /\ SignalsFollowMarking /\ OnlyChosenBranches
  BY DEF IInv, TypeOK
<1>2. \A n \in Nodes : ns[n] \in {"NOT_ACTIVATED", "COMPLETED", "SKIPPED"}
  BY <1>0, <1>1 DEF Settled, NodeStates
<1>3. ns[End] = "NOT_ACTIVATED"
  <2>1. ns[End] # "COMPLETED"
    BY <1>1 DEF Settled
  <2>2. ns[End] # "SKIPPED"
    BY <1>1, GraphAssumption, GraphFacts DEF BlockOK, OnlyChosenBranches
  <2>3. QED  BY <1>2, <2>1, <2>2, GraphFacts
<1> DEFINE W == {n \in Nodes : ns[n] = "NOT_ACTIVATED"}
<1>4. PICK n \in W : \A p \in Nodes : Rank[p] < Rank[n] => p \notin W
  <2>1. W \in SUBSET Nodes /\ W # {}
    BY <1>3, GraphFacts
  <2> HIDE DEF W
  <2>2. QED  BY <2>1, LeastNode
<1>5. PICK e \in Incoming(n) : es[e] = "NOT_SIGNALED"
  BY <1>1, <1>4 DEF Settled
<1>6. e \in Edges /\ e[1] \in Nodes /\ Rank[e[1]] < Rank[n]
  BY GraphAssumption DEF GraphOK, Incoming
<1>7. ns[e[1]] \in Terminal
  BY <1>2, <1>4, <1>6 DEF Terminal
<1>8. QED  BY <1>1, <1>5, <1>6, <1>7 DEF SignalsFollowMarking, Terminal

(* As long as no join of it was refused, a created instance that is        *)
(* RUNNING has an activity to be worked on or a child that runs, whatever  *)
(* its schema (_advance, _handle_subprocess, _propagate_completion).       *)
THEOREM Progress == Spec => [](ReturnsHeard => NeverStuck)
BY NeverStuckInv, Invariance, PTL

(* When END is reached everything else is done: an unfinished node of      *)
(* greatest rank would leave its target untouched.                         *)
LEMMA CleanEndInv == IInv => CleanEnd
<1> SUFFICES ASSUME IInv, istate = "COMPLETED" PROVE CleanEnd
  BY DEF CleanEnd
<1>1. /\ Settled /\ ns[End] = "COMPLETED" /\ ns[Start] # "ACTIVATED"
      /\ SignalsFollowMarking
  BY DEF IInv, Settled, Untouched
<1> DEFINE Open == {n \in Nodes : ns[n] \notin Terminal}
           Height == {MaxRank - Rank[n] : n \in Open}
<1>2. /\ MaxRank \in Nat
      /\ \A n \in Nodes : Rank[n] \in Nat /\ Rank[n] <= MaxRank
  BY GraphAssumption DEF GraphOK
<1>3. Open = {}
  <2>1. SUFFICES ASSUME Open # {} PROVE FALSE
    OBVIOUS
  <2>2. Height \in SUBSET Nat /\ Height # {}
    BY <1>2, <2>1
  <2>3. PICK h \in Height : \A k \in Height : h <= k
    BY <2>2, LeastNumber
  <2>4. PICK n \in Open : h = MaxRank - Rank[n]
    BY <2>3
  <2>5. \A p \in Open : Rank[p] <= Rank[n]
    BY <1>2, <2>3, <2>4
  <2>6. n \in Nodes /\ n # End /\ ns[n] \notin Terminal
    BY <1>1, <2>4 DEF Terminal
  <2>7. PICK e \in Edges : e[1] = n
    BY <2>6, GraphAssumption DEF GraphOK, Outgoing
  <2>8. es[e] = "NOT_SIGNALED"
    BY <1>1, <2>6, <2>7 DEF SignalsFollowMarking, Terminal
  <2>9. e[2] \in Nodes /\ e \in Incoming(e[2]) /\ Rank[n] < Rank[e[2]]
    BY <2>7, GraphAssumption DEF GraphOK, Incoming
  <2>10. ns[e[2]] = "NOT_ACTIVATED"
    BY <1>1, <2>8, <2>9 DEF Settled
  <2>11. QED  BY <1>2, <2>5, <2>6, <2>9, <2>10 DEF Terminal
<1>4. \A n \in Nodes : ns[n] \in Terminal
  BY <1>3
<1>5. \A s \in SubProcesses : child[s] # "running"
  BY <1>4 DEF IInv, Awaited, SubProcesses, Terminal
<1>6. QED  BY <1>4, <1>5 DEF CleanEnd

(* A COMPLETED instance has no work, no signal and no child pending.       *)
THEOREM CleanTermination == Spec => []CleanEnd
BY CleanEndInv, Invariance, PTL

(* Propagation extends the history and rewrites none of it.                *)
LEMMA AdvanceHistory ==
  ASSUME NEW a, NEW ns0, NEW m, NEW v, NEW d, NEW inPlace,
         IInv, Advancing(a, ns0, m, v, d, inPlace), istate # "COMPLETED",
         \A n \in Nodes : ns[n] = "COMPLETED" => performedBy'[n] = performedBy[n]
  PROVE  HistoryStep
<1>1. ns' = m
  BY DEF Advancing, Advance
<1>2. \A n \in Nodes : ns[n] \in Terminal => ns'[n] = ns[n]
  BY <1>1, MarkingExtends
<1>3. \A n \in Nodes : ns[n] = "RUNNING" => ns'[n] \in {"RUNNING", "COMPLETED"}
  BY <1>1, MarkingExtends
<1>4. \A e \in Edges : es[e] # "NOT_SIGNALED" => es'[e] = es[e]
  BY SignalsExtend
<1>5. \A x \in XorSplits : decisions[x] # NoNode => decisions'[x] = decisions[x]
  BY DecisionsExtend DEF IInv, Decided
<1>6. QED  BY <1>2, <1>3, <1>4, <1>5 DEF HistoryStep

(* A finished instance has nothing left to start, complete or join.        *)
LEMMA FinishedIsIdle ==
  ASSUME IInv, istate = "COMPLETED"
  PROVE  /\ \A n \in Activities : ns[n] \notin {"ACTIVATED", "RUNNING"}
         /\ \A s \in SubProcesses : child[s] # "running"
BY CleanEndInv DEF CleanEnd, Terminal, Activities

(* No step takes history back.                                             *)
LEMMA HistoryInv == IInv /\ [Next]_vars => [HistoryStep]_vars
<1> SUFFICES ASSUME IInv, Next PROVE HistoryStep
  OBVIOUS
<1>1. ASSUME NEW seed \in Writes, NEW ip \in SUBSET Fresh, NEW out \in Outputs(ip), NEW late,
             Instantiate(seed, ip, out, late)
      PROVE  HistoryStep
  <2> DEFINE ns0 == [ns EXCEPT ![Start] = "ACTIVATED"]
             v   == View(seed, out, late)
             d   == Overlay(seed, out)
             m   == Marking(ns0, v, ip)
  <2>1. d \in Writes /\ v \in [XorSplits -> Writes]
    BY WriteTypes DEF Outputs
  <2>2. istate = "ABSENT" /\ Ready(Start, ns0) /\ performedBy' = performedBy
    BY <1>1, ReadyStart DEF Instantiate
  <2>3. CASE Resolved(ns0, m, v) /\ Advance(ns0, m, v, d)
    <3>1. Advancing(Start, ns0, m, v, d, ip)
      BY <2>1, <2>2, <2>3, ReadyAdvances
    <3> HIDE DEF ns0, v, d, m
    <3>2. QED  BY <2>2, <3>1, AdvanceHistory
  <2>4. CASE ns' = ns0 /\ UNCHANGED <<es, decisions>>
    <3>1. \A n \in Nodes : ns[n] = "NOT_ACTIVATED"
      BY <2>2 DEF IInv, Untouched
    <3>2. QED  BY <2>2, <2>4, <3>1 DEF HistoryStep, Terminal
  <2>5. QED  BY <1>1, <2>3, <2>4 DEF Instantiate
<1>2. ASSUME NEW n \in Activities, StartActivity(n)
      PROVE  HistoryStep
  BY <1>2 DEF StartActivity, HistoryStep, IInv, TypeOK, Terminal
<1>3. ASSUME NEW n \in Activities, NEW a \in Agents \cup {NoAgent}, NEW w \in Writes,
             NEW ip \in SUBSET Fresh, NEW out \in Outputs(ip), NEW late,
             CompleteActivity(n, a, w, ip, out, late)
      PROVE  HistoryStep
  <2> DEFINE ns0 == [ns EXCEPT ![n] = "COMPLETED"]
             c   == Overlay(data, w)
             v   == View(c, out, late)
             d   == Overlay(c, out)
             m   == Marking(ns0, v, ip)
  <2>1. d \in Writes /\ v \in [XorSplits -> Writes]
    BY WriteTypes DEF Outputs, IInv, TypeOK
  <2>2. istate # "COMPLETED" /\ Ready(n, ns0) /\ ns[n] # "COMPLETED"
    BY <1>3, ReadyWork DEF CompleteActivity
  <2>3. CASE /\ Resolved(ns0, m, v) /\ Advance(ns0, m, v, d)
             /\ performedBy' = [performedBy EXCEPT ![n] = IF a = NoAgent THEN @ ELSE a]
    <3>1. Advancing(n, ns0, m, v, d, ip)
      BY <2>1, <2>2, <2>3, ReadyAdvances
    <3>2. \A p \in Nodes : ns[p] = "COMPLETED" => performedBy'[p] = performedBy[p]
      BY <2>2, <2>3 DEF IInv, TypeOK
    <3> HIDE DEF ns0, v, d, m
    <3>3. QED  BY <2>2, <3>1, <3>2, AdvanceHistory
  <2>4. CASE UNCHANGED <<ns, es, istate, decisions, data, performedBy, child>>
    BY <2>4 DEF HistoryStep
  <2>5. QED  BY <1>3, <2>3, <2>4 DEF CompleteActivity
<1>4. ASSUME NEW s \in SubProcesses, NEW w \in Writes,
             NEW ip \in SUBSET Fresh, NEW out \in Outputs(ip), NEW late,
             JoinSubprocess(s, w, ip, out, late)
      PROVE  HistoryStep
  <2> DEFINE ns0 == [ns EXCEPT ![s] = "COMPLETED"]
             c   == Overlay(data, w)
             v   == View(c, out, late)
             d   == Overlay(c, out)
             m   == Marking(ns0, v, ip)
  <2>1. d \in Writes /\ v \in [XorSplits -> Writes]
    BY WriteTypes DEF Outputs, IInv, TypeOK
  <2>2. istate # "COMPLETED" /\ Ready(s, ns0) /\ performedBy' = performedBy
    BY <1>4, ReadyWork, FinishedIsIdle DEF JoinSubprocess, IInv, Awaited
  <2>3. CASE Resolved(ns0, m, v) /\ Advance(ns0, m, v, d)
    <3>1. Advancing(s, ns0, m, v, d, ip)
      BY <2>1, <2>2, <2>3, ReadyAdvances
    <3> HIDE DEF ns0, v, d, m
    <3>2. QED  BY <2>2, <3>1, AdvanceHistory
  <2>4. CASE UNCHANGED <<ns, es, istate, decisions, data>>
    BY <2>2, <2>4 DEF HistoryStep
  <2>5. QED  BY <1>4, <2>3, <2>4 DEF JoinSubprocess
<1>5. ASSUME NEW w \in TypedWrites, PutData(w)
      PROVE  HistoryStep
  BY <1>5 DEF PutData, HistoryStep
<1>6. QED  BY <1>1, <1>2, <1>3, <1>4, <1>5 DEF Next

(* No call takes back a finished node, a signal, a decision, a performer   *)
(* or the completion of the instance.                                      *)
THEOREM HistoryPreserved == Spec => HistoryKept
<1>1. IInv /\ [Next]_vars => [HistoryStep]_vars
  BY HistoryInv
<1>2. QED  BY <1>1, Invariance, PTL DEF Spec, HistoryKept

-----------------------------------------------------------------------------
(* A non-empty set of positions has a first one, below all the others.     *)
LEMMA FirstExists ==
  ASSUME NEW hits, hits \subseteq Nat, hits # {}
  PROVE  /\ First(hits) \in hits
         /\ \A j \in hits : First(hits) <= j
<1> DEFINE less == OpToRel(<, Nat)
<1>1. IsWellFoundedOn(less, Nat)
  BY NatLessThanWellFounded
<1>2. \A i, j \in Nat : i < j => <<i, j>> \in less
  BY DEF OpToRel
<1> HIDE DEF less
<1>3. PICK i \in hits : \A j \in hits : ~(<<j, i>> \in less)
  BY <1>1, WFMin
<1>4. \A j \in hits : i <= j
  <2> TAKE j \in hits
  <2>1. i \in Nat /\ j \in Nat
    OBVIOUS
  <2>2. ~(j < i)
    BY <1>2, <1>3, <2>1
  <2>3. QED
    BY <2>1, <2>2
<1>5. QED
  BY <1>4 DEF First

-----------------------------------------------------------------------------
(* Increasing bounds, the last one open: of the branches whose bound is    *)
(* above v, only the first has the bound of its neighbour at or below v.   *)
LEMMA FirstHitIsTheCell ==
  ASSUME NEW n \in Nat, n >= 2, NEW c, NEW v \in Int, NEW hits,
         \A i \in 1 .. n - 1 : c[i] \in Int,
         \A i \in 1 .. n - 2 : c[i] < c[i + 1],
         \A i : i \in hits <=> i \in 1 .. n /\ (i = n \/ v < c[i])
  PROVE  /\ hits # {}
         /\ First(hits) \in hits
         /\ \A i \in 1 .. n :
              i \in hits /\ (i > 1 => c[i - 1] <= v) <=> i = First(hits)
<1> DEFINE k == First(hits)
<1>1. hits \subseteq Nat /\ n \in hits
  OBVIOUS
<1>2. k \in hits /\ \A j \in hits : k <= j
  BY <1>1, FirstExists
<1> HIDE DEF k
<1>3. k \in 1 .. n
  BY <1>2
<1>4. ASSUME k > 1
      PROVE  c[k - 1] <= v
  <2>1. k - 1 \in 1 .. n - 1
    BY <1>3, <1>4
  <2>2. k - 1 \notin hits
    BY <1>2, <1>3
  <2>3. ~(v < c[k - 1])
    BY <2>1, <2>2
  <2>4. c[k - 1] \in Int
    BY <2>1
  <2>5. QED
    BY <2>3, <2>4
<1>5. ASSUME NEW i \in 1 .. n, i \in hits, i > 1 => c[i - 1] <= v
      PROVE  i = k
  <2>1. k <= i
    BY <1>2, <1>5
  <2>2. SUFFICES ASSUME k < i PROVE FALSE
    BY <1>3, <2>1
  <2> DEFINE missed == {j \in k .. i - 1 : j \notin hits}
             m      == First(missed)
  <2>3. i - 1 \in 1 .. n - 1 /\ i - 1 \in k .. i - 1 /\ i > 1
    BY <1>3, <2>2
  <2>4. i - 1 \notin hits
    <3>1. c[i - 1] \in Int /\ c[i - 1] <= v
      BY <1>5, <2>3
    <3>2. ~(v < c[i - 1])
      BY <3>1
    <3>3. i - 1 # n
      BY <2>3
    <3>4. QED
      BY <3>2, <3>3
  <2>5. i - 1 \in missed
    BY <2>3, <2>4
  <2>6. missed \subseteq Nat
    BY <1>3
  <2>7. m \in missed /\ \A j \in missed : m <= j
    BY <2>5, <2>6, FirstExists
  <2> HIDE DEF m
  <2>8. m \in k .. i - 1 /\ m # k /\ m \notin hits
    BY <1>2, <2>7
  <2>9. m - 1 \in k .. i - 1 /\ ~(m <= m - 1)
    BY <1>3, <2>8
  <2>10. m - 1 \notin missed
    BY <2>7, <2>9
  <2>11. m - 1 \in hits
    BY <2>9, <2>10
  <2>12. m - 1 \in 1 .. n - 2 /\ m - 1 \in 1 .. n - 1 /\ m \in 1 .. n - 1 /\ m - 1 + 1 = m
    BY <1>3, <2>8, <2>9
  <2>13. c[m - 1] < c[m]
    BY <2>12
  <2>14. v < c[m - 1]
    <3>1. m - 1 # n
      BY <2>12
    <3>2. QED
      BY <2>11, <3>1
  <2>15. ~(v < c[m])
    BY <2>8, <2>12
  <2>16. c[m - 1] \in Int /\ c[m] \in Int
    BY <2>12
  <2>17. QED
    BY <2>13, <2>14, <2>15, <2>16
<1>6. QED
  BY <1>1, <1>2, <1>3, <1>4, <1>5 DEF k

(* Numbers: an accepted split has a branch for each of them, and one only. *)
(* What resolve_xor_target returns, the first branch whose upper bound is  *)
(* above the value, is the branch whose interval holds it (model.py:825).  *)
THEOREM ThresholdTiles ==
  ASSUME NEW c \in Seq(Bounds), PartitionOK("THRESHOLD", c), NEW v \in Int
  PROVE  /\ Resolve("THRESHOLD", c, v) \in DOMAIN c
         /\ \A i \in DOMAIN c :
              InCell("THRESHOLD", c, i, v) <=> i = Resolve("THRESHOLD", c, v)
<1> DEFINE hits == {i \in DOMAIN c : Takes("THRESHOLD", c, i, v)}
<1>1. PICK n \in Nat : n = Len(c) /\ DOMAIN c = 1 .. n
  OBVIOUS
<1>2. n >= 2
  BY <1>1 DEF PartitionOK
<1>3. \A i \in 1 .. n : c[i] = Unbounded <=> i = n
  BY <1>1 DEF PartitionOK, ThresholdOK
<1>4. \A i \in 1 .. n - 2 : c[i] < c[i + 1]
  BY <1>1 DEF PartitionOK, ThresholdOK
<1>5. \A i \in 1 .. n : c[i] \in Int \/ c[i] = Unbounded
  BY <1>1 DEF Bounds
<1>6. \A i \in 1 .. n - 1 : c[i] \in Int
  <2> TAKE i \in 1 .. n - 1
  <2>1. i \in 1 .. n /\ i # n
    OBVIOUS
  <2>2. QED
    BY <1>3, <1>5, <2>1
<1>7. \A i : i \in hits <=> i \in 1 .. n /\ (i = n \/ v < c[i])
  BY <1>1, <1>3 DEF Takes, Below
<1> HIDE DEF hits
<1>8. /\ hits # {}
      /\ First(hits) \in hits
      /\ \A i \in 1 .. n :
           i \in hits /\ (i > 1 => c[i - 1] <= v) <=> i = First(hits)
  BY <1>2, <1>4, <1>6, <1>7, FirstHitIsTheCell
<1>9. Resolve("THRESHOLD", c, v) = First(hits)
  BY <1>8 DEF Resolve, hits
<1>10. \A i \in 1 .. n :
         InCell("THRESHOLD", c, i, v) <=> i \in hits /\ (i > 1 => c[i - 1] <= v)
  BY <1>1 DEF InCell, hits
<1>11. First(hits) \in 1 .. n
  BY <1>7, <1>8
<1>12. QED
  BY <1>1, <1>8, <1>9, <1>10, <1>11

-----------------------------------------------------------------------------
(* The only branch that takes a value is the one resolve_xor_target        *)
(* returns.                                                                *)
LEMMA SoleTaker ==
  ASSUME NEW kind, NEW c, NEW v, NEW i \in DOMAIN c, i \in Nat,
         \A j \in DOMAIN c : Takes(kind, c, j, v) <=> j = i
  PROVE  Resolve(kind, c, v) = i
<1> DEFINE hits == {j \in DOMAIN c : Takes(kind, c, j, v)}
<1>1. hits = {i}
  OBVIOUS
<1> HIDE DEF hits
<1>2. First(hits) = i
  BY <1>1, FirstExists
<1>3. QED
  BY <1>1, <1>2 DEF Resolve, hits

(* Texts and truth values: an accepted split has a branch for each of      *)
(* them, and one only, and that branch is the one chosen.                  *)
THEOREM EnumTiles ==
  ASSUME NEW c \in Seq(Cells), PartitionOK("ENUM", c), NEW v \in Texts
  PROVE  /\ Resolve("ENUM", c, v) \in DOMAIN c
         /\ \A i \in DOMAIN c :
              InCell("ENUM", c, i, v) <=> i = Resolve("ENUM", c, v)
<1>1. PICK e \in DOMAIN c : c[e].else /\ \A j \in DOMAIN c : c[j].else => j = e
  BY DEF PartitionOK, EnumOK
<1>2. \A i, j \in DOMAIN c : i # j => c[i].values \cap c[j].values = {}
  BY DEF PartitionOK, EnumOK
<1>3. \A i \in DOMAIN c : c[i].else <=> c[i].values = {}
  BY DEF PartitionOK, EnumOK
<1>4. \A i \in DOMAIN c : Takes("ENUM", c, i, v) <=>
        \/ ~c[i].else /\ v \in c[i].values
        \/ c[i].else /\ \A j \in DOMAIN c : c[j].else \/ v \notin c[j].values
  BY DEF Takes
<1>5. DOMAIN c \subseteq Nat
  OBVIOUS
<1>6. \E i \in DOMAIN c : \A j \in DOMAIN c : Takes("ENUM", c, j, v) <=> j = i
  <2>1. CASE \E i \in DOMAIN c : v \in c[i].values
    <3>1. PICK i \in DOMAIN c : v \in c[i].values
      BY <2>1
    <3>2. ~c[i].else
      BY <1>3, <3>1
    <3>3. \A j \in DOMAIN c : j # i => v \notin c[j].values
      BY <1>2, <3>1
    <3>4. \A j \in DOMAIN c : Takes("ENUM", c, j, v) <=> j = i
      BY <1>4, <3>1, <3>2, <3>3
    <3>5. QED
      BY <3>4
  <2>2. CASE ~ \E i \in DOMAIN c : v \in c[i].values
    <3>1. \A j \in DOMAIN c : Takes("ENUM", c, j, v) <=> j = e
      BY <1>1, <1>4, <2>2
    <3>2. QED
      BY <3>1
  <2>3. QED
    BY <2>1, <2>2
<1>7. PICK i \in DOMAIN c : \A j \in DOMAIN c : Takes("ENUM", c, j, v) <=> j = i
  BY <1>6
<1>8. Resolve("ENUM", c, v) = i
  BY <1>5, <1>7, SoleTaker
<1>9. QED
  BY <1>7, <1>8 DEF InCell

THEOREM BooleanTiles ==
  ASSUME NEW c \in Seq(BOOLEAN), PartitionOK("BOOLEAN", c), NEW v \in BOOLEAN
  PROVE  /\ Resolve("BOOLEAN", c, v) \in DOMAIN c
         /\ \A i \in DOMAIN c :
              InCell("BOOLEAN", c, i, v) <=> i = Resolve("BOOLEAN", c, v)
<1>1. DOMAIN c = {1, 2} /\ {c[i] : i \in DOMAIN c} = BOOLEAN
  BY DEF PartitionOK, BooleanOK
<1>2. PICK i \in DOMAIN c : c[i] = v
  BY <1>1
<1>3. c[1] # c[2]
  BY <1>1
<1>4. \A j \in DOMAIN c : c[j] = v => j = i
  BY <1>1, <1>2, <1>3
<1>5. \A j \in DOMAIN c : Takes("BOOLEAN", c, j, v) <=> j = i
  BY <1>2, <1>4 DEF Takes
<1>6. i \in Nat
  OBVIOUS
<1>7. Resolve("BOOLEAN", c, v) = i
  BY <1>5, <1>6, SoleTaker
<1>8. QED
  BY <1>5, <1>7 DEF InCell

-----------------------------------------------------------------------------
(* Deleting the only step of a branch takes the branch out of the split.   *)
(* What is left is a partition again unless the branch was the one that    *)
(* takes all the rest: the last interval or the catch-all                  *)
(* (operations.py:439).                                                    *)
THEOREM RemovalKeepsIntervals ==
  ASSUME NEW c \in Seq(Bounds), PartitionOK("THRESHOLD", c), Len(c) > 2,
         NEW i \in DOMAIN c
  PROVE  PartitionOK("THRESHOLD", Kept(c, i)) <=> i # Len(c)
<1>1. PICK n \in Nat : n = Len(c) /\ DOMAIN c = 1 .. n
  OBVIOUS
<1>2. n > 2 /\ i \in 1 .. n
  BY <1>1
<1>3. \A j \in 1 .. n : c[j] = Unbounded <=> j = n
  BY <1>1 DEF PartitionOK, ThresholdOK
<1>4. \A j \in 1 .. n - 2 : c[j] < c[j + 1]
  BY <1>1 DEF PartitionOK, ThresholdOK
<1>5. \A j \in 1 .. n - 1 : c[j] \in Int
  <2> TAKE j \in 1 .. n - 1
  <2>1. j \in 1 .. n /\ j # n /\ c[j] \in Bounds
    BY <1>1
  <2>2. QED
    BY <1>3, <2>1 DEF Bounds
<1> DEFINE d == Kept(c, i)
<1>6. /\ d \in Seq(Bounds)
      /\ Len(d) = n - 1
      /\ DOMAIN d = 1 .. n - 1
      /\ \A j \in 1 .. n - 1 : d[j] = IF j < i THEN c[j] ELSE c[j + 1]
  <2>1. d = [j \in 1 .. n - 1 |-> IF j < i THEN c[j] ELSE c[j + 1]]
    BY <1>1 DEF Kept
  <2>2. \A j \in 1 .. n - 1 : c[j] \in Bounds /\ c[j + 1] \in Bounds
    BY <1>1
  <2>3. d \in [1 .. n - 1 -> Bounds] /\ n - 1 \in Nat
    BY <1>2, <2>1, <2>2
  <2>4. d \in Seq(Bounds)
    BY <2>3
  <2>5. QED
    BY <2>1, <2>3, <2>4
<1> HIDE DEF d
<1>7. CASE i = n
  <2>1. d[n - 1] # Unbounded
    BY <1>2, <1>3, <1>6, <1>7
  <2>2. ~ThresholdOK(d)
    BY <1>2, <1>6, <2>1 DEF ThresholdOK
  <2>3. QED
    BY <1>1, <1>7, <2>2 DEF PartitionOK, d
<1>8. CASE i # n
  <2>1. ASSUME NEW j \in 1 .. n - 1
        PROVE  d[j] = Unbounded <=> j = n - 1
    BY <1>2, <1>3, <1>6, <1>8
  <2>2. ASSUME NEW j \in 1 .. n - 3
        PROVE  d[j] < d[j + 1]
    <3>1. /\ j \in 1 .. n - 2 /\ j + 1 \in 1 .. n - 2
          /\ j \in 1 .. n - 1 /\ j + 1 \in 1 .. n - 1 /\ j + 2 \in 1 .. n - 1
          /\ j + 1 + 1 = j + 2
      OBVIOUS
    <3>2. c[j] < c[j + 1] /\ c[j + 1] < c[j + 2]
      BY <1>4, <3>1
    <3>3. c[j] \in Int /\ c[j + 1] \in Int /\ c[j + 2] \in Int
      BY <1>5, <3>1
    <3>4. c[j] < c[j + 2]
      BY <3>2, <3>3
    <3>5. /\ d[j] = IF j < i THEN c[j] ELSE c[j + 1]
          /\ d[j + 1] = IF j + 1 < i THEN c[j + 1] ELSE c[j + 2]
      BY <1>6, <3>1
    <3>6. QED
      BY <1>2, <3>2, <3>4, <3>5
  <2>3. ThresholdOK(d)
    BY <1>2, <1>6, <2>1, <2>2 DEF ThresholdOK
  <2>4. QED
    BY <1>1, <1>2, <1>6, <1>8, <2>3 DEF PartitionOK, d
<1>9. QED
  BY <1>7, <1>8

THEOREM RemovalKeepsTexts ==
  ASSUME NEW c \in Seq(Cells), PartitionOK("ENUM", c), Len(c) > 2,
         NEW i \in DOMAIN c
  PROVE  PartitionOK("ENUM", Kept(c, i)) <=> ~c[i].else
<1>1. PICK n \in Nat : n = Len(c) /\ DOMAIN c = 1 .. n
  OBVIOUS
<1>2. n > 2 /\ i \in 1 .. n
  BY <1>1
<1>3. PICK e \in 1 .. n : c[e].else /\ \A j \in 1 .. n : c[j].else => j = e
  BY <1>1 DEF PartitionOK, EnumOK
<1>4. \A j \in 1 .. n : c[j].else <=> c[j].values = {}
  BY <1>1 DEF PartitionOK, EnumOK
<1>5. \A j, k \in 1 .. n : j # k => c[j].values \cap c[k].values = {}
  BY <1>1 DEF PartitionOK, EnumOK
<1> DEFINE d     == Kept(c, i)
           at(j) == IF j < i THEN j ELSE j + 1
<1>6. /\ d = [j \in 1 .. n - 1 |-> c[at(j)]]
      /\ DOMAIN d = 1 .. n - 1
      /\ \A j \in 1 .. n - 1 : at(j) \in 1 .. n /\ at(j) # i
      /\ \A j, k \in 1 .. n - 1 : at(j) = at(k) => j = k
      /\ \A m \in 1 .. n : m # i => \E j \in 1 .. n - 1 : at(j) = m
  <2>1. d = [j \in 1 .. n - 1 |-> c[at(j)]]
    BY <1>1 DEF Kept
  <2>2. \A j \in 1 .. n - 1 : at(j) \in 1 .. n /\ at(j) # i
    BY <1>2
  <2>3. \A j, k \in 1 .. n - 1 : at(j) = at(k) => j = k
    BY <1>2
  <2>4. ASSUME NEW m \in 1 .. n, m # i
        PROVE  \E j \in 1 .. n - 1 : at(j) = m
    <3>1. CASE m < i
      <4>1. m \in 1 .. n - 1 /\ at(m) = m
        BY <1>2, <3>1
      <4>2. QED
        BY <4>1
    <3>2. CASE m > i
      <4>1. m - 1 \in 1 .. n - 1 /\ at(m - 1) = m
        BY <1>2, <3>2
      <4>2. QED
        BY <4>1
    <3>3. QED
      BY <1>2, <2>4, <3>1, <3>2
  <2>5. QED
    BY <2>1, <2>2, <2>3, <2>4
<1>7. Len(d) = n - 1
  <2>1. \A j \in 1 .. n - 1 : c[at(j)] \in Cells
    BY <1>1, <1>6
  <2>2. d \in [1 .. n - 1 -> Cells] /\ n - 1 \in Nat
    BY <1>2, <1>6, <2>1
  <2>3. QED
    BY <2>2
<1> HIDE DEF d, at
<1>8. \A j \in 1 .. n - 1 : d[j] = c[at(j)]
  BY <1>6
<1>9. \A j \in DOMAIN d : d[j].else <=> d[j].values = {}
  BY <1>4, <1>6, <1>8
<1>10. \A j, k \in DOMAIN d : j # k => d[j].values \cap d[k].values = {}
  <2>1. SUFFICES ASSUME NEW j \in 1 .. n - 1, NEW k \in 1 .. n - 1, j # k
                 PROVE  d[j].values \cap d[k].values = {}
    BY <1>6
  <2>2. at(j) \in 1 .. n /\ at(k) \in 1 .. n /\ at(j) # at(k)
    BY <1>6, <2>1
  <2>3. c[at(j)].values \cap c[at(k)].values = {}
    BY <1>5, <2>2
  <2>4. QED
    BY <1>8, <2>3
<1>11. CASE c[i].else
  <2>1. \A j \in DOMAIN d : ~d[j].else
    BY <1>2, <1>3, <1>6, <1>8, <1>11
  <2>2. QED
    BY <1>11, <2>1 DEF PartitionOK, EnumOK, d
<1>12. CASE ~c[i].else
  <2>1. PICK f \in 1 .. n - 1 : at(f) = e
    BY <1>3, <1>6, <1>12
  <2>2. d[f].else /\ \A j \in DOMAIN d : d[j].else => j = f
    BY <1>3, <1>6, <1>8, <2>1
  <2>3. EnumOK(d)
    BY <1>6, <1>9, <1>10, <2>2 DEF EnumOK
  <2>4. Len(d) >= 2
    BY <1>2, <1>7
  <2>5. QED
    BY <1>12, <2>3, <2>4 DEF PartitionOK, d
<1>13. QED
  BY <1>11, <1>12

=============================================================================
