------------------------------ MODULE Validator ------------------------------
(***************************************************************************)
(* The structural and data-flow rules of validator.py (K1, K2, K3, K7, D1, *)
(* D2, D4) as operators over a schema record:                              *)
(*   kind    [node -> node type]                                           *)
(*   edges   set of <<source, target>>, or of <<source, target, i>> where  *)
(*           two edges may join the same nodes (edges is a list)           *)
(*   disc    [XOR split with a decision -> discriminator element]          *)
(*   branch  [XOR split with a decision -> [value -> target]]              *)
(*   reads   mandatory reads, writes  mandatory writes: <<node, element>>; *)
(*           the mapped outputs of a SUBPROCESS node are writes of it      *)
(* A branch table is a function of the value, so the disjointness half of  *)
(* K7 is built in; NoNode stands for a value no branch takes.              *)
(***************************************************************************)
EXTENDS Naturals, FiniteSets, FiniteSetsExt, TLC

Splits == {"AND_SPLIT", "XOR_SPLIT"}
Joins  == {"AND_JOIN", "XOR_JOIN"}

(* The table f with v as its entry for x.                                  *)
With(f, x, v) == [y \in DOMAIN f \cup {x} |-> IF y = x THEN v ELSE f[y]]

NodesOfKind(S, k) == {n \in DOMAIN S.kind : S.kind[n] = k}
Into(S, n)  == {e \in S.edges : e[2] = n}
OutOf(S, n) == {e \in S.edges : e[1] = n}
Preds(S, n) == {e[1] : e \in Into(S, n)} \cap DOMAIN S.kind
Succs(S, n) == {e[2] : e \in OutOf(S, n)} \cap DOMAIN S.kind

-----------------------------------------------------------------------------
(* Mutant: a target that is not there is passed over.                      *)
EdgesOK_Tolerant(S) == TRUE

(* An edge left to a removed node is no finding of a rule: the analysis of *)
(* D1 looks its target up and fails, and the request with it.              *)
EdgesOK(S) == \A e \in S.edges : e[2] \in DOMAIN S.kind

(* K2: one START and one END, and the degrees each type of node may have.  *)
DegreesOK(S, n) ==
  LET in == Cardinality(Into(S, n)) out == Cardinality(OutOf(S, n)) k == S.kind[n] IN
  /\ k = "START" => in = 0 /\ out = 1
  /\ k = "END" => in = 1 /\ out = 0
  /\ k \in {"ACTIVITY", "SUBPROCESS"} => in = 1 /\ out = 1
  /\ k \in Splits => in = 1 /\ out >= 2
  /\ k \in Joins => in >= 2 /\ out = 1

K2(S) ==
  /\ Cardinality(NodesOfKind(S, "START")) = 1 /\ Cardinality(NodesOfKind(S, "END")) = 1
  /\ \A n \in DOMAIN S.kind : DegreesOK(S, n)

(* K1: as many joins as splits of each type.                               *)
K1(S) ==
  /\ Cardinality(NodesOfKind(S, "AND_SPLIT")) = Cardinality(NodesOfKind(S, "AND_JOIN"))
  /\ Cardinality(NodesOfKind(S, "XOR_SPLIT")) = Cardinality(NodesOfKind(S, "XOR_JOIN"))

(* _bfs: the nodes of from and all that step leads to, front by front.     *)
Closure(step(_), from, size) ==
  LET r[k \in Nat] ==
        IF k = 0 THEN [seen |-> from, front |-> from]
        ELSE LET q == r[k - 1]
                 new == (UNION {step(n) : n \in q.front}) \ q.seen
             IN [seen |-> q.seen \cup new, front |-> new]
  IN r[size].seen
Reachable(S, n) == LET s(m) == Succs(S, m) IN Closure(s, s(n), Cardinality(DOMAIN S.kind))

(* K3: every node lies on a way from START to END.                         *)
K3(S) ==
  LET s(n) == Succs(S, n) p(n) == Preds(S, n) N == DOMAIN S.kind IN
  /\ Closure(s, NodesOfKind(S, "START"), Cardinality(N)) = N
  /\ Closure(p, NodesOfKind(S, "END"), Cardinality(N)) = N

-----------------------------------------------------------------------------
(* _topological_order: a node follows when all its predecessors are there, *)
(* so nodes on or behind a cycle never do.                                 *)
Ordered(S) ==
  LET r[k \in Nat] ==
        IF k = 0 THEN {}
        ELSE LET q == r[k - 1] IN {n \in DOMAIN S.kind : Preds(S, n) \subseteq q}
  IN r[Cardinality(DOMAIN S.kind)]

WrittenAt(S, n) == {w[2] : w \in {w \in S.writes : w[1] = n}}

(* Mutant: what a node itself writes counts as written before it.          *)
MustWrittenBefore_Own(S) ==
  LET ordered == Ordered(S)
      after[n \in DOMAIN S.kind] ==
        LET before == {after[p] : p \in Preds(S, n)} IN
        WrittenAt(S, n) \cup
        (IF n \notin ordered THEN {}
         ELSE IF S.kind[n] = "AND_JOIN" THEN UNION before
         ELSE {x \in UNION before : \A written \in before : x \in written})
  IN after

(* _must_written_before: the elements written on every way to a node; an   *)
(* AND_JOIN unites what its branches write, any other node intersects.     *)
MustWrittenBefore(S) ==
  LET ordered == Ordered(S)
      before[n \in DOMAIN S.kind] ==
        LET after == {before[p] \cup WrittenAt(S, p) : p \in Preds(S, n)} IN
        IF n \notin ordered THEN {}
        ELSE IF S.kind[n] = "AND_JOIN" THEN UNION after
        ELSE {x \in UNION after : \A written \in after : x \in written}
  IN before

(* Mutant: a join is reached over any of its branches.                     *)
MustExecutedBefore_AnyBranch(S) ==
  LET ordered == Ordered(S)
      before[n \in DOMAIN S.kind] ==
        IF n \notin ordered THEN {} ELSE UNION {before[p] \cup {p} : p \in Preds(S, n)}
  IN before

(* _must_executed_before: the same analysis of nodes in place of writes.   *)
MustExecutedBefore(S) ==
  LET ordered == Ordered(S)
      before[n \in DOMAIN S.kind] ==
        LET after == {before[p] \cup {p} : p \in Preds(S, n)} IN
        IF n \notin ordered THEN {}
        ELSE IF S.kind[n] = "AND_JOIN" THEN UNION after
        ELSE {x \in UNION after : \A executed \in after : x \in executed}
  IN before

(* K7: every XOR split has a decision over an element that is written      *)
(* before it, with one branch per outgoing edge and one for every value.   *)
K7(S, typed) ==
  LET before == MustWrittenBefore(S) IN
  /\ DOMAIN S.disc = NodesOfKind(S, "XOR_SPLIT")
  /\ \A x \in DOMAIN S.disc :
       /\ {S.branch[x][v] : v \in typed} = Succs(S, x)
       /\ S.disc[x] \in before[x]

(* D4: activities access data, and children by their mapped outputs.       *)
D4(S) ==
  /\ \A r \in S.reads : r[1] \in NodesOfKind(S, "ACTIVITY")
  /\ \A w \in S.writes : w[1] \in NodesOfKind(S, "ACTIVITY") \cup NodesOfKind(S, "SUBPROCESS")

(* D1: what a node must read is written before it.                         *)
D1(S) ==
  LET before == MustWrittenBefore(S) IN
  \A r \in S.reads : r[2] \in before[r[1]]

(* Mutant: the outermost split counts.                                     *)
ParallelUnderAnd_Outermost(S, a, b) ==
  LET common == {x \in DOMAIN S.kind :
                   S.kind[x] \in Splits /\ {a, b} \subseteq Reachable(S, x)}
  IN \E x \in common : /\ \A y \in common \ {x} : y \in Reachable(S, x)
                       /\ S.kind[x] = "AND_SPLIT"

(* _parallel_under_and: the innermost split in front of both is an AND.    *)
ParallelUnderAnd(S, a, b) ==
  LET common == {x \in DOMAIN S.kind :
                   S.kind[x] \in Splits /\ {a, b} \subseteq Reachable(S, x)}
  IN \E x \in common : /\ \A y \in common \ {x} : x \in Reachable(S, y)
                       /\ S.kind[x] = "AND_SPLIT"

(* D2: unordered writers of one element are not parallel.                  *)
D2(S) ==
  \A w1, w2 \in S.writes :
    w1[2] = w2[2] /\ w1[1] # w2[1] =>
      \/ w2[1] \in Reachable(S, w1[1]) \/ w1[1] \in Reachable(S, w2[1])
      \/ ~ParallelUnderAnd(S, w1[1], w2[1])

(* validate, as far as these rules go; D1 and D2 are skipped while the     *)
(* structure is broken, which is reported anyway.                          *)
Valid(S, typed) ==
  EdgesOK(S) /\ K1(S) /\ K2(S) /\ K3(S) /\ K7(S, typed) /\ D4(S) /\ D1(S) /\ D2(S)

-----------------------------------------------------------------------------
(* What an execution makes of a schema: a route chooses a target for every *)
(* XOR split, and the nodes that run under it are those the taken edges    *)
(* lead to.                                                                *)
Routes(S) ==
  LET X == NodesOfKind(S, "XOR_SPLIT") IN
  {c \in [X -> UNION {Succs(S, x) : x \in X}] : \A x \in X : c[x] \in Succs(S, x)}

Taken(S, c, e) == S.kind[e[1]] = "XOR_SPLIT" => c[e[1]] = e[2]

Ran(S, c) ==
  LET s(n) == {e[2] : e \in {e \in OutOf(S, n) : Taken(S, c, e)}} \cap DOMAIN S.kind
  IN Closure(s, NodesOfKind(S, "START"), Cardinality(DOMAIN S.kind))

=============================================================================
