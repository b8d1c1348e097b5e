----------------------------- MODULE BlocksProofs -----------------------------
(***************************************************************************)
(* What it means for execution that the blocks of a schema are nested      *)
(* (module Blocks), for every graph: on every route all branches of an AND *)
(* block run or none, one branch of an XOR block that runs, and END is     *)
(* reached; nodes that both run and are not ordered lie in different       *)
(* branches of an AND block; and the search for the end of a block that    *)
(* deletion does finds the block.                                          *)
(***************************************************************************)
EXTENDS SchemaOps, ValidatorProofs

-----------------------------------------------------------------------------
(* Induction along the order of the nodes, from either end.                *)
LEMMA ByRank ==
  ASSUME NEW N, NEW rank \in [N -> Nat], NEW P,
         \A n \in N : (\A m \in N : rank[m] < rank[n] => m \in P) => n \in P
  PROVE  N \subseteq P
<1>1. SUFFICES ASSUME NEW x \in N, x \notin P PROVE FALSE
  OBVIOUS
<1>2. PICK R : R = {rank[n] : n \in N \ P}
  OBVIOUS
<1>3. R \in SUBSET Nat /\ R # {}
  BY <1>1, <1>2
<1>4. PICK k \in R : \A i \in R : k <= i
  BY <1>3, LeastNumber
<1>5. PICK n \in N \ P : rank[n] = k
  BY <1>2, <1>4
<1>6. ASSUME NEW m \in N, rank[m] < rank[n] PROVE m \in P
  <2>1. rank[m] \in R => k <= rank[m]
    BY <1>4
  <2>2. k \in Nat /\ rank[m] \in Nat /\ rank[m] < k
    BY <1>3, <1>4, <1>5, <1>6
  <2>3. QED
    BY <1>2, <2>1, <2>2
<1>7. QED
  BY <1>5, <1>6

(* As many nodes lie below n in the order.                                 *)
Below(N, rank, n) == Cardinality({m \in N : rank[m] < rank[n]})
Above(N, rank, n) == Cardinality({m \in N : rank[n] < rank[m]})

LEMMA StrictlyFewer ==
  ASSUME NEW A, IsFiniteSet(A), NEW B \in SUBSET A, NEW x \in A, x \notin B
  PROVE  Cardinality(B) \in Nat /\ Cardinality(A) \in Nat /\ Cardinality(B) < Cardinality(A)
<1>1. IsFiniteSet(A \ {x}) /\ Cardinality(A \ {x}) = Cardinality(A) - 1
  BY FS_RemoveElement
<1>2. B \in SUBSET (A \ {x})
  OBVIOUS
<1>3. IsFiniteSet(B) /\ Cardinality(B) <= Cardinality(A \ {x})
  BY <1>1, <1>2, FS_Subset
<1>4. Cardinality(A) \in Nat /\ Cardinality(B) \in Nat
  BY <1>3, FS_CardinalityType
<1>5. QED
  BY <1>1, <1>3, <1>4

LEMMA BelowGrows ==
  ASSUME NEW N, IsFiniteSet(N), NEW rank \in [N -> Nat], NEW m \in N, NEW n \in N,
         rank[m] < rank[n]
  PROVE  /\ Below(N, rank, m) \in Nat /\ Below(N, rank, n) \in Nat
         /\ Below(N, rank, m) < Below(N, rank, n)
         /\ Above(N, rank, m) \in Nat /\ Above(N, rank, n) \in Nat
         /\ Above(N, rank, n) < Above(N, rank, m)
<1>1. PICK A : A = {k \in N : rank[k] < rank[n]}
  OBVIOUS
<1>2. PICK B : B = {k \in N : rank[k] < rank[m]}
  OBVIOUS
<1>3. B \in SUBSET A /\ m \in A /\ m \notin B
  BY <1>1, <1>2
<1>4. PICK C : C = {k \in N : rank[m] < rank[k]}
  OBVIOUS
<1>5. PICK D : D = {k \in N : rank[n] < rank[k]}
  OBVIOUS
<1>6. D \in SUBSET C /\ n \in C /\ n \notin D
  BY <1>4, <1>5
<1>7. IsFiniteSet(A) /\ IsFiniteSet(C)
  BY <1>1, <1>4, FS_Subset
<1>8. QED
  BY <1>1, <1>2, <1>3, <1>4, <1>5, <1>6, <1>7, StrictlyFewer DEF Below, Above

LEMMA FromAbove ==
  ASSUME NEW N, IsFiniteSet(N), NEW rank \in [N -> Nat], NEW P,
         \A n \in N : (\A m \in N : rank[n] < rank[m] => m \in P) => n \in P
  PROVE  N \subseteq P
<1>1. PICK up : up = [n \in N |-> Above(N, rank, n)]
  OBVIOUS
<1>2. up \in [N -> Nat]
  <2>1. ASSUME NEW n \in N PROVE Above(N, rank, n) \in Nat
    BY FS_Subset, FS_CardinalityType DEF Above
  <2>2. QED
    BY <1>1, <2>1
<1>3. \A m, n \in N : rank[n] < rank[m] => up[m] < up[n]
  BY <1>1, BelowGrows
<1>4. \A n \in N : (\A m \in N : up[m] < up[n] => m \in P) => n \in P
  BY <1>3
<1>5. QED
  BY <1>2, <1>4, ByRank

-----------------------------------------------------------------------------
(* The degrees of K2 as facts about edges.                                 *)
Drawn(S, rank) ==
  /\ IsFiniteSet(DOMAIN S.kind) /\ IsFiniteSet(S.edges)
  /\ S.kind \in [DOMAIN S.kind -> Kinds] /\ Ranked(S, rank) /\ K2(S)

LEMMA OnlyOne ==
  ASSUME NEW A, IsFiniteSet(A), Cardinality(A) = 1
  PROVE  A # {} /\ \A x, y \in A : x = y
<1>1. PICK a : A = {a}
  BY FS_Singleton
<1>2. QED
  BY <1>1

LEMMA Degrees ==
  ASSUME NEW S, NEW rank, Drawn(S, rank), NEW n \in DOMAIN S.kind
  PROVE  /\ S.kind[n] = "START" => Into(S, n) = {}
         /\ S.kind[n] = "END" => OutOf(S, n) = {}
         /\ S.kind[n] # "START" => Into(S, n) # {}
         /\ S.kind[n] # "END" => OutOf(S, n) # {}
         /\ S.kind[n] \notin Joins => \A e, f \in Into(S, n) : e = f
         /\ S.kind[n] \notin Splits => \A e, f \in OutOf(S, n) : e = f
<1>1. PICK I : I = Into(S, n)
  OBVIOUS
<1>2. PICK O : O = OutOf(S, n)
  OBVIOUS
<1>3. IsFiniteSet(I) /\ IsFiniteSet(O)
  BY <1>1, <1>2, FS_Subset DEF Drawn, Into, OutOf
<1>4. Cardinality(I) \in Nat /\ Cardinality(O) \in Nat
  BY <1>3, FS_CardinalityType
<1>5. /\ Cardinality(I) = 0 => I = {}
      /\ Cardinality(O) = 0 => O = {}
      /\ Cardinality(I) # 0 => I # {}
      /\ Cardinality(O) # 0 => O # {}
      /\ Cardinality(I) = 1 => \A e, f \in I : e = f
      /\ Cardinality(O) = 1 => \A e, f \in O : e = f
  BY <1>3, FS_EmptySet, OnlyOne
<1>6. PICK in, out : in = Cardinality(I) /\ out = Cardinality(O)
  OBVIOUS
<1>7. PICK k : k = S.kind[n]
  OBVIOUS
<1>8. /\ k = "START" => in = 0 /\ out = 1
      /\ k = "END" => in = 1 /\ out = 0
      /\ k \in {"ACTIVITY", "SUBPROCESS"} => in = 1 /\ out = 1
      /\ k \in Splits => in = 1 /\ out >= 2
      /\ k \in Joins => in >= 2 /\ out = 1
  BY <1>1, <1>2, <1>6, <1>7 DEF Drawn, K2, DegreesOK
<1>9. k \in Kinds
  BY <1>7 DEF Drawn
<1>10. /\ k = "START" => in = 0
       /\ k = "END" => out = 0
       /\ k # "START" => in # 0
       /\ k # "END" => out # 0
       /\ k \notin Joins => in = 0 \/ in = 1
       /\ k \notin Splits => out = 0 \/ out = 1
  BY <1>4, <1>6, <1>8, <1>9 DEF Kinds, Splits, Joins
<1>11. QED
  BY <1>1, <1>2, <1>5, <1>6, <1>7, <1>10

LEMMA Single ==
  ASSUME NEW S, NEW rank, Drawn(S, rank)
  PROVE  \A m, n \in DOMAIN S.kind : S.kind[m] = S.kind[n] /\ S.kind[n] \in {"START", "END"} => m = n
<1>1. PICK A, B : A = NodesOfKind(S, "START") /\ B = NodesOfKind(S, "END")
  OBVIOUS
<1>2. IsFiniteSet(A) /\ IsFiniteSet(B)
  BY <1>1, FS_Subset DEF Drawn, NodesOfKind
<1>3. Cardinality(A) = 1 /\ Cardinality(B) = 1
  BY <1>1 DEF Drawn, K2
<1>4. (\A m, n \in A : m = n) /\ (\A m, n \in B : m = n)
  BY <1>2, <1>3, OnlyOne
<1>5. QED
  BY <1>1, <1>4 DEF NodesOfKind

-----------------------------------------------------------------------------
(* Reachable, edge by edge.                                                *)
LEMMA OverEdge ==
  ASSUME NEW S, NEW rank, Drawn(S, rank), NEW e \in S.edges
  PROVE  /\ e[1] \in DOMAIN S.kind /\ e[2] \in DOMAIN S.kind /\ rank[e[1]] < rank[e[2]]
         /\ e \in OutOf(S, e[1]) /\ e \in Into(S, e[2])
         /\ e[2] \in Succs(S, e[1]) /\ e[1] \in Preds(S, e[2])
BY DEF Drawn, Ranked, OutOf, Into, Succs, Preds

LEMMA Onwards ==
  ASSUME NEW S, NEW rank, Drawn(S, rank), NEW n \in DOMAIN S.kind
  PROVE  /\ Reachable(S, n) \subseteq DOMAIN S.kind
         /\ \A e \in OutOf(S, n) : e[2] \in Reachable(S, n)
         /\ \A e \in S.edges : e[1] \in Reachable(S, n) => e[2] \in Reachable(S, n)
         /\ \A Z : /\ \A e \in OutOf(S, n) : e[2] \in Z
                   /\ \A e \in S.edges : e[1] \in Z /\ e[1] \in Reachable(S, n) => e[2] \in Z
                   => Reachable(S, n) \subseteq Z
<1>1. PICK N : N = DOMAIN S.kind
  OBVIOUS
<1>2. PICK step : step = [m \in N |-> Succs(S, m)]
  OBVIOUS
<1>3. PICK from : from = Succs(S, n)
  OBVIOUS
<1>4. PICK C : C = Reachable(S, n)
  OBVIOUS
<1>5. Closes(C, N, step, from)
  BY <1>1, <1>2, <1>3, <1>4, ReachableCloses DEF Drawn
<1>6. C \subseteq N /\ from \subseteq C /\ \A m \in C : step[m] \subseteq C
  BY <1>5 DEF Closes
<1>7. ASSUME NEW e \in OutOf(S, n) PROVE e[2] \in C
  BY <1>3, <1>6, OverEdge DEF OutOf
<1>8. ASSUME NEW e \in S.edges, e[1] \in C PROVE e[2] \in C
  BY <1>1, <1>2, <1>6, <1>8, OverEdge
<1>9. ASSUME NEW Z, \A e \in OutOf(S, n) : e[2] \in Z,
             \A e \in S.edges : e[1] \in Z /\ e[1] \in C => e[2] \in Z
      PROVE  C \subseteq Z
  <2>1. PICK Y : Y = Z \cap C
    OBVIOUS
  <2>2. from \subseteq Y
    BY <1>3, <1>6, <1>9, <2>1 DEF Succs
  <2>3. ASSUME NEW m \in Y PROVE step[m] \subseteq Y
    <3>1. m \in C /\ m \in N /\ m \in Z
      BY <1>6, <2>1, <2>3
    <3>2. step[m] \subseteq C /\ step[m] = Succs(S, m)
      BY <1>2, <1>6, <3>1
    <3>3. ASSUME NEW t \in Succs(S, m) PROVE t \in Z
      <4>1. PICK e \in S.edges : e[1] = m /\ e[2] = t
        BY <3>3 DEF Succs, OutOf
      <4>2. QED
        BY <1>9, <3>1, <4>1
    <3>4. QED
      BY <2>1, <3>2, <3>3
  <2>4. C \subseteq Y
    BY <1>5, <2>2, <2>3 DEF Closes
  <2>5. QED
    BY <2>1, <2>4
<1>10. QED
  BY <1>1, <1>4, <1>6, <1>7, <1>8, <1>9

LEMMA Further ==
  ASSUME NEW S, NEW rank, Drawn(S, rank), NEW a \in DOMAIN S.kind, NEW b \in Reachable(S, a)
  PROVE  /\ b \in DOMAIN S.kind /\ rank[a] < rank[b] /\ a # b
         /\ Reachable(S, b) \subseteq Reachable(S, a)
<1>1. PICK N : N = DOMAIN S.kind
  OBVIOUS
<1>2. rank \in [N -> Nat]
  BY <1>1 DEF Drawn, Ranked
<1>3. b \in N
  BY <1>1, Onwards
<1>4. PICK Z : Z = {m \in N : rank[a] < rank[m]}
  OBVIOUS
<1>5. ASSUME NEW e \in S.edges, e[1] = a \/ e[1] \in Z PROVE e[2] \in Z
  <2>1. e[1] \in N /\ e[2] \in N /\ rank[e[1]] < rank[e[2]]
    BY <1>1, OverEdge
  <2>2. QED
    BY <1>1, <1>2, <1>4, <1>5, <2>1
<1>6. Reachable(S, a) \subseteq Z
  BY <1>5, Onwards DEF OutOf
<1>7. Reachable(S, b) \subseteq Reachable(S, a)
  <2>1. \A e \in OutOf(S, b) : e[2] \in Reachable(S, a)
    BY Onwards DEF OutOf
  <2>2. \A e \in S.edges : e[1] \in Reachable(S, a) => e[2] \in Reachable(S, a)
    BY Onwards
  <2>3. QED
    BY <1>1, <1>3, <2>1, <2>2, Onwards
<1>8. QED
  BY <1>1, <1>2, <1>3, <1>4, <1>6, <1>7
-----------------------------------------------------------------------------
(* The lanes of nodes and edges.                                           *)
Nest(S, rank, path, open) == Drawn(S, rank) /\ NestedBy(S, rank, path, open)

LEMMA EdgeLanes ==
  ASSUME NEW S, NEW rank, NEW path, NEW open, NestedBy(S, rank, path, open), NEW e \in S.edges
  PROVE  /\ path[e[1]] \subseteq Along(S, path, e) /\ Along(S, path, e) \subseteq path[e[1]] \cup {e}
         /\ path[e[2]] \subseteq Along(S, path, e)
         /\ S.kind[e[1]] \in Splits => e \in Along(S, path, e)
         /\ S.kind[e[1]] \notin Splits => Along(S, path, e) = path[e[1]]
         /\ S.kind[e[2]] \notin Joins => path[e[2]] = Along(S, path, e)
         /\ S.kind[e[2]] \in Joins =>
              \E l \in OutOf(S, open[e[2]]) : Along(S, path, e) = path[e[2]] \cup {l}
<1>1. e[1] \in DOMAIN S.kind /\ e[2] \in DOMAIN S.kind
  BY DEF NestedBy, Ranked
<1>2. ASSUME S.kind[e[2]] \in Joins
      PROVE  \E l \in OutOf(S, open[e[2]]) : Along(S, path, e) = path[e[2]] \cup {l}
  <2>1. e[2] \in OfKinds(S, Joins) /\ e \in Into(S, e[2])
    BY <1>1, <1>2 DEF OfKinds, Into
  <2>2. Closing(S, path, e[2], open[e[2]])
    BY <2>1 DEF NestedBy, Paired
  <2>3. Along(S, path, e) \in {path[e[2]] \cup {l} : l \in OutOf(S, open[e[2]])}
    BY <2>1, <2>2 DEF Closing
  <2>4. QED
    BY <2>3
<1>3. S.kind[e[2]] \notin Joins => path[e[2]] = Along(S, path, e)
  BY DEF NestedBy, Laned
<1>4. path[e[2]] \subseteq Along(S, path, e)
  BY <1>2, <1>3
<1>5. QED
  BY <1>2, <1>3, <1>4 DEF Along, LaneEdges

LEMMA LanesBelow ==
  ASSUME NEW S, NEW rank, NEW path, NEW open, Nest(S, rank, path, open)
  PROVE  /\ \A n \in DOMAIN S.kind : \A l \in path[n] :
              /\ l \in S.edges /\ S.kind[l[1]] \in Splits /\ l[1] \in DOMAIN S.kind
              /\ S.kind[n] \notin {"START", "END"}
              /\ rank[l[1]] < rank[n]
         /\ \A n \in DOMAIN S.kind : \A l, k \in path[n] : l[1] = k[1] => l = k
         /\ \A x \in DOMAIN S.kind : \A l \in OutOf(S, x) : l \notin path[x]
<1>1. PICK N : N = DOMAIN S.kind
  OBVIOUS
<1>2. rank \in [N -> Nat] /\ \A e \in S.edges : e[1] \in N /\ e[2] \in N /\ rank[e[1]] < rank[e[2]]
  BY <1>1 DEF Nest, Drawn, Ranked
<1>3. ASSUME NEW n \in N, NEW l \in path[n]
      PROVE  l \in S.edges /\ S.kind[l[1]] \in Splits /\ S.kind[n] \notin {"START", "END"}
  BY <1>1, <1>3 DEF Nest, NestedBy, Laned, LaneEdges, OfKinds
<1>4. NestedBy(S, rank, path, open) /\ Drawn(S, rank)
  BY DEF Nest
<1>5. PICK P : P = {n \in N : /\ \A l \in path[n] : rank[l[1]] < rank[n]
                               /\ \A i, k \in path[n] : i[1] = k[1] => i = k}
  OBVIOUS
<1>6. ASSUME NEW n \in N, \A m \in N : rank[m] < rank[n] => m \in P
      PROVE  n \in P
  <2>1. CASE path[n] = {}
    BY <1>5, <2>1
  <2>2. CASE path[n] # {}
    <3>1. Into(S, n) # {}
      BY <1>1, <1>3, <1>4, <2>2, Degrees
    <3>2. PICK e \in S.edges : e[2] = n
      BY <3>1 DEF Into
    <3>3. PICK a : a = e[1]
      OBVIOUS
    <3>4. a \in N /\ rank[a] < rank[n] /\ rank[a] \in Nat /\ rank[n] \in Nat
      BY <1>2, <3>2, <3>3
    <3>5. a \in P
      BY <1>6, <3>4
    <3>6. path[n] \subseteq path[a] \cup {e}
      BY <1>4, <3>2, <3>3, EdgeLanes
    <3>7. ASSUME NEW l \in path[n] PROVE rank[l[1]] < rank[n]
      <4>1. l[1] \in N
        BY <1>2, <1>3, <3>7
      <4>2. rank[l[1]] \in Nat
        BY <1>2, <4>1
      <4>3. rank[l[1]] < rank[a] \/ l[1] = a
        BY <1>5, <3>3, <3>5, <3>6, <3>7
      <4>4. QED
        BY <3>4, <4>2, <4>3
    <3>8. ASSUME NEW l \in path[n], NEW k \in path[n], l[1] = k[1] PROVE l = k
      <4>1. \A i \in path[a] : i[1] # a
        <5>1. \A i \in path[a] : rank[i[1]] < rank[a]
          BY <1>5, <3>5
        <5>2. QED
          BY <3>4, <5>1
      <4>2. QED
        BY <1>5, <3>3, <3>5, <3>6, <3>8, <4>1
    <3>9. QED
      BY <1>5, <3>7, <3>8
  <2>3. QED
    BY <2>1, <2>2
<1>7. N \subseteq P
  BY <1>2, <1>6, ByRank
<1>8. \A n \in N : \A l \in path[n] : rank[l[1]] < rank[n]
  BY <1>5, <1>7
<1>9. ASSUME NEW x \in N, NEW l \in OutOf(S, x) PROVE l \notin path[x]
  <2>1. l[1] = x /\ rank[x] \in Nat
    BY <1>2, <1>9 DEF OutOf
  <2>2. QED
    BY <1>8, <2>1
<1>10. QED
  BY <1>1, <1>2, <1>3, <1>5, <1>7, <1>8, <1>9

(* The split of a join lies below it, in the same lanes.                   *)
LEMMA OpensBelow ==
  ASSUME NEW S, NEW rank, NEW path, NEW open, Nest(S, rank, path, open),
         NEW j \in OfKinds(S, Joins)
  PROVE  /\ open[j] \in DOMAIN S.kind /\ S.kind[open[j]] \in Splits
         /\ j \in DOMAIN S.kind /\ S.kind[j] \in Joins
         /\ path[open[j]] = path[j] /\ rank[open[j]] < rank[j]
<1>1. PICK x : x = open[j]
  OBVIOUS
<1>2. NestedBy(S, rank, path, open) /\ Drawn(S, rank)
  BY DEF Nest
<1>3. /\ x \in DOMAIN S.kind /\ S.kind[x] \in Splits /\ path[x] = path[j]
      /\ {Along(S, path, e) : e \in Into(S, j)} = {path[j] \cup {l} : l \in OutOf(S, x)}
  BY <1>1, <1>2 DEF NestedBy, Paired, Closing, OfKinds
<1>4. j \in DOMAIN S.kind /\ S.kind[j] \in Joins
  BY DEF OfKinds
<1>5. OutOf(S, x) # {}
  <2>1. S.kind[x] # "END"
    BY <1>3 DEF Splits
  <2>2. QED
    BY <1>2, <1>3, <2>1, Degrees
<1>6. PICK l \in OutOf(S, x) : TRUE
  BY <1>5
<1>7. PICK e \in Into(S, j) : Along(S, path, e) = path[j] \cup {l}
  BY <1>3, <1>6
<1>8. e \in S.edges /\ e[2] = j /\ l[1] = x
  BY <1>6, <1>7 DEF Into, OutOf
<1>9. /\ e[1] \in DOMAIN S.kind /\ rank[e[1]] < rank[j]
      /\ rank[x] \in Nat /\ rank[j] \in Nat /\ rank[e[1]] \in Nat
  BY <1>2, <1>3, <1>4, <1>8 DEF Drawn, Ranked
<1>10. l \in path[e[1]] \cup {e}
  BY <1>2, <1>7, <1>8, EdgeLanes
<1>11. rank[x] < rank[e[1]] \/ x = e[1]
  BY <1>8, <1>9, <1>10, LanesBelow
<1>12. QED
  BY <1>1, <1>3, <1>4, <1>9, <1>11

(* Who lies in a lane lies in all that its split lies in.                  *)
LEMMA LanesNest ==
  ASSUME NEW S, NEW rank, NEW path, NEW open, Nest(S, rank, path, open)
  PROVE  \A n \in DOMAIN S.kind : \A l \in path[n] : path[l[1]] \subseteq path[n]
<1>1. PICK N : N = DOMAIN S.kind
  OBVIOUS
<1>2. NestedBy(S, rank, path, open) /\ Drawn(S, rank)
  BY DEF Nest
<1>3. rank \in [N -> Nat] /\ \A e \in S.edges : e[1] \in N /\ e[2] \in N /\ rank[e[1]] < rank[e[2]]
  BY <1>1, <1>2 DEF Drawn, Ranked
<1>4. PICK P : P = {n \in N : \A l \in path[n] : path[l[1]] \subseteq path[n]}
  OBVIOUS
<1>5. ASSUME NEW n \in N, \A m \in N : rank[m] < rank[n] => m \in P
      PROVE  n \in P
  <2>1. SUFFICES ASSUME NEW l \in path[n] PROVE path[l[1]] \subseteq path[n]
    BY <1>4
  <2>2. CASE S.kind[n] \in Joins
    <3>1. n \in OfKinds(S, Joins)
      BY <1>1, <2>2 DEF OfKinds
    <3>2. open[n] \in N /\ path[open[n]] = path[n] /\ rank[open[n]] < rank[n]
      BY <1>1, <3>1, OpensBelow
    <3>3. QED
      BY <1>4, <1>5, <2>1, <3>2
  <2>3. CASE S.kind[n] \notin Joins
    <3>1. Into(S, n) # {}
      BY <1>1, <1>2, LanesBelow, Degrees
    <3>2. PICK e \in S.edges : e[2] = n
      BY <3>1 DEF Into
    <3>3. PICK a : a = e[1]
      OBVIOUS
    <3>4. a \in P
      BY <1>3, <1>5, <3>2, <3>3
    <3>5. path[a] \subseteq path[n] /\ path[n] \subseteq path[a] \cup {e}
      BY <1>2, <2>3, <3>2, <3>3, EdgeLanes
    <3>6. CASE l \in path[a]
      BY <1>4, <3>4, <3>5, <3>6
    <3>7. CASE l = e
      BY <3>3, <3>5, <3>7
    <3>8. QED
      BY <2>1, <3>5, <3>6, <3>7
  <2>4. QED
    BY <2>2, <2>3
<1>6. N \subseteq P
  BY <1>3, <1>5, ByRank
<1>7. QED
  BY <1>1, <1>4, <1>6
-----------------------------------------------------------------------------
(* Ways into, through and out of a lane.                                   *)

(* A lane is entered by its edge ...                                       *)
LEMMA FromLane ==
  ASSUME NEW S, NEW rank, NEW path, NEW open, Nest(S, rank, path, open)
  PROVE  \A n \in DOMAIN S.kind : \A l \in path[n] :
           /\ n = l[2] \/ n \in Reachable(S, l[2])
           /\ n \in Reachable(S, l[1])
<1>1. PICK N : N = DOMAIN S.kind
  OBVIOUS
<1>2. NestedBy(S, rank, path, open) /\ Drawn(S, rank)
  BY DEF Nest
<1>3. rank \in [N -> Nat] /\ \A e \in S.edges : e[1] \in N /\ e[2] \in N /\ rank[e[1]] < rank[e[2]]
  BY <1>1, <1>2 DEF Drawn, Ranked
<1>4. PICK P : P = {n \in N : \A l \in path[n] : n = l[2] \/ n \in Reachable(S, l[2])}
  OBVIOUS
<1>5. ASSUME NEW n \in N, \A m \in N : rank[m] < rank[n] => m \in P
      PROVE  n \in P
  <2>1. SUFFICES ASSUME NEW l \in path[n] PROVE n = l[2] \/ n \in Reachable(S, l[2])
    BY <1>4
  <2>2. Into(S, n) # {}
    BY <1>1, <1>2, LanesBelow, Degrees
  <2>3. PICK e \in S.edges : e[2] = n
    BY <2>2 DEF Into
  <2>4. PICK a : a = e[1]
    OBVIOUS
  <2>5. a \in N /\ a \in P
    BY <1>3, <1>5, <2>3, <2>4
  <2>6. l \in path[a] \cup {e}
    BY <1>2, <2>1, <2>3, <2>4, EdgeLanes
  <2>7. CASE l \in path[a]
    <3>1. l[2] \in N
      BY <1>1, <1>3, <2>5, <2>7, LanesBelow
    <3>2. a = l[2] \/ a \in Reachable(S, l[2])
      BY <1>4, <2>5, <2>7
    <3>3. QED
      BY <1>1, <1>2, <2>3, <2>4, <3>1, <3>2, Onwards, OverEdge
  <2>8. QED
    BY <2>3, <2>6, <2>7
<1>6. N \subseteq P
  BY <1>3, <1>5, ByRank
<1>7. ASSUME NEW n \in N, NEW l \in path[n]
      PROVE  (n = l[2] \/ n \in Reachable(S, l[2])) /\ n \in Reachable(S, l[1])
  <2>1. n = l[2] \/ n \in Reachable(S, l[2])
    BY <1>4, <1>6, <1>7
  <2>2. l \in S.edges
    BY <1>1, <1>7, LanesBelow
  <2>3. l[1] \in N /\ l[2] \in N /\ l[2] \in Reachable(S, l[1])
    BY <1>1, <1>2, <1>3, <2>2, Onwards, OverEdge
  <2>4. QED
    BY <1>1, <1>2, <2>1, <2>3, Further
<1>8. QED
  BY <1>1, <1>7

(* ... and left by the join of its block ...                               *)
LEMMA ToJoin ==
  ASSUME NEW S, NEW rank, NEW path, NEW open, Nest(S, rank, path, open)
  PROVE  \A n \in DOMAIN S.kind : \A l \in path[n] : \A j \in OfKinds(S, Joins) :
           open[j] = l[1] => j \in Reachable(S, n)
<1>1. PICK N : N = DOMAIN S.kind
  OBVIOUS
<1>2. NestedBy(S, rank, path, open) /\ Drawn(S, rank)
  BY DEF Nest
<1>3. /\ rank \in [N -> Nat] /\ IsFiniteSet(N)
      /\ \A e \in S.edges : e[1] \in N /\ e[2] \in N /\ rank[e[1]] < rank[e[2]]
  BY <1>1, <1>2 DEF Drawn, Ranked
<1>4. PICK P : P = {n \in N : \A l \in path[n] : \A j \in OfKinds(S, Joins) :
                      open[j] = l[1] => j \in Reachable(S, n)}
  OBVIOUS
<1>5. ASSUME NEW n \in N, \A m \in N : rank[n] < rank[m] => m \in P
      PROVE  n \in P
  <2>1. SUFFICES ASSUME NEW l \in path[n], NEW j \in OfKinds(S, Joins), open[j] = l[1]
                 PROVE  j \in Reachable(S, n)
    BY <1>4
  <2>2. OutOf(S, n) # {}
    BY <1>1, <1>2, LanesBelow, Degrees
  <2>3. PICK e \in S.edges : e[1] = n
    BY <2>2 DEF OutOf
  <2>4. PICK m : m = e[2]
    OBVIOUS
  <2>5. m \in N /\ m \in P /\ m \in Reachable(S, n)
    BY <1>1, <1>2, <1>3, <1>5, <2>3, <2>4, Onwards, OverEdge
  <2>6. l \in Along(S, path, e)
    BY <1>2, <2>1, <2>3, EdgeLanes
  <2>7. CASE l \in path[m]
    <3>1. j \in Reachable(S, m)
      BY <1>4, <2>1, <2>5, <2>7
    <3>2. QED
      BY <1>1, <1>2, <2>5, <3>1, Further
  <2>8. CASE l \notin path[m]
    <3>1. S.kind[m] \in Joins
      BY <1>2, <2>3, <2>4, <2>6, <2>8, EdgeLanes
    <3>2. PICK k \in OutOf(S, open[m]) : Along(S, path, e) = path[m] \cup {k}
      BY <1>2, <2>3, <2>4, <3>1, EdgeLanes
    <3>3. open[m] = open[j]
      BY <2>1, <2>6, <2>8, <3>2 DEF OutOf
    <3>4. m = j
      BY <1>1, <1>2, <2>1, <2>5, <3>1, <3>3 DEF NestedBy, Paired, OfKinds
    <3>5. QED
      BY <2>5, <3>4
  <2>9. QED
    BY <2>7, <2>8
<1>6. N \subseteq P
  BY <1>3, <1>5, FromAbove
<1>7. QED
  BY <1>1, <1>4, <1>6

(* ... so that whatever lies behind a split lies in one of its lanes or    *)
(* not before its join, ...                                                *)
LEMMA BehindSplit ==
  ASSUME NEW S, NEW rank, NEW path, NEW open, Nest(S, rank, path, open),
         NEW j \in OfKinds(S, Joins), NEW v \in Reachable(S, open[j])
  PROVE  v = j \/ v \in Reachable(S, j) \/ \E l \in path[v] : l[1] = open[j]
<1>1. PICK N : N = DOMAIN S.kind
  OBVIOUS
<1>2. NestedBy(S, rank, path, open) /\ Drawn(S, rank)
  BY DEF Nest
<1>3. \A e \in S.edges : e[1] \in N /\ e[2] \in N
  BY <1>1, <1>2 DEF Drawn, Ranked
<1>4. PICK x : x = open[j]
  OBVIOUS
<1>5. x \in N /\ S.kind[x] \in Splits /\ j \in N
  BY <1>1, <1>4, OpensBelow
<1>6. PICK Z : Z = {m \in N : m = j \/ m \in Reachable(S, j) \/ \E l \in path[m] : l[1] = x}
  OBVIOUS
<1>7. ASSUME NEW e \in S.edges, \E l \in Along(S, path, e) : l[1] = x PROVE e[2] \in Z
  <2>1. PICK l \in Along(S, path, e) : l[1] = x
    BY <1>7
  <2>2. PICK m : m = e[2]
    OBVIOUS
  <2>3. m \in N
    BY <1>3, <2>2
  <2>4. CASE l \in path[m]
    BY <1>6, <2>1, <2>2, <2>3, <2>4
  <2>5. CASE l \notin path[m]
    <3>1. S.kind[m] \in Joins
      BY <1>2, <2>1, <2>2, <2>5, EdgeLanes
    <3>2. PICK k \in OutOf(S, open[m]) : Along(S, path, e) = path[m] \cup {k}
      BY <1>2, <2>2, <3>1, EdgeLanes
    <3>3. open[m] = open[j]
      BY <1>4, <2>1, <2>5, <3>2 DEF OutOf
    <3>4. m = j
      BY <1>1, <1>2, <2>3, <3>1, <3>3 DEF NestedBy, Paired, OfKinds
    <3>5. QED
      BY <1>5, <1>6, <2>2, <3>4
  <2>6. QED
    BY <2>4, <2>5
<1>8. ASSUME NEW e \in OutOf(S, x) PROVE e[2] \in Z
  <2>1. e \in S.edges /\ e[1] = x
    BY <1>8 DEF OutOf
  <2>2. e \in Along(S, path, e)
    BY <1>2, <1>5, <2>1, EdgeLanes
  <2>3. QED
    BY <1>7, <2>1, <2>2
<1>9. ASSUME NEW e \in S.edges, e[1] \in Z PROVE e[2] \in Z
  <2>1. CASE e[1] = j \/ e[1] \in Reachable(S, j)
    BY <1>1, <1>2, <1>3, <1>5, <1>6, <2>1, Onwards, OverEdge
  <2>2. CASE \E l \in path[e[1]] : l[1] = x
    <3>1. path[e[1]] \subseteq Along(S, path, e)
      BY <1>2, EdgeLanes
    <3>2. QED
      BY <1>7, <2>2, <3>1
  <2>3. QED
    BY <1>6, <1>9, <2>1, <2>2
<1>10. Reachable(S, x) \subseteq Z
  BY <1>1, <1>2, <1>5, <1>8, <1>9, Onwards
<1>11. QED
  BY <1>4, <1>6, <1>10

(* ... and whatever leads into a lane lies in it or leads to its split.    *)
LEMMA IntoLane ==
  ASSUME NEW S, NEW rank, NEW path, NEW open, Nest(S, rank, path, open),
         NEW y \in DOMAIN S.kind, NEW v \in Reachable(S, y), NEW l \in path[v]
  PROVE  l \in path[y] \/ y = l[1] \/ l[1] \in Reachable(S, y)
<1>1. PICK N : N = DOMAIN S.kind
  OBVIOUS
<1>2. NestedBy(S, rank, path, open) /\ Drawn(S, rank)
  BY DEF Nest
<1>3. SUFFICES ASSUME ~ (l \in path[y] \/ y = l[1] \/ l[1] \in Reachable(S, y)) PROVE FALSE
  OBVIOUS
<1>4. PICK Z : Z = {m \in N : l \notin path[m]}
  OBVIOUS
<1>5. ASSUME NEW e \in S.edges, e[1] = y \/ (e[1] \in Z /\ e[1] \in Reachable(S, y))
      PROVE  e[2] \in Z
  <2>1. e[1] # l[1] /\ l \notin path[e[1]]
    BY <1>3, <1>4, <1>5
  <2>2. l \notin path[e[2]]
    BY <1>2, <2>1, EdgeLanes
  <2>3. QED
    BY <1>1, <1>2, <1>4, <2>2, OverEdge
<1>6. Reachable(S, y) \subseteq Z
  BY <1>2, <1>5, Onwards DEF OutOf
<1>7. QED
  BY <1>4, <1>6
-----------------------------------------------------------------------------
(* Nodes that are not ordered lie in different lanes of a split.           *)
Apart(path, v, w) == \E l \in path[v], k \in path[w] : l[1] = k[1] /\ l # k

LEMMA OrderedOrApart ==
  ASSUME NEW S, NEW rank, NEW path, NEW open, Nest(S, rank, path, open)
  PROVE  \A v, w \in DOMAIN S.kind :
           v = w \/ v \in Reachable(S, w) \/ w \in Reachable(S, v) \/ Apart(path, v, w)
<1>1. PICK N : N = DOMAIN S.kind
  OBVIOUS
<1>2. NestedBy(S, rank, path, open) /\ Drawn(S, rank)
  BY DEF Nest
<1>3. rank \in [N -> Nat] /\ \A e \in S.edges : e[1] \in N /\ e[2] \in N /\ rank[e[1]] < rank[e[2]]
  BY <1>1, <1>2 DEF Drawn, Ranked
<1>4. PICK P : P = {w \in N : \A v \in N :
                      v = w \/ v \in Reachable(S, w) \/ w \in Reachable(S, v) \/ Apart(path, v, w)}
  OBVIOUS
<1>5. ASSUME NEW w \in N, \A m \in N : rank[m] < rank[w] => m \in P
      PROVE  w \in P
  <2>1. SUFFICES ASSUME NEW v \in N, v # w, v \notin Reachable(S, w)
                 PROVE  w \in Reachable(S, v) \/ Apart(path, v, w)
    BY <1>4
  <2>2. CASE S.kind[w] = "START"
    <3>1. PICK R : R = {m \in N : m = w \/ m \in Reachable(S, w)}
      OBVIOUS
    <3>2. ASSUME NEW m \in N, \A k \in N : rank[k] < rank[m] => k \in R PROVE m \in R
      <4>1. CASE S.kind[m] = "START"
        BY <1>1, <1>2, <2>2, <3>1, <4>1, Single
      <4>2. CASE S.kind[m] # "START"
        <5>1. PICK e \in S.edges : e[2] = m
          BY <1>1, <1>2, <4>2, Degrees DEF Into
        <5>2. e[1] \in N /\ (e[1] = w \/ e[1] \in Reachable(S, w))
          BY <1>3, <3>1, <3>2, <5>1
        <5>3. m \in Reachable(S, w)
          BY <1>1, <1>2, <5>1, <5>2, Onwards, OverEdge
        <5>4. QED
          BY <3>1, <5>3
      <4>3. QED
        BY <4>1, <4>2
    <3>3. N \subseteq R
      BY <1>3, <3>2, ByRank
    <3>4. QED
      BY <2>1, <3>1, <3>3
  <2>3. CASE S.kind[w] # "START"
    <3>1. PICK e \in S.edges : e[2] = w
      BY <1>1, <1>2, <2>3, Degrees DEF Into
    <3>2. PICK a : a = e[1]
      OBVIOUS
    <3>3. a \in N /\ a \in P /\ w \in Reachable(S, a) /\ e \in OutOf(S, a)
      BY <1>1, <1>2, <1>3, <1>5, <3>1, <3>2, Onwards, OverEdge
    <3>4. ASSUME a \in Reachable(S, v) \/ v = a
          PROVE  w \in Reachable(S, v)
      BY <1>1, <1>2, <3>3, <3>4, Further
    <3>5. ASSUME Apart(path, v, a)
          PROVE  w \in Reachable(S, v) \/ Apart(path, v, w)
      <4>1. PICK l \in path[v], k \in path[a] : l[1] = k[1] /\ l # k
        BY <3>5 DEF Apart
      <4>2. k \in Along(S, path, e)
        BY <1>2, <3>2, <4>1, EdgeLanes
      <4>3. CASE k \in path[w]
        BY <4>1, <4>3 DEF Apart
      <4>4. CASE k \notin path[w]
        <5>1. S.kind[w] \in Joins
          BY <1>2, <3>1, <4>2, <4>4, EdgeLanes
        <5>2. PICK i \in OutOf(S, open[w]) : Along(S, path, e) = path[w] \cup {i}
          BY <1>2, <3>1, <5>1, EdgeLanes
        <5>3. open[w] = l[1] /\ w \in OfKinds(S, Joins)
          BY <1>1, <4>1, <4>2, <4>4, <5>1, <5>2 DEF OutOf, OfKinds
        <5>4. QED
          BY <1>1, <4>1, <5>3, ToJoin
      <4>5. QED
        BY <4>3, <4>4
    <3>6. ASSUME v \in Reachable(S, a)
          PROVE  w \in Reachable(S, v) \/ Apart(path, v, w)
      <4>1. S.kind[a] \in Splits
        <5>1. SUFFICES ASSUME S.kind[a] \notin Splits PROVE FALSE
          OBVIOUS
        <5>2. \A f \in OutOf(S, a) : f = e
          BY <1>1, <1>2, <3>3, <5>1, Degrees
        <5>3. PICK Z : Z = {w} \cup Reachable(S, w)
          OBVIOUS
        <5>4. \A f \in OutOf(S, a) : f[2] \in Z
          BY <3>1, <5>2, <5>3
        <5>5. \A f \in S.edges : f[1] \in Z => f[2] \in Z
          BY <1>1, <1>2, <5>3, Onwards, OverEdge
        <5>6. v \in Z
          BY <1>1, <1>2, <3>3, <3>6, <5>4, <5>5, Onwards
        <5>7. QED
          BY <2>1, <5>3, <5>6
      <4>2. PICK j \in OfKinds(S, Joins) : open[j] = a
        BY <1>1, <1>2, <3>3, <4>1 DEF NestedBy, Paired, OfKinds
      <4>3. e \in Along(S, path, e)
        BY <1>2, <3>2, <4>1, EdgeLanes
      <4>4. CASE e \in path[w]
        <5>1. j \in Reachable(S, w)
          BY <1>1, <3>2, <4>2, <4>4, ToJoin
        <5>2. ~ (v = j \/ v \in Reachable(S, j))
          BY <1>1, <1>2, <2>1, <5>1, Further
        <5>3. PICK l \in path[v] : l[1] = a
          BY <3>6, <4>2, <5>2, BehindSplit
        <5>4. l # e
          BY <1>1, <2>1, <3>1, <5>3, FromLane
        <5>5. QED
          BY <3>2, <4>4, <5>3, <5>4 DEF Apart
      <4>5. CASE e \notin path[w]
        <5>1. S.kind[w] \in Joins
          BY <1>2, <3>1, <4>3, <4>5, EdgeLanes
        <5>2. PICK i \in OutOf(S, open[w]) : Along(S, path, e) = path[w] \cup {i}
          BY <1>2, <3>1, <5>1, EdgeLanes
        <5>3. open[w] = a /\ w \in OfKinds(S, Joins)
          BY <1>1, <3>2, <4>3, <4>5, <5>1, <5>2 DEF OutOf, OfKinds
        <5>4. \E l \in path[v] : l[1] = a
          BY <2>1, <3>6, <5>3, BehindSplit
        <5>5. QED
          BY <1>1, <5>3, <5>4, ToJoin
      <4>6. QED
        BY <4>4, <4>5
    <3>7. v = a \/ v \in Reachable(S, a) \/ a \in Reachable(S, v) \/ Apart(path, v, a)
      BY <1>4, <3>3
    <3>8. QED
      BY <3>4, <3>5, <3>6, <3>7
  <2>4. QED
    BY <2>2, <2>3
<1>6. N \subseteq P
  BY <1>3, <1>5, ByRank
<1>7. QED
  BY <1>1, <1>4, <1>6

-----------------------------------------------------------------------------
(* What runs on a route is what lies in taken lanes only.                  *)
LEMMA RanIs ==
  ASSUME NEW S, NEW rank, NEW path, NEW open, Nest(S, rank, path, open), NEW c \in Routes(S)
  PROVE  Ran(S, c) = {n \in DOMAIN S.kind : \A l \in path[n] : Taken(S, c, l)}
<1>1. PICK N : N = DOMAIN S.kind
  OBVIOUS
<1>2. NestedBy(S, rank, path, open) /\ Drawn(S, rank)
  BY DEF Nest
<1>3. rank \in [N -> Nat] /\ \A e \in S.edges : e[1] \in N /\ e[2] \in N /\ rank[e[1]] < rank[e[2]]
  BY <1>1, <1>2 DEF Drawn, Ranked
<1>4. PICK ran : ran = Ran(S, c)
  OBVIOUS
<1>5. Closes(ran, N, [m \in N |-> Following(S, c, m)], NodesOfKind(S, "START"))
  BY <1>1, <1>2, <1>4, RanCloses DEF Drawn
<1>6. PICK Z : Z = {n \in N : \A l \in path[n] : Taken(S, c, l)}
  OBVIOUS
<1>7. ran \subseteq Z
  <2>1. NodesOfKind(S, "START") \subseteq Z
    BY <1>1, <1>6, LanesBelow DEF NodesOfKind
  <2>2. ASSUME NEW m \in Z, NEW t \in Following(S, c, m) PROVE t \in Z
    <3>1. PICK e \in S.edges : e[1] = m /\ e[2] = t /\ Taken(S, c, e)
      BY <2>2 DEF Following, OutOf
    <3>2. path[t] \subseteq path[m] \cup {e}
      BY <1>2, <3>1, EdgeLanes
    <3>3. QED
      BY <1>3, <1>6, <2>2, <3>1, <3>2
  <2>3. \A m \in Z \cap N : [n \in N |-> Following(S, c, n)][m] \subseteq Z
    BY <2>2
  <2>4. QED
    BY <1>5, <2>1, <2>3 DEF Closes
<1>8. ASSUME NEW e \in S.edges, e[1] \in ran, Taken(S, c, e) PROVE e[2] \in ran
  <2>1. e[2] \in Following(S, c, e[1])
    BY <1>1, <1>3, <1>8 DEF Following, OutOf
  <2>2. e[1] \in N /\ [n \in N |-> Following(S, c, n)][e[1]] \subseteq ran
    BY <1>3, <1>5, <1>8 DEF Closes
  <2>3. QED
    BY <2>1, <2>2
<1>9. PICK P : P = {n \in N : n \in Z => n \in ran}
  OBVIOUS
<1>10. ASSUME NEW n \in N, \A m \in N : rank[m] < rank[n] => m \in P
       PROVE  n \in P
  <2>1. SUFFICES ASSUME n \in Z PROVE n \in ran
    BY <1>9
  <2>2. CASE S.kind[n] = "START"
    BY <1>1, <1>5, <2>2 DEF Closes, NodesOfKind
  <2>3. CASE S.kind[n] # "START"
    <3>1. \E e \in S.edges : e[2] = n /\ \A l \in Along(S, path, e) : Taken(S, c, l)
      <4>1. CASE S.kind[n] \in Joins
        <5>1. n \in OfKinds(S, Joins)
          BY <1>1, <4>1 DEF OfKinds
        <5>2. PICK x : x = open[n]
          OBVIOUS
        <5>3. {Along(S, path, e) : e \in Into(S, n)} = {path[n] \cup {l} : l \in OutOf(S, x)}
          BY <1>2, <5>1, <5>2 DEF NestedBy, Paired, Closing
        <5>4. x \in N /\ S.kind[x] \in Splits
          BY <1>1, <5>1, <5>2, OpensBelow
        <5>5. \E l \in OutOf(S, x) : Taken(S, c, l)
          <6>1. CASE S.kind[x] = "XOR_SPLIT"
            <7>1. c[x] \in Succs(S, x)
              BY <1>1, <5>4, <6>1 DEF Routes, NodesOfKind
            <7>2. QED
              BY <7>1 DEF Succs, OutOf, Taken
          <6>2. CASE S.kind[x] # "XOR_SPLIT"
            <7>1. OutOf(S, x) # {}
              BY <1>1, <1>2, <5>4, Degrees DEF Splits
            <7>2. QED
              BY <6>2, <7>1 DEF OutOf, Taken
          <6>3. QED
            BY <6>1, <6>2
        <5>6. PICK l \in OutOf(S, x) : Taken(S, c, l)
          BY <5>5
        <5>7. PICK e \in Into(S, n) : Along(S, path, e) = path[n] \cup {l}
          BY <5>3, <5>6
        <5>8. QED
          BY <1>6, <2>1, <5>6, <5>7 DEF Into
      <4>2. CASE S.kind[n] \notin Joins
        <5>1. PICK e \in S.edges : e[2] = n
          BY <1>1, <1>2, <2>3, Degrees DEF Into
        <5>2. Along(S, path, e) = path[n]
          BY <1>2, <4>2, <5>1, EdgeLanes
        <5>3. QED
          BY <1>6, <2>1, <5>1, <5>2
      <4>3. QED
        BY <4>1, <4>2
    <3>2. PICK e \in S.edges : e[2] = n /\ \A l \in Along(S, path, e) : Taken(S, c, l)
      BY <3>1
    <3>3. e[1] \in N /\ e[1] \in P /\ path[e[1]] \subseteq Along(S, path, e)
      BY <1>2, <1>3, <1>10, <3>2, EdgeLanes
    <3>4. e[1] \in ran
      BY <1>6, <1>9, <3>2, <3>3
    <3>5. Taken(S, c, e)
      <4>1. CASE S.kind[e[1]] \in Splits
        BY <1>2, <3>2, <4>1, EdgeLanes
      <4>2. CASE S.kind[e[1]] \notin Splits
        BY <4>2 DEF Taken, Splits
      <4>3. QED
        BY <4>1, <4>2
    <3>6. QED
      BY <1>8, <3>2, <3>4, <3>5
  <2>4. QED
    BY <2>2, <2>3
<1>11. N \subseteq P
  BY <1>3, <1>10, ByRank
<1>12. QED
  BY <1>1, <1>4, <1>6, <1>7, <1>9, <1>11
LEMMA FiredIs ==
  ASSUME NEW S, NEW rank, NEW path, NEW open, Nest(S, rank, path, open), NEW c \in Routes(S),
         NEW e \in S.edges
  PROVE  (e[1] \in Ran(S, c) /\ Taken(S, c, e)) <=> \A l \in Along(S, path, e) : Taken(S, c, l)
<1>1. NestedBy(S, rank, path, open) /\ e[1] \in DOMAIN S.kind
  BY DEF Nest, Drawn, Ranked
<1>2. e[1] \in Ran(S, c) <=> \A l \in path[e[1]] : Taken(S, c, l)
  BY <1>1, RanIs
<1>3. path[e[1]] \subseteq Along(S, path, e) /\ Along(S, path, e) \subseteq path[e[1]] \cup {e}
  BY <1>1, EdgeLanes
<1>4. S.kind[e[1]] \in Splits => e \in Along(S, path, e)
  BY <1>1, EdgeLanes
<1>5. S.kind[e[1]] \notin Splits => Taken(S, c, e)
  BY DEF Taken, Splits
<1>6. QED
  BY <1>2, <1>3, <1>4, <1>5

(* Where blocks are nested, every route leads to END, all branches of an   *)
(* AND block reach its join or none does, and at most one of an XOR block. *)
LEMMA NestedIsSound ==
  ASSUME NEW S, NEW rank, NEW path, NEW open, Nest(S, rank, path, open), NEW c \in Routes(S)
  PROVE  /\ NodesOfKind(S, "END") \subseteq Ran(S, c)
         /\ \A n \in NodesOfKind(S, "AND_JOIN") :
              {e \in Into(S, n) : e[1] \in Ran(S, c) /\ Taken(S, c, e)} \in {{}, Into(S, n)}
         /\ \A n \in NodesOfKind(S, "XOR_JOIN") :
              Cardinality({e \in Into(S, n) : e[1] \in Ran(S, c) /\ Taken(S, c, e)}) <= 1
<1>1. PICK N : N = DOMAIN S.kind
  OBVIOUS
<1>2. NestedBy(S, rank, path, open) /\ Drawn(S, rank)
  BY DEF Nest
<1>3. PICK ran : ran = Ran(S, c)
  OBVIOUS
<1>4. ran = {n \in N : \A l \in path[n] : Taken(S, c, l)}
  BY <1>1, <1>3, RanIs
<1>5. NodesOfKind(S, "END") \subseteq ran
  BY <1>1, <1>4, LanesBelow DEF NodesOfKind
<1>6. ASSUME NEW j \in OfKinds(S, Joins)
      PROVE  /\ open[j] \in N /\ S.kind[open[j]] \in Splits
             /\ S.kind[j] = "AND_JOIN" <=> S.kind[open[j]] = "AND_SPLIT"
             /\ \A e \in Into(S, j) :
                  \E l \in OutOf(S, open[j]) : Along(S, path, e) = path[j] \cup {l}
             /\ \A e, f \in Into(S, j) : Along(S, path, e) = Along(S, path, f) => e = f
  <2>1. Closing(S, path, j, open[j])
    BY <1>2, <1>6 DEF NestedBy, Paired
  <2>2. {Along(S, path, e) : e \in Into(S, j)} = {path[j] \cup {l} : l \in OutOf(S, open[j])}
    BY <2>1 DEF Closing
  <2>3. ASSUME NEW e \in Into(S, j)
        PROVE  \E l \in OutOf(S, open[j]) : Along(S, path, e) = path[j] \cup {l}
    <3>1. Along(S, path, e) \in {path[j] \cup {l} : l \in OutOf(S, open[j])}
      BY <2>2, <2>3
    <3>2. QED
      BY <3>1
  <2>4. QED
    BY <1>1, <1>6, <2>1, <2>3, OpensBelow DEF Closing
<1>7. ASSUME NEW j \in NodesOfKind(S, "AND_JOIN"),
             NEW e \in Into(S, j), e[1] \in ran, Taken(S, c, e), NEW f \in Into(S, j)
      PROVE  f[1] \in ran /\ Taken(S, c, f)
  <2>1. j \in OfKinds(S, Joins) /\ S.kind[j] = "AND_JOIN"
    BY <1>7 DEF NodesOfKind, OfKinds, Joins
  <2>2. PICK k \in OutOf(S, open[j]) : Along(S, path, f) = path[j] \cup {k}
    BY <1>6, <1>7, <2>1
  <2>3. PICK l \in OutOf(S, open[j]) : Along(S, path, e) = path[j] \cup {l}
    BY <1>6, <1>7, <2>1
  <2>4. Taken(S, c, k)
    BY <1>6, <2>1, <2>2 DEF OutOf, Taken
  <2>5. e \in S.edges /\ f \in S.edges
    BY <1>7 DEF Into
  <2>6. \A i \in Along(S, path, e) : Taken(S, c, i)
    BY <1>3, <1>7, <2>5, FiredIs
  <2>7. \A i \in Along(S, path, f) : Taken(S, c, i)
    BY <2>2, <2>3, <2>4, <2>6
  <2>8. QED
    BY <1>3, <2>5, <2>7, FiredIs
<1>8. ASSUME NEW j \in NodesOfKind(S, "XOR_JOIN"),
             NEW e \in Into(S, j), e[1] \in ran, Taken(S, c, e),
             NEW f \in Into(S, j), f[1] \in ran, Taken(S, c, f)
      PROVE  e = f
  <2>1. j \in OfKinds(S, Joins) /\ S.kind[j] = "XOR_JOIN"
    BY <1>8 DEF NodesOfKind, OfKinds, Joins
  <2>2. PICK k \in OutOf(S, open[j]) : Along(S, path, f) = path[j] \cup {k}
    BY <1>6, <1>8, <2>1
  <2>3. PICK l \in OutOf(S, open[j]) : Along(S, path, e) = path[j] \cup {l}
    BY <1>6, <1>8, <2>1
  <2>4. PICK x : x = open[j]
    OBVIOUS
  <2>5. x \in NodesOfKind(S, "XOR_SPLIT")
    BY <1>1, <1>6, <2>1, <2>4 DEF Splits, NodesOfKind
  <2>6. e \in S.edges /\ f \in S.edges
    BY <1>8 DEF Into
  <2>7. Taken(S, c, l) /\ Taken(S, c, k)
    BY <1>3, <1>8, <2>2, <2>3, <2>6, FiredIs
  <2>8. l[1] = x /\ k[1] = x
    BY <2>2, <2>3, <2>4 DEF OutOf
  <2>9. l[2] = k[2]
    BY <2>5, <2>7, <2>8 DEF Taken, NodesOfKind
  <2>10. l = k
    BY <1>2, <2>2, <2>3, <2>4, <2>5, <2>9 DEF NestedBy, Decisive
  <2>11. Along(S, path, e) = Along(S, path, f)
    BY <2>2, <2>3, <2>10
  <2>12. QED
    BY <1>6, <1>8, <2>1, <2>11
<1>9. ASSUME NEW j \in NodesOfKind(S, "XOR_JOIN"), NEW A,
             A = {e \in Into(S, j) : e[1] \in ran /\ Taken(S, c, e)}
      PROVE  Cardinality(A) <= 1
  <2>1. \A e, f \in A : e = f
    BY <1>8, <1>9
  <2>2. CASE A = {}
    BY <2>2, FS_EmptySet
  <2>3. CASE A # {}
    <3>1. PICK e \in A : TRUE
      BY <2>3
    <3>2. A = {e}
      BY <2>1, <3>1
    <3>3. Cardinality({e}) = 1
      BY FS_Singleton
    <3>4. QED
      BY <3>2, <3>3
  <2>4. QED
    BY <2>2, <2>3
<1>10. QED
  BY <1>3, <1>5, <1>7, <1>9

(* Unordered nodes that both run lie in different branches of an AND       *)
(* block, the innermost that leads to both, so that D2 asks for them.      *)
LEMMA D2IsEnough ==
  ASSUME NEW S, NEW rank, NEW path, NEW open, Nest(S, rank, path, open), NEW c \in Routes(S),
         D2(S), NEW v \in S.writes, NEW w \in S.writes, v[2] = w[2], v[1] # w[1],
         v[1] \in Ran(S, c), w[1] \in Ran(S, c)
  PROVE  v[1] \in Reachable(S, w[1]) \/ w[1] \in Reachable(S, v[1])
<1>1. PICK N : N = DOMAIN S.kind
  OBVIOUS
<1>2. NestedBy(S, rank, path, open) /\ Drawn(S, rank)
  BY DEF Nest
<1>3. PICK a, b : a = v[1] /\ b = w[1]
  OBVIOUS
<1>4. /\ a \in N /\ \A l \in path[a] : Taken(S, c, l)
      /\ b \in N /\ \A l \in path[b] : Taken(S, c, l)
  BY <1>1, <1>3, RanIs
<1>5. SUFFICES ASSUME a \notin Reachable(S, b), b \notin Reachable(S, a) PROVE FALSE
  BY <1>3
<1>6. Apart(path, a, b)
  BY <1>1, <1>3, <1>4, <1>5, OrderedOrApart
<1>7. PICK l \in path[a], k \in path[b] : l[1] = k[1] /\ l # k
  BY <1>6 DEF Apart
<1>8. PICK x : x = l[1]
  OBVIOUS
<1>9. x \in N /\ S.kind[x] \in Splits /\ l \in OutOf(S, x) /\ k \in OutOf(S, x)
  BY <1>1, <1>4, <1>7, <1>8, LanesBelow DEF OutOf
<1>10. S.kind[x] = "AND_SPLIT"
  <2>1. SUFFICES ASSUME S.kind[x] = "XOR_SPLIT" PROVE FALSE
    BY <1>9 DEF Splits
  <2>2. l[2] = k[2]
    BY <1>4, <1>7, <1>8, <2>1 DEF Taken
  <2>3. x \in NodesOfKind(S, "XOR_SPLIT")
    BY <1>1, <1>9, <2>1 DEF NodesOfKind
  <2>4. QED
    BY <1>2, <1>7, <1>9, <2>2, <2>3 DEF NestedBy, Decisive
<1>11. a \in Reachable(S, x) /\ b \in Reachable(S, x)
  BY <1>1, <1>4, <1>7, <1>8, FromLane
<1>12. ASSUME NEW y \in N, {a, b} \subseteq Reachable(S, y), y # x PROVE x \in Reachable(S, y)
  <2>1. l \in path[y] \/ x \in Reachable(S, y)
    BY <1>1, <1>7, <1>8, <1>12, IntoLane
  <2>2. k \in path[y] \/ x \in Reachable(S, y)
    BY <1>1, <1>7, <1>8, <1>12, IntoLane
  <2>3. ~ (l \in path[y] /\ k \in path[y])
    BY <1>1, <1>7, <1>12, LanesBelow
  <2>4. QED
    BY <2>1, <2>2, <2>3
<1>13. ParallelUnderAnd(S, a, b)
  BY <1>11, <1>1, <1>9, <1>10, <1>12 DEF ParallelUnderAnd
<1>14. QED
  BY <1>3, <1>5, <1>13 DEF D2
-----------------------------------------------------------------------------
(* Edits keep blocks nested.  Another type for a step changes nothing.     *)
SameFlow(S, T) ==
  /\ T.edges = S.edges /\ DOMAIN T.kind = DOMAIN S.kind /\ T.kind \in [DOMAIN T.kind -> Kinds]
  /\ \A n \in DOMAIN S.kind :
       T.kind[n] = S.kind[n] \/ {S.kind[n], T.kind[n]} \subseteq {"ACTIVITY", "SUBPROCESS"}

LEMMA SameFlowNested ==
  ASSUME NEW S, NEW rank, NEW path, NEW open, NestedBy(S, rank, path, open),
         NEW T, SameFlow(S, T)
  PROVE  NestedBy(T, rank, path, open)
<1>1. PICK N, E : N = DOMAIN S.kind /\ E = S.edges
  OBVIOUS
<1>2. DOMAIN T.kind = N /\ T.edges = E /\ T.kind \in [N -> Kinds]
  BY <1>1 DEF SameFlow
<1>3. \A e \in E : e[1] \in N /\ e[2] \in N
  BY <1>1 DEF NestedBy, Ranked
<1>4. \A n \in N : /\ S.kind[n] \in Splits <=> T.kind[n] \in Splits
                   /\ S.kind[n] \in Joins <=> T.kind[n] \in Joins
                   /\ S.kind[n] \in {"START", "END"} <=> T.kind[n] \in {"START", "END"}
                   /\ S.kind[n] = "AND_JOIN" <=> T.kind[n] = "AND_JOIN"
                   /\ S.kind[n] = "AND_SPLIT" <=> T.kind[n] = "AND_SPLIT"
                   /\ S.kind[n] = "XOR_SPLIT" <=> T.kind[n] = "XOR_SPLIT"
  BY <1>1 DEF SameFlow, Splits, Joins
<1>5. /\ OfKinds(T, Joins) = OfKinds(S, Joins) /\ OfKinds(T, Splits) = OfKinds(S, Splits)
      /\ OfKinds(T, {"START", "END"}) = OfKinds(S, {"START", "END"})
      /\ NodesOfKind(T, "XOR_SPLIT") = NodesOfKind(S, "XOR_SPLIT")
  BY <1>1, <1>2, <1>4 DEF OfKinds, NodesOfKind
<1>6. LaneEdges(T) = LaneEdges(S)
  BY <1>1, <1>2, <1>3, <1>4 DEF LaneEdges
<1>7. /\ \A e : Along(T, path, e) = Along(S, path, e)
      /\ \A n : Into(T, n) = Into(S, n) /\ OutOf(T, n) = OutOf(S, n)
      /\ \A a, b : Between(T, a, b) = Between(S, a, b)
  BY <1>1, <1>2, <1>6 DEF Along, Into, OutOf, Between
<1>8. Ranked(T, rank)
  BY <1>1, <1>2 DEF NestedBy, Ranked
<1>9. Laned(T, path)
  <2>1. \A e \in E : T.kind[e[2]] \notin Joins => path[e[2]] = Along(T, path, e)
    BY <1>1, <1>3, <1>4, <1>7 DEF NestedBy, Laned
  <2>2. QED
    BY <1>1, <1>2, <1>5, <1>6, <2>1 DEF NestedBy, Laned
<1>10. Paired(T, path, open)
  <2>1. ASSUME NEW j \in OfKinds(S, Joins) PROVE Closing(T, path, j, open[j])
    <3>1. Closing(S, path, j, open[j]) /\ j \in N /\ open[j] \in N
      BY <1>1, <2>1 DEF NestedBy, Paired, OfKinds
    <3>2. QED
      BY <1>4, <1>7, <3>1 DEF Closing
  <2>2. QED
    BY <1>5, <2>1 DEF NestedBy, Paired
<1>11. Counted(T) /\ Decisive(T)
  BY <1>1, <1>2, <1>5, <1>7 DEF NestedBy, Counted, Decisive
<1>12. QED
  BY <1>2, <1>8, <1>9, <1>10, <1>11 DEF NestedBy

(* The only edge f out of a node that is no split gives way to new nodes M *)
(* and edges F, of which g leads back to where f led.                      *)
Grafts(S, f, T, M, F, g) ==
  /\ f \in S.edges /\ OutOf(S, f[1]) = {f} /\ S.kind[f[1]] \notin Splits
  /\ M \cap DOMAIN S.kind = {} /\ DOMAIN T.kind = DOMAIN S.kind \cup M
  /\ T.kind \in [DOMAIN T.kind -> Kinds]
  /\ \A n \in DOMAIN S.kind : T.kind[n] = S.kind[n]
  /\ \A m \in M : T.kind[m] \notin {"START", "END"}
  /\ T.edges = (S.edges \ {f}) \cup F /\ IsFiniteSet(T.edges)
  /\ g \in F /\ g[2] = f[2] /\ g[1] \in M /\ T.kind[g[1]] \notin Splits
  /\ \A e \in F : e[3] = 0 /\ e[1] \in M \cup {f[1]} /\ (e = g \/ e[2] \in M)
  /\ \A x \in M : T.kind[x] = "XOR_SPLIT" => \A e, h \in OutOf(T, x) : e[2] = h[2] => e = h

(* Order, lanes and joins of the new nodes that fit those of the old ones. *)
FitsRank(S, T, F, rank, r) ==
  /\ r \in [DOMAIN T.kind -> Nat] /\ \A n \in DOMAIN S.kind : r[n] = 4 * rank[n]
  /\ \A e \in F : r[e[1]] < r[e[2]]
FitsPath(S, f, T, M, F, g, path, p) ==
  /\ p = [n \in DOMAIN T.kind |-> p[n]] /\ \A n \in DOMAIN S.kind : p[n] = path[n]
  /\ \A m \in M : p[m] \subseteq LaneEdges(T)
  /\ p[g[1]] = path[f[1]]
  /\ \A e \in F : e # g /\ T.kind[e[2]] \notin Joins => p[e[2]] = Along(T, p, e)
FitsOpen(S, T, M, p, open, o) ==
  /\ o = [j \in OfKinds(T, Joins) |-> o[j]] /\ \A j \in OfKinds(S, Joins) : o[j] = open[j]
  /\ \A j \in M \cap OfKinds(T, Joins) : o[j] \in M \cap OfKinds(T, Splits) /\ Closing(T, p, j, o[j])
  /\ \A x \in M \cap OfKinds(T, Splits) : \E j \in M \cap OfKinds(T, Joins) : o[j] = x
  /\ \A i, j \in M \cap OfKinds(T, Joins) : o[i] = o[j] => i = j

LEMMA GraftedNested ==
  ASSUME NEW S, NEW rank, NEW path, NEW open, NestedBy(S, rank, path, open),
         NEW f, NEW T, NEW M, NEW F, NEW g, Grafts(S, f, T, M, F, g),
         NEW r, FitsRank(S, T, F, rank, r),
         NEW p, FitsPath(S, f, T, M, F, g, path, p),
         NEW o, FitsOpen(S, T, M, p, open, o)
  PROVE  NestedBy(T, r, p, o)
<1>1. PICK N, E : N = DOMAIN S.kind /\ E = S.edges
  OBVIOUS
<1>2. /\ rank \in [N -> Nat] /\ S.kind \in [N -> Kinds]
      /\ \A e \in E : e[1] \in N /\ e[2] \in N /\ rank[e[1]] < rank[e[2]]
  BY <1>1 DEF NestedBy, Ranked
<1>3. /\ f \in E /\ f[1] \in N /\ f[2] \in N /\ S.kind[f[1]] \notin Splits
      /\ \A e \in E : e[1] = f[1] => e = f
      /\ M \cap N = {} /\ DOMAIN T.kind = N \cup M
      /\ \A n \in N : T.kind[n] = S.kind[n]
      /\ T.edges = (E \ {f}) \cup F
      /\ g \in F /\ g[2] = f[2] /\ g[1] \in M /\ T.kind[g[1]] \notin Splits
      /\ \A e \in F : e[3] = 0 /\ e[1] \in M \cup {f[1]} /\ (e = g \/ e[2] \in M)
  BY <1>1, <1>2 DEF Grafts, OutOf
<1>4. /\ r \in [DOMAIN T.kind -> Nat] /\ \A n \in N : r[n] = 4 * rank[n]
      /\ \A e \in F : r[e[1]] < r[e[2]]
  BY <1>1 DEF FitsRank
<1>5. /\ p = [n \in DOMAIN T.kind |-> p[n]] /\ \A n \in N : p[n] = path[n]
      /\ \A m \in M : p[m] \subseteq LaneEdges(T)
      /\ p[g[1]] = path[f[1]]
      /\ \A e \in F : e # g /\ T.kind[e[2]] \notin Joins => p[e[2]] = Along(T, p, e)
  BY <1>1 DEF FitsPath
<1>6. OfKinds(S, Joins) \subseteq OfKinds(T, Joins) /\ OfKinds(S, Splits) \subseteq OfKinds(T, Splits)
  BY <1>1, <1>3 DEF OfKinds
<1>7. \A n \in OfKinds(T, Joins) : n \in M \/ n \in OfKinds(S, Joins)
  BY <1>1, <1>3 DEF OfKinds
<1>8. \A n \in OfKinds(T, Splits) : n \in M \/ n \in OfKinds(S, Splits)
  BY <1>1, <1>3 DEF OfKinds
<1>9. LaneEdges(S) \subseteq LaneEdges(T) /\ f \notin LaneEdges(S) /\ g \notin LaneEdges(T)
  BY <1>1, <1>2, <1>3 DEF LaneEdges
<1>10. Ranked(T, r)
  <2>1. ASSUME NEW e \in T.edges
        PROVE  e[1] \in DOMAIN T.kind /\ e[2] \in DOMAIN T.kind /\ r[e[1]] < r[e[2]]
    <3>1. CASE e \in E
      <4>1. rank[e[1]] \in Nat /\ rank[e[2]] \in Nat /\ e[1] \in N /\ e[2] \in N /\ rank[e[1]] < rank[e[2]]
        BY <1>2, <3>1
      <4>2. r[e[1]] = 4 * rank[e[1]] /\ r[e[2]] = 4 * rank[e[2]]
        BY <1>4, <4>1
      <4>3. QED
        BY <1>3, <4>1, <4>2
    <3>2. CASE e \in F
      BY <1>3, <1>4, <3>2
    <3>3. QED
      BY <1>3, <2>1, <3>1, <3>2
  <2>2. QED
    BY <1>4, <2>1 DEF Ranked
<1>11. ASSUME NEW e \in E, e # f PROVE Along(T, p, e) = Along(S, path, e)
  <2>1. e[1] \in N /\ e \in T.edges /\ p[e[1]] = path[e[1]]
    BY <1>2, <1>3, <1>5, <1>11
  <2>2. e \in LaneEdges(T) <=> e \in LaneEdges(S)
    BY <1>1, <1>3, <2>1 DEF LaneEdges
  <2>3. QED
    BY <2>1, <2>2 DEF Along
<1>12. Along(T, p, g) = path[f[1]] /\ Along(S, path, f) = path[f[1]]
  BY <1>5, <1>9 DEF Along
<1>13. Laned(T, p)
  <2>1. \A n \in N : path[n] \subseteq LaneEdges(T)
    BY <1>1, <1>9 DEF NestedBy, Laned
  <2>2. p \in [DOMAIN T.kind -> SUBSET LaneEdges(T)]
    BY <1>3, <1>5, <2>1
  <2>3. ASSUME NEW e \in T.edges, T.kind[e[2]] \notin Joins PROVE p[e[2]] = Along(T, p, e)
    <3>1. CASE e \in E /\ e # f
      <4>1. e[2] \in N /\ S.kind[e[2]] \notin Joins
        BY <1>2, <1>3, <2>3, <3>1
      <4>2. path[e[2]] = Along(S, path, e)
        BY <1>1, <3>1, <4>1 DEF NestedBy, Laned
      <4>3. QED
        BY <1>11, <1>5, <3>1, <4>1, <4>2
    <3>2. CASE e \in F /\ e # g
      BY <1>5, <2>3, <3>2
    <3>3. CASE e = g
      <4>1. S.kind[f[2]] \notin Joins
        BY <1>3, <2>3, <3>3
      <4>2. path[f[2]] = Along(S, path, f)
        BY <1>1, <1>3, <4>1 DEF NestedBy, Laned
      <4>3. QED
        BY <1>3, <1>5, <1>12, <3>3, <4>2
    <3>4. QED
      BY <1>3, <2>3, <3>1, <3>2, <3>3
  <2>4. ASSUME NEW n \in OfKinds(T, {"START", "END"}) PROVE p[n] = {}
    <3>1. n \in N
      BY <1>3, <2>4 DEF OfKinds, Grafts
    <3>2. n \in OfKinds(S, {"START", "END"})
      BY <1>1, <1>3, <2>4, <3>1 DEF OfKinds
    <3>3. QED
      BY <1>5, <3>1, <3>2 DEF NestedBy, Laned
  <2>5. QED
    BY <2>2, <2>3, <2>4 DEF Laned
<1>14. ASSUME NEW j \in OfKinds(S, Joins) PROVE Closing(T, p, j, open[j])
  <2>1. PICK x : x = open[j]
    OBVIOUS
  <2>2. Closing(S, path, j, x) /\ j \in N /\ x \in N /\ S.kind[x] \in Splits
    BY <1>1, <1>14, <2>1 DEF NestedBy, Paired, OfKinds
  <2>3. OutOf(T, x) = OutOf(S, x)
    BY <1>1, <1>3, <2>2 DEF OutOf
  <2>4. {Along(T, p, e) : e \in Into(T, j)} = {Along(S, path, e) : e \in Into(S, j)}
    <3>1. ASSUME NEW e \in Into(T, j) PROVE \E h \in Into(S, j) : Along(T, p, e) = Along(S, path, h)
      <4>1. e \in T.edges /\ e[2] = j
        BY <3>1 DEF Into
      <4>2. (e \in E /\ e # f) \/ e = g
        BY <1>3, <2>2, <4>1
      <4>3. QED
        BY <1>11, <1>1, <1>3, <1>12, <4>1, <4>2 DEF Into
    <3>2. ASSUME NEW h \in Into(S, j) PROVE \E e \in Into(T, j) : Along(T, p, e) = Along(S, path, h)
      BY <1>11, <1>1, <1>3, <1>12, <3>2 DEF Into
    <3>3. QED
      BY <3>1, <3>2
  <2>5. ASSUME NEW e \in Into(T, j), NEW h \in Into(T, j), Along(T, p, e) = Along(T, p, h)
        PROVE  e = h
    <3>1. PICK back : back = [i \in T.edges |-> IF i = g THEN f ELSE i]
      OBVIOUS
    <3>2. ASSUME NEW i \in Into(T, j)
          PROVE  /\ back[i] \in Into(S, j) /\ Along(T, p, i) = Along(S, path, back[i])
                 /\ back[i] = IF i = g THEN f ELSE i
                 /\ i # f
      <4>1. i \in T.edges /\ i[2] = j
        BY <3>2 DEF Into
      <4>2. (i \in E /\ i # f) \/ i = g
        BY <1>3, <2>2, <4>1
      <4>3. g # f
        BY <1>3
      <4>4. QED
        BY <1>11, <1>1, <1>3, <1>12, <3>1, <4>1, <4>2, <4>3 DEF Into
    <3>3. back[e] = back[h]
      BY <2>2, <2>5, <3>2 DEF Closing
    <3>4. QED
      BY <2>5, <3>2, <3>3
  <2>6. T.kind[j] = S.kind[j] /\ T.kind[x] = S.kind[x] /\ p[j] = path[j] /\ p[x] = path[x]
    BY <1>3, <1>5, <2>2
  <2>7. QED
    BY <2>1, <2>2, <2>3, <2>4, <2>5, <2>6 DEF Closing
<1>15. Paired(T, p, o)
  <2>1. /\ o = [j \in OfKinds(T, Joins) |-> o[j]] /\ \A j \in OfKinds(S, Joins) : o[j] = open[j]
        /\ \A j \in M \cap OfKinds(T, Joins) : o[j] \in M \cap OfKinds(T, Splits) /\ Closing(T, p, j, o[j])
        /\ \A x \in M \cap OfKinds(T, Splits) : \E j \in M \cap OfKinds(T, Joins) : o[j] = x
        /\ \A i, j \in M \cap OfKinds(T, Joins) : o[i] = o[j] => i = j
    BY DEF FitsOpen
  <2>2. /\ open \in [OfKinds(S, Joins) -> OfKinds(S, Splits)]
        /\ \A x \in OfKinds(S, Splits) : \E j \in OfKinds(S, Joins) : open[j] = x
        /\ \A i, j \in OfKinds(S, Joins) : open[i] = open[j] => i = j
        /\ \A j \in OfKinds(S, Joins) : open[j] \notin M
    <3>1. OfKinds(S, Splits) \cap M = {}
      BY <1>1, <1>3 DEF OfKinds
    <3>2. QED
      BY <3>1 DEF NestedBy, Paired
  <2>3. ASSUME NEW j \in OfKinds(T, Joins)
        PROVE  o[j] \in OfKinds(T, Splits) /\ Closing(T, p, j, o[j])
    BY <1>6, <1>7, <1>14, <2>1, <2>2, <2>3
  <2>4. o \in [OfKinds(T, Joins) -> OfKinds(T, Splits)]
    BY <2>1, <2>3
  <2>5. \A x \in OfKinds(T, Splits) : \E j \in OfKinds(T, Joins) : o[j] = x
    BY <1>6, <1>8, <2>1, <2>2
  <2>6. \A i, j \in OfKinds(T, Joins) : o[i] = o[j] => i = j
    BY <1>7, <2>1, <2>2
  <2>7. QED
    BY <2>3, <2>4, <2>5, <2>6 DEF Paired
<1>16. Counted(T)
  <2>1. ASSUME NEW e \in T.edges, e \in E PROVE e[3] \in Nat /\ e[3] < Cardinality(Between(T, e[1], e[2]))
    <3>1. e \in S.edges /\ e[1] # f[1] /\ e[1] \in N /\ e[2] \in N
      <4>1. e # f
        BY <1>3, <2>1
      <4>2. QED
        BY <1>1, <1>2, <1>3, <2>1, <4>1
    <3>2. Between(T, e[1], e[2]) = Between(S, e[1], e[2])
      BY <1>1, <1>3, <3>1 DEF Between
    <3>3. QED
      BY <3>1, <3>2 DEF NestedBy, Counted
  <2>2. ASSUME NEW e \in F PROVE e[3] \in Nat /\ e[3] < Cardinality(Between(T, e[1], e[2]))
    <3>1. PICK B : B = Between(T, e[1], e[2])
      OBVIOUS
    <3>2. e \in B /\ IsFiniteSet(B)
      BY <1>3, <2>2, <3>1, FS_Subset DEF Between, Grafts
    <3>3. Cardinality(B) \in Nat /\ Cardinality(B) # 0
      BY <3>2, FS_CardinalityType, FS_EmptySet
    <3>4. QED
      BY <1>3, <2>2, <3>1, <3>3
  <2>3. QED
    BY <1>3, <2>1, <2>2 DEF Counted
<1>17. Decisive(T)
  <2>1. ASSUME NEW x \in NodesOfKind(T, "XOR_SPLIT"), NEW e \in OutOf(T, x), NEW h \in OutOf(T, x),
               e[2] = h[2]
        PROVE  e = h
    <3>1. x \in DOMAIN T.kind /\ T.kind[x] = "XOR_SPLIT"
      BY <2>1 DEF NodesOfKind
    <3>2. CASE x \in M
      BY <2>1, <3>1, <3>2 DEF Grafts
    <3>3. CASE x \in N
      <4>1. x \in NodesOfKind(S, "XOR_SPLIT") /\ x # f[1] /\ x \notin M
        BY <1>1, <1>3, <3>1, <3>3 DEF NodesOfKind, Splits
      <4>2. OutOf(T, x) \subseteq OutOf(S, x)
        BY <1>1, <1>3, <4>1 DEF OutOf
      <4>3. QED
        BY <2>1, <4>1, <4>2 DEF NestedBy, Decisive
    <3>4. QED
      BY <1>3, <3>1, <3>2, <3>3
  <2>2. QED
    BY <2>1 DEF Decisive
<1>18. T.kind \in [DOMAIN T.kind -> Kinds]
  BY DEF Grafts
<1>19. QED
  BY <1>10, <1>13, <1>15, <1>16, <1>17, <1>18 DEF NestedBy
-----------------------------------------------------------------------------
(* Nodes R, entered by edge h and left by edge g, go, with all the blocks  *)
(* they begin or end; the edge new closes the gap.                         *)
Kept(S, R) == {e \in S.edges : e[1] \notin R /\ e[2] \notin R}
GapClosed(S, T, R, h, g, new) ==
  /\ h \in S.edges /\ h[1] \notin R /\ h[2] \in R
  /\ g \in S.edges /\ g[1] \in R /\ g[2] \notin R
  /\ \A e \in S.edges : (e[1] \notin R /\ e[2] \in R => e = h) /\ (e[1] \in R /\ e[2] \notin R => e = g)
  /\ S.kind[h[1]] # "XOR_SPLIT"
  /\ IsFiniteSet(S.edges) /\ R \subseteq DOMAIN S.kind
  /\ T.kind = [n \in DOMAIN S.kind \ R |-> S.kind[n]]
  /\ new[1] = h[1] /\ new[2] = g[2]
  /\ new[3] = Cardinality({e \in Kept(S, R) : e[1] = h[1] /\ e[2] = g[2]})
  /\ T.edges = Kept(S, R) \cup {new}
Sealed(S, R, h, g, rank, path, open) ==
  /\ rank[h[1]] < rank[g[2]]
  /\ Along(S, path, h) = Along(S, path, g)
  /\ \A m \in DOMAIN S.kind \ R : \A l \in path[m] : l[1] \notin R
  /\ \A j \in OfKinds(S, Joins) : j \in R <=> open[j] \in R

Renamed(h, new, A) == {IF l = h THEN new ELSE l : l \in A}

LEMMA ClosedNested ==
  ASSUME NEW S, NEW rank, NEW path, NEW open, NestedBy(S, rank, path, open),
         NEW T, NEW R, NEW h, NEW g, NEW new, GapClosed(S, T, R, h, g, new),
         Sealed(S, R, h, g, rank, path, open)
  PROVE  \E r, p, o : /\ NestedBy(T, r, p, o)
                      /\ r = [n \in DOMAIN T.kind |-> rank[n]]
                      /\ o = [j \in OfKinds(T, Joins) |-> open[j]]
                      /\ p = [n \in DOMAIN T.kind |-> Renamed(h, new, path[n])]
<1>1. PICK N, E : N = DOMAIN S.kind /\ E = S.edges
  OBVIOUS
<1>2. PICK K : K = Kept(S, R)
  OBVIOUS
<1>3. /\ K = {e \in E : e[1] \notin R /\ e[2] \notin R}
      /\ rank \in [N -> Nat] /\ S.kind \in [N -> Kinds]
      /\ \A e \in E : e[1] \in N /\ e[2] \in N /\ rank[e[1]] < rank[e[2]]
      /\ path \in [N -> SUBSET LaneEdges(S)]
  BY <1>1, <1>2 DEF NestedBy, Ranked, Laned, Kept
<1>4. /\ h \in E /\ h[1] \in N \ R /\ h[2] \in R
      /\ g \in E /\ g[1] \in R /\ g[2] \in N \ R
      /\ \A e \in E : (e[1] \notin R /\ e[2] \in R => e = h) /\ (e[1] \in R /\ e[2] \notin R => e = g)
      /\ S.kind[h[1]] # "XOR_SPLIT"
      /\ IsFiniteSet(E) /\ R \subseteq N
      /\ DOMAIN T.kind = N \ R /\ \A n \in N \ R : T.kind[n] = S.kind[n]
      /\ new[1] = h[1] /\ new[2] = g[2]
      /\ T.edges = K \cup {new}
  BY <1>1, <1>2, <1>3 DEF GapClosed
<1>5. new[3] = Cardinality(Between(S, h[1], g[2])) /\ new \notin E
  <2>1. Between(S, h[1], g[2]) = {e \in K : e[1] = h[1] /\ e[2] = g[2]}
    BY <1>1, <1>3, <1>4 DEF Between
  <2>2. new[3] = Cardinality(Between(S, h[1], g[2]))
    BY <1>2, <2>1 DEF GapClosed
  <2>3. ASSUME new \in E PROVE FALSE
    <3>1. new[3] \in Nat /\ new[3] < Cardinality(Between(S, new[1], new[2]))
      BY <1>1, <2>3 DEF NestedBy, Counted
    <3>2. QED
      BY <1>4, <2>2, <3>1
  <2>4. QED
    BY <2>2, <2>3
<1>6. PICK sig : sig = [l \in E |-> IF l = h THEN new ELSE l]
  OBVIOUS
<1>7. /\ sig[h] = new /\ \A l \in E : l # h => sig[l] = l
      /\ \A l, k \in E : sig[l] = sig[k] => l = k
  BY <1>4, <1>5, <1>6
<1>27. \A A \in SUBSET E : Renamed(h, new, A) = {sig[l] : l \in A}
  BY <1>6 DEF Renamed
<1>8. PICK r, p, o : /\ r = [n \in N \ R |-> rank[n]]
                     /\ p = [n \in N \ R |-> Renamed(h, new, path[n])]
                     /\ o = [j \in OfKinds(T, Joins) |-> open[j]]
  OBVIOUS
<1>9. \A n \in N : path[n] \subseteq E
  BY <1>1, <1>3 DEF LaneEdges
<1>11. \A A, B \in SUBSET E : Renamed(h, new, A) = Renamed(h, new, B) => A = B
  <2>1. ASSUME NEW A \in SUBSET E, NEW B \in SUBSET E, Renamed(h, new, A) = Renamed(h, new, B), NEW a \in A PROVE a \in B
    <3>1. sig[a] \in Renamed(h, new, B)
      BY <1>27, <2>1
    <3>2. PICK b \in B : sig[a] = sig[b]
      BY <1>27, <2>1, <3>1
    <3>3. QED
      BY <1>7, <3>2
  <2>2. QED
    BY <2>1
<1>12. \A A, B : Renamed(h, new, A \cup B) = Renamed(h, new, A) \cup Renamed(h, new, B)
  BY DEF Renamed
<1>13. \A l \in LaneEdges(S) : l[1] \notin R => sig[l] \in LaneEdges(T) /\ (l # h => l \in K)
  BY <1>1, <1>3, <1>4, <1>7 DEF LaneEdges
<1>14. ASSUME NEW e \in K
       PROVE  /\ e \in E /\ e # h /\ e # g /\ e[1] \in N \ R /\ e[2] \in N \ R
              /\ Along(T, p, e) = Renamed(h, new, Along(S, path, e))
  <2>1. e \in E /\ e # h /\ e # g /\ e[1] \in N \ R /\ e[2] \in N \ R
    BY <1>3, <1>4
  <2>2. e \in LaneEdges(T) <=> e \in LaneEdges(S)
    BY <1>1, <1>4, <2>1 DEF LaneEdges
  <2>3. {e} \cap LaneEdges(T) = Renamed(h, new, {e} \cap LaneEdges(S))
    BY <1>7, <2>1, <2>2 DEF Renamed
  <2>4. p[e[1]] = Renamed(h, new, path[e[1]])
    BY <1>8, <2>1
  <2>5. QED
    BY <1>12, <2>1, <2>3, <2>4 DEF Along
<1>15. Along(T, p, new) = Renamed(h, new, Along(S, path, g))
  <2>1. {new} \cap LaneEdges(T) = Renamed(h, new, {h} \cap LaneEdges(S))
    <3>1. new \in LaneEdges(T) <=> h \in LaneEdges(S)
      BY <1>1, <1>4 DEF LaneEdges
    <3>2. QED
      BY <1>7, <3>1 DEF Renamed
  <2>2. p[h[1]] = Renamed(h, new, path[h[1]])
    BY <1>4, <1>8
  <2>3. Along(S, path, h) = Along(S, path, g)
    BY DEF Sealed
  <2>4. Along(T, p, new) = Renamed(h, new, Along(S, path, h))
    BY <1>4, <1>12, <2>1, <2>2 DEF Along
  <2>5. QED
    BY <2>3, <2>4
<1>16. Ranked(T, r)
  <2>1. r \in [N \ R -> Nat] /\ \A n \in N \ R : r[n] = rank[n]
    BY <1>3, <1>8
  <2>2. rank[h[1]] < rank[g[2]]
    BY DEF Sealed
  <2>3. QED
    BY <1>3, <1>4, <1>14, <2>1, <2>2 DEF Ranked
<1>17. Laned(T, p)
  <2>1. ASSUME NEW n \in N \ R PROVE p[n] \in SUBSET LaneEdges(T)
    <3>1. \A l \in path[n] : l \in LaneEdges(S) /\ l[1] \notin R
      BY <1>1, <1>3, <2>1 DEF Sealed
    <3>2. p[n] = Renamed(h, new, path[n])
      BY <1>8
    <3>3. QED
      BY <1>1, <1>3, <1>6, <1>13, <2>1, <3>1, <3>2 DEF Renamed, LaneEdges
  <2>2. p \in [N \ R -> SUBSET LaneEdges(T)]
    BY <1>8, <2>1
  <2>3. ASSUME NEW e \in T.edges, T.kind[e[2]] \notin Joins PROVE p[e[2]] = Along(T, p, e)
    <3>1. CASE e \in K
      <4>1. path[e[2]] = Along(S, path, e)
        BY <1>1, <1>4, <1>14, <2>3, <3>1 DEF NestedBy, Laned
      <4>2. p[e[2]] = Renamed(h, new, path[e[2]])
        BY <1>8, <1>14, <3>1
      <4>3. QED
        BY <1>14, <3>1, <4>1, <4>2
    <3>2. CASE e = new
      <4>1. path[g[2]] = Along(S, path, g)
        BY <1>1, <1>4, <2>3, <3>2 DEF NestedBy, Laned
      <4>2. p[g[2]] = Renamed(h, new, path[g[2]])
        BY <1>4, <1>8
      <4>3. QED
        BY <1>4, <1>15, <3>2, <4>1, <4>2
    <3>3. QED
      BY <1>4, <2>3, <3>1, <3>2
  <2>4. ASSUME NEW n \in OfKinds(T, {"START", "END"}) PROVE p[n] = {}
    <3>1. n \in N \ R /\ n \in OfKinds(S, {"START", "END"})
      BY <1>1, <1>4, <2>4 DEF OfKinds
    <3>2. path[n] = {} /\ p[n] = Renamed(h, new, path[n])
      BY <1>8, <3>1 DEF NestedBy, Laned
    <3>3. QED
      BY <3>2 DEF Renamed
  <2>5. QED
    BY <1>4, <2>2, <2>3, <2>4 DEF Laned
<1>18. OfKinds(T, Joins) = OfKinds(S, Joins) \ R /\ OfKinds(T, Splits) = OfKinds(S, Splits) \ R
  BY <1>1, <1>4 DEF OfKinds
<1>19. \A j \in OfKinds(S, Joins) : j \in R <=> open[j] \in R
  BY DEF Sealed
<1>20. ASSUME NEW j \in OfKinds(T, Joins) PROVE Closing(T, p, j, open[j])
  <2>1. PICK x : x = open[j]
    OBVIOUS
  <2>2. /\ j \in N \ R /\ x \in N \ R
        /\ Closing(S, path, j, x) /\ S.kind[x] \in Splits
    BY <1>1, <1>18, <1>19, <1>20, <2>1 DEF NestedBy, Paired, OfKinds
  <2>3. /\ S.kind[j] = "AND_JOIN" <=> S.kind[x] = "AND_SPLIT"
        /\ path[x] = path[j]
        /\ {Along(S, path, e) : e \in Into(S, j)} = {path[j] \cup {l} : l \in OutOf(S, x)}
        /\ \A e, f \in Into(S, j) : Along(S, path, e) = Along(S, path, f) => e = f
    BY <2>2 DEF Closing
  <2>4. p[j] = Renamed(h, new, path[j]) /\ p[x] = Renamed(h, new, path[x])
    BY <1>8, <2>2
  <2>14. PICK lift : lift = [f \in E |-> IF f = g THEN new ELSE f]
    OBVIOUS
  <2>15. lift[g] = new /\ \A f \in E : f # g => lift[f] = f
    BY <1>4, <2>14
  <2>5. ASSUME NEW e \in Into(T, j)
        PROVE  \E f \in Into(S, j) : e = lift[f] /\ Along(T, p, e) = Renamed(h, new, Along(S, path, f))
    <3>1. (e \in K /\ e[2] = j) \/ (e = new /\ g[2] = j)
      BY <1>4, <2>5 DEF Into
    <3>2. CASE e \in K /\ e[2] = j
      <4>1. e \in Into(S, j) /\ e = lift[e]
        BY <1>1, <1>14, <2>15, <3>2 DEF Into
      <4>2. Along(T, p, e) = Renamed(h, new, Along(S, path, e))
        BY <1>14, <3>2
      <4>3. QED
        BY <4>1, <4>2
    <3>3. CASE e = new /\ g[2] = j
      <4>1. g \in Into(S, j)
        BY <1>1, <1>4, <3>3 DEF Into
      <4>2. QED
        BY <1>15, <2>15, <3>3, <4>1
    <3>4. QED
      BY <3>1, <3>2, <3>3
  <2>6. ASSUME NEW f \in Into(S, j)
        PROVE  \E e \in Into(T, j) : Along(T, p, e) = Renamed(h, new, Along(S, path, f))
    <3>1. f \in E /\ f[2] = j
      BY <1>1, <2>6 DEF Into
    <3>2. CASE f = g
      <4>1. new \in Into(T, j)
        BY <1>4, <3>1, <3>2 DEF Into
      <4>2. QED
        BY <1>15, <3>2, <4>1
    <3>3. CASE f # g
      <4>1. f \in K
        BY <1>3, <1>4, <2>2, <3>1, <3>3
      <4>2. f \in Into(T, j)
        BY <1>4, <3>1, <4>1 DEF Into
      <4>3. QED
        BY <1>14, <4>1, <4>2
    <3>4. QED
      BY <3>2, <3>3
  <2>7. \A l : l \in OutOf(T, x) <=> \E k \in OutOf(S, x) : l = sig[k]
    <3>1. ASSUME NEW k \in OutOf(S, x) PROVE sig[k] \in OutOf(T, x)
      BY <1>1, <1>3, <1>4, <1>7, <2>2, <3>1 DEF OutOf
    <3>2. ASSUME NEW l \in OutOf(T, x) PROVE \E k \in OutOf(S, x) : l = sig[k]
      <4>1. (l \in K /\ l[1] = x) \/ (l = new /\ h[1] = x)
        BY <1>4, <3>2 DEF OutOf
      <4>2. CASE l \in K /\ l[1] = x
        BY <1>1, <1>7, <1>14, <4>2 DEF OutOf
      <4>3. CASE l = new /\ h[1] = x
        BY <1>1, <1>4, <1>7, <4>3 DEF OutOf
      <4>4. QED
        BY <4>1, <4>2, <4>3
    <3>3. QED
      BY <3>1, <3>2
  <2>16. j \in N /\ OutOf(S, x) \subseteq E
    BY <1>1, <2>2 DEF OutOf
  <2>8. ASSUME NEW l \in OutOf(S, x) PROVE Renamed(h, new, path[j] \cup {l}) = p[j] \cup {sig[l]}
    BY <1>9, <1>27, <2>2, <2>4, <2>16
  <2>9. {Along(T, p, e) : e \in Into(T, j)} = {p[j] \cup {l} : l \in OutOf(T, x)}
    <3>1. ASSUME NEW e \in Into(T, j) PROVE \E l \in OutOf(T, x) : Along(T, p, e) = p[j] \cup {l}
      <4>1. PICK f \in Into(S, j) : Along(T, p, e) = Renamed(h, new, Along(S, path, f))
        BY <2>5, <3>1
      <4>2. PICK k \in OutOf(S, x) : Along(S, path, f) = path[j] \cup {k}
        BY <2>3
      <4>3. Along(T, p, e) = p[j] \cup {sig[k]} /\ sig[k] \in OutOf(T, x)
        BY <2>7, <2>8, <4>1, <4>2
      <4>4. QED
        BY <4>3
    <3>2. ASSUME NEW l \in OutOf(T, x) PROVE \E e \in Into(T, j) : Along(T, p, e) = p[j] \cup {l}
      <4>1. PICK k \in OutOf(S, x) : l = sig[k]
        BY <2>7, <3>2
      <4>2. PICK f \in Into(S, j) : Along(S, path, f) = path[j] \cup {k}
        BY <2>3, <4>1
      <4>3. PICK e \in Into(T, j) : Along(T, p, e) = Renamed(h, new, Along(S, path, f))
        BY <2>6
      <4>4. Along(T, p, e) = p[j] \cup {l}
        BY <2>8, <4>1, <4>2, <4>3
      <4>5. QED
        BY <4>4
    <3>3. PICK in, out : /\ in = {Along(T, p, e) : e \in Into(T, j)}
                         /\ out = {p[j] \cup {l} : l \in OutOf(T, x)}
      OBVIOUS
    <3>4. in \subseteq out
      BY <3>1, <3>3
    <3>5. out \subseteq in
      BY <3>2, <3>3
    <3>6. QED
      BY <3>3, <3>4, <3>5
  <2>10. \A e \in E : Along(S, path, e) \in SUBSET E
    BY <1>1, <1>3, <1>9 DEF Along
  <2>11. ASSUME NEW e \in Into(T, j), NEW f \in Into(T, j), Along(T, p, e) = Along(T, p, f)
         PROVE  e = f
    <3>1. PICK a \in Into(S, j) : e = lift[a] /\ Along(T, p, e) = Renamed(h, new, Along(S, path, a))
      BY <2>5, <2>11
    <3>2. PICK b \in Into(S, j) : f = lift[b] /\ Along(T, p, f) = Renamed(h, new, Along(S, path, b))
      BY <2>5, <2>11
    <3>3. a \in E /\ b \in E
      BY <1>1, <3>1, <3>2 DEF Into
    <3>4. Renamed(h, new, Along(S, path, a)) = Renamed(h, new, Along(S, path, b))
      BY <2>11, <3>1, <3>2
    <3>5. Along(S, path, a) = Along(S, path, b)
      BY <1>11, <2>10, <3>3, <3>4
    <3>6. a = b
      BY <2>3, <3>1, <3>2, <3>5
    <3>7. QED
      BY <3>1, <3>2, <3>6
  <2>12. T.kind[j] = S.kind[j] /\ T.kind[x] = S.kind[x] /\ p[x] = p[j]
    BY <1>4, <2>2, <2>3, <2>4
  <2>13. QED
    BY <2>1, <2>3, <2>9, <2>11, <2>12 DEF Closing
<1>21. Paired(T, p, o)
  <2>1. /\ open \in [OfKinds(S, Joins) -> OfKinds(S, Splits)]
        /\ \A x \in OfKinds(S, Splits) : \E j \in OfKinds(S, Joins) : open[j] = x
        /\ \A i, j \in OfKinds(S, Joins) : open[i] = open[j] => i = j
    BY DEF NestedBy, Paired
  <2>2. \A j \in OfKinds(T, Joins) : o[j] = open[j] /\ open[j] \in OfKinds(T, Splits)
    BY <1>8, <1>18, <1>19, <2>1
  <2>3. o \in [OfKinds(T, Joins) -> OfKinds(T, Splits)]
    BY <1>8, <2>2
  <2>4. \A x \in OfKinds(T, Splits) : \E j \in OfKinds(T, Joins) : o[j] = x
    BY <1>18, <1>19, <2>1, <2>2
  <2>5. \A i, j \in OfKinds(T, Joins) : o[i] = o[j] => i = j
    BY <1>18, <2>1, <2>2
  <2>6. QED
    BY <1>20, <2>2, <2>3, <2>4, <2>5 DEF Paired
<1>22. Counted(T)
  <2>1. PICK B : B = Between(S, h[1], g[2])
    OBVIOUS
  <2>2. B \subseteq K /\ Between(T, h[1], g[2]) = B \cup {new} /\ new \notin B
    BY <1>1, <1>3, <1>4, <1>5, <2>1 DEF Between
  <2>3. IsFiniteSet(B)
    BY <1>3, <1>4, <2>2, FS_Subset
  <2>4. /\ Cardinality(B) \in Nat
        /\ Cardinality(Between(T, h[1], g[2])) = Cardinality(B) + 1
    BY <2>2, <2>3, FS_CardinalityType, FS_AddElement
  <2>5. ASSUME NEW e \in K PROVE e[3] \in Nat /\ e[3] < Cardinality(Between(T, e[1], e[2]))
    <3>1. e[3] \in Nat /\ e[3] < Cardinality(Between(S, e[1], e[2]))
      BY <1>1, <1>14 DEF NestedBy, Counted
    <3>2. CASE e[1] = h[1] /\ e[2] = g[2]
      BY <2>1, <2>4, <3>1, <3>2
    <3>3. CASE ~ (e[1] = h[1] /\ e[2] = g[2])
      <4>1. Between(T, e[1], e[2]) = Between(S, e[1], e[2])
        BY <1>1, <1>3, <1>4, <1>14, <3>3 DEF Between
      <4>2. QED
        BY <3>1, <4>1
    <3>4. QED
      BY <3>2, <3>3
  <2>6. new[3] \in Nat /\ new[3] < Cardinality(Between(T, new[1], new[2]))
    BY <1>4, <1>5, <2>1, <2>4
  <2>7. QED
    BY <1>4, <2>5, <2>6 DEF Counted
<1>23. Decisive(T)
  <2>1. ASSUME NEW x \in NodesOfKind(T, "XOR_SPLIT")
        PROVE  x \in NodesOfKind(S, "XOR_SPLIT") /\ OutOf(T, x) \subseteq OutOf(S, x)
    <3>1. x \in N \ R /\ S.kind[x] = "XOR_SPLIT"
      BY <1>4, <2>1 DEF NodesOfKind
    <3>2. x # h[1]
      BY <1>4, <3>1
    <3>3. QED
      BY <1>1, <1>4, <1>14, <3>1, <3>2 DEF NodesOfKind, OutOf
  <2>2. QED
    BY <2>1 DEF NestedBy, Decisive
<1>24. T.kind \in [DOMAIN T.kind -> Kinds]
  BY <1>1, <1>3 DEF GapClosed
<1>25. NestedBy(T, r, p, o)
  BY <1>16, <1>17, <1>21, <1>22, <1>23, <1>24 DEF NestedBy
<1>26. QED
  BY <1>4, <1>8, <1>25
-----------------------------------------------------------------------------
(* A step n alone on its branch, between split x and join j: the branch is *)
(* one of the block that x opens and j closes, and n alone lies in it.     *)
Alone(S, n, x, j, h, g) ==
  /\ n \in DOMAIN S.kind /\ S.kind[n] \notin Splits \cup Joins \cup {"START", "END"}
  /\ S.kind[x] \in Splits /\ S.kind[j] \in Joins
  /\ h \in S.edges /\ h[1] = x /\ h[2] = n
  /\ g \in S.edges /\ g[1] = n /\ g[2] = j

LEMMA AloneOnBranch ==
  ASSUME NEW S, NEW rank, NEW path, NEW open, Nest(S, rank, path, open),
         NEW n, NEW x, NEW j, NEW h, NEW g, Alone(S, n, x, j, h, g)
  PROVE  /\ open[j] = x /\ j \in OfKinds(S, Joins) /\ x \in DOMAIN S.kind /\ j \in DOMAIN S.kind
         /\ \A e \in S.edges : (e[2] = n => e = h) /\ (e[1] = n => e = g)
         /\ Along(S, path, g) = path[j] \cup {h}
         /\ \A m \in DOMAIN S.kind : m # n => h \notin path[m]
<1>1. NestedBy(S, rank, path, open) /\ Drawn(S, rank)
  BY DEF Nest
<1>2. PICK N : N = DOMAIN S.kind
  OBVIOUS
<1>3. /\ rank \in [N -> Nat] /\ h \in S.edges /\ g \in S.edges /\ n \in N /\ x \in N /\ j \in N
      /\ h[1] = x /\ h[2] = n /\ g[1] = n /\ g[2] = j
      /\ S.kind[n] \notin Splits /\ S.kind[n] \notin Joins /\ S.kind[n] # "START" /\ S.kind[n] # "END"
      /\ S.kind[x] \in Splits /\ S.kind[j] \in Joins
  BY <1>1, <1>2 DEF Alone, Drawn, Ranked
<1>4. \A e \in S.edges : (e[2] = n => e = h) /\ (e[1] = n => e = g)
  BY <1>1, <1>2, <1>3, Degrees DEF Into, OutOf
<1>5. path[n] = path[x] \cup {h}
  <2>1. path[n] = Along(S, path, h) /\ h \in Along(S, path, h)
    BY <1>1, <1>3, EdgeLanes
  <2>2. path[x] \subseteq Along(S, path, h) /\ Along(S, path, h) \subseteq path[x] \cup {h}
    BY <1>1, <1>3, EdgeLanes
  <2>3. QED
    BY <2>1, <2>2
<1>6. j \in OfKinds(S, Joins)
  BY <1>2, <1>3 DEF OfKinds
<1>7. PICK y : y = open[j]
  OBVIOUS
<1>8. PICK l \in OutOf(S, y) : Along(S, path, g) = path[j] \cup {l}
  BY <1>1, <1>3, <1>7, EdgeLanes
<1>9. Along(S, path, g) = path[n]
  BY <1>1, <1>3, EdgeLanes
<1>10. /\ y \in N /\ path[y] = path[j] /\ l[1] = y /\ l \notin path[y]
       /\ h \notin path[x]
  BY <1>1, <1>2, <1>3, <1>6, <1>7, <1>8, OpensBelow, LanesBelow DEF OutOf
<1>11. l = h
  <2>1. SUFFICES ASSUME l # h PROVE FALSE
    OBVIOUS
  <2>2. h \in path[y] /\ l \in path[x]
    BY <1>5, <1>8, <1>9, <1>10, <2>1
  <2>3. rank[x] < rank[y] /\ rank[y] < rank[x]
    BY <1>2, <1>3, <1>10, <2>2, LanesBelow
  <2>4. rank[x] \in Nat /\ rank[y] \in Nat
    BY <1>3, <1>10
  <2>5. QED
    BY <2>3, <2>4
<1>12. y = x
  BY <1>3, <1>10, <1>11
<1>13. ASSUME NEW m \in N, m # n, h \in path[m] PROVE FALSE
  <2>1. m \in Reachable(S, n)
    BY <1>2, <1>3, <1>13, FromLane
  <2>2. j \in Reachable(S, m)
    BY <1>2, <1>3, <1>6, <1>7, <1>12, <1>13, ToJoin
  <2>3. PICK Z : Z = {k \in N : k = j \/ k \in Reachable(S, j)}
    OBVIOUS
  <2>4. \A e \in OutOf(S, n) : e[2] \in Z
    BY <1>3, <1>4, <2>3 DEF OutOf
  <2>5. \A e \in S.edges : e[1] \in Z => e[2] \in Z
    BY <1>1, <1>2, <1>3, <2>3, Onwards, OverEdge
  <2>6. m \in Z
    BY <1>1, <1>2, <1>3, <2>1, <2>4, <2>5, Onwards
  <2>7. rank[m] < rank[j]
    BY <1>1, <1>2, <1>13, <2>2, Further
  <2>8. m = j \/ rank[j] < rank[m]
    BY <1>1, <1>2, <1>3, <2>3, <2>6, Further
  <2>9. rank[m] \in Nat /\ rank[j] \in Nat
    BY <1>3, <1>13
  <2>10. QED
    BY <2>7, <2>8, <2>9
<1>14. QED
  BY <1>11, <1>2, <1>3, <1>4, <1>6, <1>7, <1>8, <1>12, <1>13

(* The branch goes, others remain.                                         *)
Cut(S, T, n) ==
  /\ T.kind = [m \in DOMAIN S.kind \ {n} |-> S.kind[m]] /\ T.edges = Kept(S, {n})

LEMMA CutNested ==
  ASSUME NEW S, NEW rank, NEW path, NEW open, Nest(S, rank, path, open),
         NEW n, NEW x, NEW j, NEW h, NEW g, Alone(S, n, x, j, h, g), NEW T, Cut(S, T, n),
         NEW r, r = [m \in DOMAIN T.kind |-> rank[m]], NEW p, p = [m \in DOMAIN T.kind |-> path[m]]
  PROVE  NestedBy(T, r, p, open)
<1>1. NestedBy(S, rank, path, open)
  BY DEF Nest
<1>2. PICK N, E, K : N = DOMAIN S.kind /\ E = S.edges /\ K = Kept(S, {n})
  OBVIOUS
<1>3. /\ open[j] = x /\ j \in OfKinds(S, Joins) /\ x \in N /\ j \in N
      /\ \A e \in E : (e[2] = n => e = h) /\ (e[1] = n => e = g)
      /\ Along(S, path, g) = path[j] \cup {h}
      /\ \A m \in N : m # n => h \notin path[m]
  BY <1>2, AloneOnBranch
<1>4. /\ n \in N /\ h \in E /\ g \in E /\ h[1] = x /\ h[2] = n /\ g[1] = n /\ g[2] = j
      /\ S.kind[n] \notin Splits /\ S.kind[n] \notin Joins /\ S.kind[n] # "START" /\ S.kind[n] # "END"
      /\ S.kind[x] \in Splits /\ S.kind[j] \in Joins
  BY <1>2 DEF Alone
<1>5. /\ K = {e \in E : e[1] # n /\ e[2] # n}
      /\ DOMAIN T.kind = N \ {n} /\ T.edges = K /\ \A m \in N \ {n} : T.kind[m] = S.kind[m]
      /\ rank \in [N -> Nat] /\ S.kind \in [N -> Kinds]
      /\ \A e \in E : e[1] \in N /\ e[2] \in N /\ rank[e[1]] < rank[e[2]]
      /\ path \in [N -> SUBSET LaneEdges(S)]
      /\ \A m \in N \ {n} : r[m] = rank[m] /\ p[m] = path[m]
      /\ r \in [N \ {n} -> Nat]
  BY <1>1, <1>2 DEF NestedBy, Ranked, Laned, Kept, Cut
<1>6. \A e \in E : e \in K <=> e # h /\ e # g
  BY <1>3, <1>4, <1>5
<1>7. LaneEdges(T) = LaneEdges(S) \ {h}
  <2>1. g \notin LaneEdges(S)
    BY <1>2, <1>4 DEF LaneEdges
  <2>2. \A e \in K : e \in E /\ T.kind[e[1]] = S.kind[e[1]]
    BY <1>5
  <2>3. LaneEdges(T) = {e \in K : S.kind[e[1]] \in Splits}
    BY <1>5, <2>2 DEF LaneEdges
  <2>4. LaneEdges(S) = {e \in E : S.kind[e[1]] \in Splits}
    BY <1>2 DEF LaneEdges
  <2>5. QED
    BY <1>6, <2>1, <2>2, <2>3, <2>4
<1>8. ASSUME NEW e \in K
      PROVE  /\ e \in E /\ e[1] \in N \ {n} /\ e[2] \in N \ {n}
             /\ Along(T, p, e) = Along(S, path, e)
  <2>1. e \in E /\ e[1] \in N \ {n} /\ e[2] \in N \ {n} /\ e # h
    BY <1>5, <1>6
  <2>2. {e} \cap LaneEdges(T) = {e} \cap LaneEdges(S)
    BY <1>7, <2>1
  <2>3. QED
    BY <1>5, <2>1, <2>2 DEF Along
<1>9. Ranked(T, r)
  BY <1>5, <1>8 DEF Ranked
<1>10. /\ OfKinds(T, Joins) = OfKinds(S, Joins) /\ OfKinds(T, Splits) = OfKinds(S, Splits)
       /\ OfKinds(T, {"START", "END"}) = OfKinds(S, {"START", "END"})
       /\ NodesOfKind(T, "XOR_SPLIT") = NodesOfKind(S, "XOR_SPLIT")
       /\ n \notin OfKinds(S, Joins) /\ n \notin OfKinds(S, Splits)
       /\ n \notin OfKinds(S, {"START", "END"})
  BY <1>2, <1>4, <1>5 DEF OfKinds, NodesOfKind, Splits
<1>11. Laned(T, p)
  <2>1. ASSUME NEW m \in N \ {n} PROVE p[m] \in SUBSET LaneEdges(T)
    BY <1>3, <1>5, <1>7, <2>1
  <2>2. p \in [N \ {n} -> SUBSET LaneEdges(T)]
    BY <1>5, <2>1
  <2>3. ASSUME NEW e \in K, T.kind[e[2]] \notin Joins PROVE p[e[2]] = Along(T, p, e)
    <3>1. path[e[2]] = Along(S, path, e)
      BY <1>1, <1>2, <1>5, <1>8, <2>3 DEF NestedBy, Laned
    <3>2. QED
      BY <1>5, <1>8, <3>1
  <2>4. ASSUME NEW m \in OfKinds(S, {"START", "END"}) PROVE p[m] = {}
    <3>1. m \in N \ {n} /\ path[m] = {}
      BY <1>1, <1>2, <1>10, <2>4 DEF NestedBy, Laned, OfKinds
    <3>2. QED
      BY <1>5, <3>1
  <2>5. QED
    BY <1>5, <1>10, <2>2, <2>3, <2>4 DEF Laned
<1>12. ASSUME NEW i \in OfKinds(S, Joins) PROVE Closing(T, p, i, open[i])
  <2>1. PICK y : y = open[i]
    OBVIOUS
  <2>2. i \in N \ {n} /\ y \in N \ {n} /\ Closing(S, path, i, y)
    BY <1>1, <1>2, <1>10, <1>12, <2>1 DEF NestedBy, Paired, OfKinds
  <2>3. /\ S.kind[i] = "AND_JOIN" <=> S.kind[y] = "AND_SPLIT"
        /\ path[y] = path[i]
        /\ {Along(S, path, e) : e \in Into(S, i)} = {path[i] \cup {l} : l \in OutOf(S, y)}
        /\ \A e, f \in Into(S, i) : Along(S, path, e) = Along(S, path, f) => e = f
    BY <2>2 DEF Closing
  <2>4. p[i] = path[i] /\ p[y] = path[y] /\ T.kind[i] = S.kind[i] /\ T.kind[y] = S.kind[y]
    BY <1>5, <2>2
  <2>5. Into(T, i) = Into(S, i) \ {g} /\ OutOf(T, y) = OutOf(S, y) \ {h}
    <3>1. i # h[2] /\ y # g[1] /\ T.edges = K /\ S.edges = E /\ K \subseteq E
      BY <1>2, <1>4, <1>5, <2>2
    <3>2. Into(T, i) = {e \in K : e[2] = i} /\ OutOf(T, y) = {e \in K : e[1] = y}
      BY <3>1 DEF Into, OutOf
    <3>3. Into(S, i) = {e \in E : e[2] = i} /\ OutOf(S, y) = {e \in E : e[1] = y}
      BY <3>1 DEF Into, OutOf
    <3>4. Into(T, i) = Into(S, i) \ {g}
      BY <1>6, <3>1, <3>2, <3>3
    <3>5. OutOf(T, y) = OutOf(S, y) \ {h}
      BY <1>6, <3>1, <3>2, <3>3
    <3>6. QED
      BY <3>4, <3>5
  <2>6. (i = j) <=> (y = x)
    BY <1>1, <1>3, <1>12, <2>1 DEF NestedBy, Paired
  <2>7. ASSUME NEW e \in Into(T, i) PROVE e \in K /\ e \in Into(S, i) /\ Along(T, p, e) = Along(S, path, e)
    BY <1>5, <1>8, <2>5, <2>7 DEF Into
  <2>8. ASSUME NEW e \in Into(T, i) PROVE \E l \in OutOf(T, y) : Along(T, p, e) = path[i] \cup {l}
    <3>1. PICK l \in OutOf(S, y) : Along(S, path, e) = path[i] \cup {l}
      BY <2>3, <2>7, <2>8
    <3>2. CASE l # h
      BY <2>5, <2>7, <2>8, <3>1, <3>2
    <3>3. CASE l = h
      <4>1. y = x /\ i = j
        BY <1>4, <2>6, <3>1, <3>3 DEF OutOf
      <4>2. g \in Into(S, i) /\ Along(S, path, e) = Along(S, path, g)
        BY <1>2, <1>3, <1>4, <3>1, <3>3, <4>1 DEF Into
      <4>3. QED
        BY <2>3, <2>5, <2>7, <2>8, <4>2
    <3>4. QED
      BY <3>2, <3>3
  <2>9. ASSUME NEW l \in OutOf(T, y) PROVE \E e \in Into(T, i) : Along(T, p, e) = path[i] \cup {l}
    <3>1. l \in OutOf(S, y) /\ l # h
      BY <2>5, <2>9
    <3>2. PICK e \in Into(S, i) : Along(S, path, e) = path[i] \cup {l}
      BY <2>3, <3>1
    <3>3. e # g
      <4>1. SUFFICES ASSUME e = g PROVE FALSE
        OBVIOUS
      <4>2. i = j
        BY <1>4, <3>2, <4>1 DEF Into
      <4>3. path[i] \cup {l} = path[i] \cup {h}
        BY <1>3, <3>2, <4>1, <4>2
      <4>4. l \notin path[y]
        BY <1>2, <2>2, <3>1, LanesBelow
      <4>5. QED
        BY <2>3, <3>1, <4>3, <4>4
    <3>4. QED
      BY <2>5, <2>7, <3>2, <3>3
  <2>10. {Along(T, p, e) : e \in Into(T, i)} = {p[i] \cup {l} : l \in OutOf(T, y)}
    <3>1. PICK in, out : /\ in = {Along(T, p, e) : e \in Into(T, i)}
                         /\ out = {p[i] \cup {l} : l \in OutOf(T, y)}
      OBVIOUS
    <3>2. in \subseteq out
      BY <2>4, <2>8, <3>1
    <3>3. out \subseteq in
      BY <2>4, <2>9, <3>1
    <3>4. QED
      BY <3>1, <3>2, <3>3
  <2>11. \A e, f \in Into(T, i) : Along(T, p, e) = Along(T, p, f) => e = f
    BY <2>3, <2>7
  <2>12. QED
    BY <2>1, <2>3, <2>4, <2>10, <2>11 DEF Closing
<1>13. Paired(T, p, open)
  BY <1>1, <1>10, <1>12 DEF NestedBy, Paired
<1>14. Counted(T)
  <2>1. ASSUME NEW e \in K PROVE Between(T, e[1], e[2]) = Between(S, e[1], e[2])
    BY <1>2, <1>5, <1>8 DEF Between
  <2>2. QED
    BY <1>1, <1>2, <1>5, <1>8, <2>1 DEF NestedBy, Counted
<1>15. Decisive(T)
  <2>1. \A y : OutOf(T, y) \subseteq OutOf(S, y)
    BY <1>2, <1>5 DEF OutOf
  <2>2. QED
    BY <1>1, <1>10, <2>1 DEF NestedBy, Decisive
<1>16. T.kind \in [DOMAIN T.kind -> Kinds]
  BY <1>2, <1>5 DEF Cut
<1>17. QED
  BY <1>11, <1>5, <1>9, <1>13, <1>14, <1>15, <1>16 DEF NestedBy

(* A block with one branch l left is none: its ends may become steps.      *)
Leveled(S, T, x, j, l, path, open) ==
  /\ j \in OfKinds(S, Joins) /\ open[j] = x /\ OutOf(S, x) = {l}
  /\ \A y \in DOMAIN S.kind : \A k \in OutOf(S, y) : k \notin path[y]
  /\ T.edges = S.edges
  /\ T.kind = [m \in DOMAIN S.kind |-> IF m \in {x, j} THEN "ACTIVITY" ELSE S.kind[m]]

LEMMA LeveledNested ==
  ASSUME NEW S, NEW rank, NEW path, NEW open, NestedBy(S, rank, path, open),
         NEW T, NEW x, NEW j, NEW l, Leveled(S, T, x, j, l, path, open),
         NEW p, p = [m \in DOMAIN S.kind |-> path[m] \ {l}],
         NEW o, o = [i \in OfKinds(T, Joins) |-> open[i]]
  PROVE  NestedBy(T, rank, p, o) /\ \A e \in S.edges : Along(T, p, e) = Along(S, path, e) \ {l}
<1>1. PICK N, E : N = DOMAIN S.kind /\ E = S.edges
  OBVIOUS
<1>2. /\ rank \in [N -> Nat] /\ S.kind \in [N -> Kinds]
      /\ \A e \in E : e[1] \in N /\ e[2] \in N /\ rank[e[1]] < rank[e[2]]
      /\ path \in [N -> SUBSET LaneEdges(S)]
      /\ open \in [OfKinds(S, Joins) -> OfKinds(S, Splits)]
      /\ \A i, k \in OfKinds(S, Joins) : open[i] = open[k] => i = k
      /\ \A y \in OfKinds(S, Splits) : \E i \in OfKinds(S, Joins) : open[i] = y
  BY <1>1 DEF NestedBy, Ranked, Laned, Paired
<1>3. /\ j \in OfKinds(S, Joins) /\ open[j] = x /\ OutOf(S, x) = {l}
      /\ \A y \in N : \A k \in OutOf(S, y) : k \notin path[y]
      /\ T.edges = E
      /\ T.kind = [m \in N |-> IF m \in {x, j} THEN "ACTIVITY" ELSE S.kind[m]]
  BY <1>1 DEF Leveled
<1>4. /\ x \in OfKinds(S, Splits) /\ x \in N /\ S.kind[x] \in Splits
      /\ j \in N /\ S.kind[j] \in Joins /\ x # j
      /\ l \in E /\ l[1] = x /\ \A e \in E : e[1] = x => e = l
  BY <1>1, <1>2, <1>3 DEF OfKinds, OutOf, Splits, Joins
<1>5. /\ DOMAIN T.kind = N /\ T.kind[x] = "ACTIVITY" /\ T.kind[j] = "ACTIVITY"
      /\ \A m \in N : m # x /\ m # j => T.kind[m] = S.kind[m]
      /\ \A m \in N : p[m] = path[m] \ {l}
  BY <1>1, <1>3, <1>4
<1>6. /\ OfKinds(T, Joins) = OfKinds(S, Joins) \ {j} /\ OfKinds(T, Splits) = OfKinds(S, Splits) \ {x}
      /\ OfKinds(T, {"START", "END"}) = OfKinds(S, {"START", "END"})
      /\ NodesOfKind(T, "XOR_SPLIT") \subseteq NodesOfKind(S, "XOR_SPLIT")
  BY <1>1, <1>4, <1>5 DEF OfKinds, NodesOfKind, Splits, Joins
<1>7. LaneEdges(T) = LaneEdges(S) \ {l}
  <2>1. LaneEdges(T) = {e \in E : T.kind[e[1]] \in Splits}
    BY <1>3 DEF LaneEdges
  <2>2. LaneEdges(S) = {e \in E : S.kind[e[1]] \in Splits}
    BY <1>1 DEF LaneEdges
  <2>3. ASSUME NEW e \in E PROVE T.kind[e[1]] \in Splits <=> S.kind[e[1]] \in Splits /\ e # l
    <3>1. CASE e[1] = x
      BY <1>4, <1>5, <2>3, <3>1 DEF Splits
    <3>2. CASE e[1] = j
      BY <1>4, <1>5, <2>3, <3>2 DEF Splits, Joins
    <3>3. CASE e[1] # x /\ e[1] # j
      BY <1>2, <1>4, <1>5, <2>3, <3>3
    <3>4. QED
      BY <3>1, <3>2, <3>3
  <2>4. QED
    BY <2>1, <2>2, <2>3
<1>8. ASSUME NEW e \in E PROVE Along(T, p, e) = Along(S, path, e) \ {l}
  BY <1>2, <1>5, <1>7, <1>8 DEF Along
<1>9. Laned(T, p)
  <2>1. p \in [N -> SUBSET LaneEdges(T)]
    <3>1. \A m \in N : p[m] \subseteq LaneEdges(T)
      BY <1>2, <1>5, <1>7
    <3>2. p = [m \in N |-> p[m]]
      BY <1>1
    <3>3. QED
      BY <3>1, <3>2
  <2>2. ASSUME NEW e \in E, T.kind[e[2]] \notin Joins PROVE p[e[2]] = Along(T, p, e)
    <3>1. CASE S.kind[e[2]] \notin Joins
      BY <1>1, <1>2, <1>5, <1>8, <2>2, <3>1 DEF NestedBy, Laned
    <3>2. CASE S.kind[e[2]] \in Joins
      <4>1. e[2] = j /\ e \in Into(S, j)
        BY <1>1, <1>2, <1>4, <1>5, <2>2, <3>2 DEF Into, Splits, Joins
      <4>2. Closing(S, path, j, x)
        BY <1>3 DEF NestedBy, Paired
      <4>3. path[x] = path[j] /\ Along(S, path, e) \in {path[j] \cup {k} : k \in OutOf(S, x)}
        BY <4>1, <4>2 DEF Closing
      <4>4. Along(S, path, e) = path[j] \cup {l}
        BY <1>3, <4>3
      <4>5. QED
        BY <1>4, <1>5, <1>8, <4>1, <4>4
    <3>3. QED
      BY <3>1, <3>2
  <2>3. ASSUME NEW m \in OfKinds(S, {"START", "END"}) PROVE p[m] = {}
    <3>1. m \in N /\ path[m] = {}
      BY <1>1, <2>3 DEF NestedBy, Laned, OfKinds
    <3>2. QED
      BY <1>5, <3>1
  <2>4. QED
    BY <1>3, <1>5, <1>6, <2>1, <2>2, <2>3 DEF Laned
<1>10. ASSUME NEW i \in OfKinds(T, Joins) PROVE Closing(T, p, i, open[i])
  <2>1. PICK y : y = open[i]
    OBVIOUS
  <2>2. i \in OfKinds(S, Joins) /\ i # j /\ i # x /\ y # x /\ y # j
    BY <1>2, <1>3, <1>4, <1>6, <1>10, <2>1 DEF OfKinds, Splits, Joins
  <2>3. i \in N /\ y \in N /\ Closing(S, path, i, y)
    BY <1>1, <1>2, <2>1, <2>2 DEF NestedBy, Paired, OfKinds
  <2>4. /\ S.kind[i] = "AND_JOIN" <=> S.kind[y] = "AND_SPLIT"
        /\ path[y] = path[i]
        /\ {Along(S, path, e) : e \in Into(S, i)} = {path[i] \cup {k} : k \in OutOf(S, y)}
        /\ \A e, f \in Into(S, i) : Along(S, path, e) = Along(S, path, f) => e = f
    BY <2>3 DEF Closing
  <2>5. /\ T.kind[i] = S.kind[i] /\ T.kind[y] = S.kind[y]
        /\ p[i] = path[i] \ {l} /\ p[y] = path[y] \ {l}
    BY <1>5, <2>2, <2>3
  <2>6. /\ Into(T, i) = Into(S, i) /\ OutOf(T, y) = OutOf(S, y)
        /\ Into(S, i) \subseteq E
    BY <1>1, <1>3 DEF Into, OutOf
  <2>7. \A k \in OutOf(S, y) : k \notin path[i] /\ k # l
    BY <1>3, <1>4, <2>2, <2>3, <2>4 DEF OutOf
  <2>8. ASSUME NEW e \in Into(S, i)
        PROVE  \E k \in OutOf(S, y) : Along(S, path, e) = path[i] \cup {k} /\ Along(T, p, e) = p[i] \cup {k}
    <3>1. PICK k \in OutOf(S, y) : Along(S, path, e) = path[i] \cup {k}
      BY <2>4, <2>8
    <3>2. Along(T, p, e) = p[i] \cup {k}
      BY <1>8, <2>5, <2>6, <2>7, <2>8, <3>1
    <3>3. QED
      BY <3>1, <3>2
  <2>9. ASSUME NEW k \in OutOf(S, y) PROVE \E e \in Into(S, i) : Along(T, p, e) = p[i] \cup {k}
    <3>1. PICK e \in Into(S, i) : Along(S, path, e) = path[i] \cup {k}
      BY <2>4, <2>9
    <3>2. Along(T, p, e) = p[i] \cup {k}
      BY <1>8, <2>5, <2>6, <2>7, <3>1
    <3>3. QED
      BY <3>2
  <2>10. {Along(T, p, e) : e \in Into(T, i)} = {p[i] \cup {k} : k \in OutOf(T, y)}
    <3>1. PICK in, out : /\ in = {Along(T, p, e) : e \in Into(T, i)}
                         /\ out = {p[i] \cup {k} : k \in OutOf(T, y)}
      OBVIOUS
    <3>2. in \subseteq out
      BY <2>6, <2>8, <3>1
    <3>3. out \subseteq in
      BY <2>6, <2>9, <3>1
    <3>4. QED
      BY <3>1, <3>2, <3>3
  <2>11. ASSUME NEW e \in Into(S, i), NEW f \in Into(S, i), Along(T, p, e) = Along(T, p, f)
         PROVE  e = f
    <3>1. PICK a \in OutOf(S, y) : Along(S, path, e) = path[i] \cup {a} /\ Along(T, p, e) = p[i] \cup {a}
      BY <2>8
    <3>2. PICK b \in OutOf(S, y) : Along(S, path, f) = path[i] \cup {b} /\ Along(T, p, f) = p[i] \cup {b}
      BY <2>8
    <3>3. a = b
      BY <2>5, <2>7, <2>11, <3>1, <3>2
    <3>4. QED
      BY <2>4, <3>1, <3>2, <3>3
  <2>12. QED
    BY <2>1, <2>4, <2>5, <2>6, <2>10, <2>11 DEF Closing
<1>11. Paired(T, p, o)
  <2>1. \A i \in OfKinds(T, Joins) : o[i] = open[i] /\ open[i] \in OfKinds(T, Splits)
    BY <1>2, <1>3, <1>6
  <2>2. o \in [OfKinds(T, Joins) -> OfKinds(T, Splits)]
    BY <2>1
  <2>3. \A y \in OfKinds(T, Splits) : \E i \in OfKinds(T, Joins) : o[i] = y
    BY <1>2, <1>3, <1>6, <2>1
  <2>4. \A i, k \in OfKinds(T, Joins) : o[i] = o[k] => i = k
    BY <1>2, <1>6, <2>1
  <2>5. QED
    BY <1>10, <2>1, <2>2, <2>3, <2>4 DEF Paired
<1>12. Ranked(T, rank)
  BY <1>2, <1>3, <1>5 DEF Ranked
<1>13. Counted(T) /\ Decisive(T)
  <2>1. (\A a, b : Between(T, a, b) = Between(S, a, b)) /\ \A y : OutOf(T, y) = OutOf(S, y)
    BY <1>1, <1>3 DEF Between, OutOf
  <2>2. QED
    BY <1>1, <1>3, <1>6, <2>1 DEF NestedBy, Counted, Decisive
<1>14. T.kind \in [DOMAIN T.kind -> Kinds]
  BY <1>2, <1>3 DEF Kinds
<1>15. QED
  BY <1>11, <1>1, <1>8, <1>9, <1>12, <1>13, <1>14 DEF NestedBy

(* A step x between edges f and l goes.                                    *)
Bypassed(S, T, x, f, l) ==
  /\ IsFiniteSet(S.edges)
  /\ x \in DOMAIN S.kind /\ S.kind[x] \notin Splits \cup Joins
  /\ f \in S.edges /\ f[2] = x /\ l \in S.edges /\ l[1] = x
  /\ \A e \in S.edges : (e[2] = x => e = f) /\ (e[1] = x => e = l)
  /\ S.kind[f[1]] # "XOR_SPLIT"
  /\ T.kind = [m \in DOMAIN S.kind \ {x} |-> S.kind[m]]
  /\ T.edges = AddEdge(Without(S.edges, {x}), f[1], l[2])

LEMMA BypassedNested ==
  ASSUME NEW S, NEW rank, NEW path, NEW open, NestedBy(S, rank, path, open),
         NEW T, NEW x, NEW f, NEW l, Bypassed(S, T, x, f, l)
  PROVE  \E r, p, o : NestedBy(T, r, p, o)
<1>1. PICK N, E, K : N = DOMAIN S.kind /\ E = S.edges /\ K = Kept(S, {x})
  OBVIOUS
<1>2. /\ rank \in [N -> Nat] /\ \A e \in E : e[1] \in N /\ e[2] \in N /\ rank[e[1]] < rank[e[2]]
      /\ path \in [N -> SUBSET LaneEdges(S)]
      /\ open \in [OfKinds(S, Joins) -> OfKinds(S, Splits)]
  BY <1>1 DEF NestedBy, Ranked, Laned, Paired
<1>3. /\ x \in N /\ S.kind[x] \notin Splits /\ S.kind[x] \notin Joins
      /\ f \in E /\ f[2] = x /\ l \in E /\ l[1] = x
      /\ \A e \in E : (e[2] = x => e = f) /\ (e[1] = x => e = l)
  BY <1>1 DEF Bypassed
<1>4. /\ rank[f[1]] \in Nat /\ rank[x] \in Nat /\ rank[l[2]] \in Nat
      /\ rank[f[1]] < rank[x] /\ rank[x] < rank[l[2]]
      /\ f[1] \in N /\ l[2] \in N
  BY <1>2, <1>3
<1>5. f[1] # x /\ l[2] # x /\ rank[f[1]] < rank[l[2]]
  BY <1>4
<1>6. PICK new : new = <<f[1], l[2], Cardinality({e \in K : e[1] = f[1] /\ e[2] = l[2]})>>
  OBVIOUS
<1>7. GapClosed(S, T, {x}, f, l, new)
  <2>1. T.edges = K \cup {new}
    BY <1>1, <1>6 DEF Bypassed, AddEdge, Kept, Without
  <2>2. /\ new[1] = f[1] /\ new[2] = l[2]
        /\ new[3] = Cardinality({e \in Kept(S, {x}) : e[1] = f[1] /\ e[2] = l[2]})
    BY <1>1, <1>6
  <2>3. \A e \in S.edges : (e[1] \notin {x} /\ e[2] \in {x} => e = f) /\ (e[1] \in {x} /\ e[2] \notin {x} => e = l)
    BY <1>1, <1>3
  <2>4. IsFiniteSet(S.edges) /\ S.kind[f[1]] # "XOR_SPLIT" /\ T.kind = [n \in DOMAIN S.kind \ {x} |-> S.kind[n]]
    BY DEF Bypassed
  <2>5. QED
    BY <1>1, <1>3, <1>5, <2>1, <2>2, <2>3, <2>4 DEF GapClosed
<1>8. Sealed(S, {x}, f, l, rank, path, open)
  <2>1. Along(S, path, f) = path[x] /\ Along(S, path, l) = path[x]
    BY <1>1, <1>3, EdgeLanes
  <2>2. \A m \in N : \A k \in path[m] : k[1] # x
    BY <1>2, <1>3 DEF LaneEdges
  <2>3. \A i \in OfKinds(S, Joins) : i # x /\ open[i] # x
    BY <1>2, <1>3 DEF OfKinds
  <2>4. QED
    BY <1>1, <1>5, <2>1, <2>2, <2>3 DEF Sealed
<1>9. QED
  BY <1>7, <1>8, ClosedNested

LEMMA OnlyIs ==
  ASSUME NEW A, NEW a, A = {a}
  PROVE  OnlyOf(A) = a
BY DEF OnlyOf

LEMMA PredSucc ==
  ASSUME NEW S, NEW rank, Drawn(S, rank), NEW n \in DOMAIN S.kind
  PROVE  /\ \A e \in S.edges : e[2] = n /\ S.kind[n] \notin Joins => Pred(S, n) = e[1]
         /\ \A e \in S.edges : e[1] = n /\ S.kind[n] \notin Splits => Succ(S, n) = e[2]
<1>1. ASSUME NEW e \in S.edges, e[2] = n, S.kind[n] \notin Joins PROVE Pred(S, n) = e[1]
  <2>1. PICK A : A = {i[1] : i \in Into(S, n)}
    OBVIOUS
  <2>2. e \in Into(S, n) /\ \A i \in Into(S, n) : i = e
    BY <1>1, Degrees DEF Into
  <2>3. A = {e[1]}
    BY <2>1, <2>2
  <2>4. QED
    BY <2>1, <2>3, OnlyIs DEF Pred
<1>2. ASSUME NEW e \in S.edges, e[1] = n, S.kind[n] \notin Splits PROVE Succ(S, n) = e[2]
  <2>1. PICK A : A = {i[2] : i \in OutOf(S, n)}
    OBVIOUS
  <2>2. e \in OutOf(S, n) /\ \A i \in OutOf(S, n) : i = e
    BY <1>2, Degrees DEF OutOf
  <2>3. A = {e[2]}
    BY <2>1, <2>2
  <2>4. QED
    BY <2>1, <2>3, OnlyIs DEF Succ
<1>3. QED
  BY <1>1, <1>2

(* With one branch left the block around it goes: its ends become steps    *)
(* and are bypassed.                                                       *)
Remaining(S, n, x) == {e \in Without(S.edges, {n}) : e[1] = x}
Tail(S, n, j) == OnlyOf({e[1] : e \in {e \in Without(S.edges, {n}) : e[2] = j}})
Dissolved(S, T, n, x, j) ==
  /\ ~ Cardinality(Remaining(S, n, x)) >= 2
  /\ T.kind = [m \in DOMAIN S.kind \ {n, x, j} |-> S.kind[m]]
  /\ T.edges = AddEdge(AddEdge(Without(Without(S.edges, {n}), {x, j}),
                               Pred(S, x), OnlyOf(Remaining(S, n, x))[2]),
                       Tail(S, n, j), Succ(S, j))
  /\ EdgesOK(T)
  /\ S.kind[Pred(S, x)] # "XOR_SPLIT" /\ S.kind[Tail(S, n, j)] # "XOR_SPLIT"

LEMMA OneLeft ==
  ASSUME NEW S, NEW rank, NEW path, NEW open, Nest(S, rank, path, open),
         NEW n, NEW x, NEW j, NEW h, NEW g, Alone(S, n, x, j, h, g),
         ~ Cardinality(Remaining(S, n, x)) >= 2
  PROVE  \E l, t : /\ Remaining(S, n, x) = {l} /\ l \in Kept(S, {n}) /\ l[1] = x
                   /\ {e \in Kept(S, {n}) : e[2] = j} = {t} /\ t \in Kept(S, {n}) /\ t[2] = j
                   /\ OnlyOf(Remaining(S, n, x)) = l /\ Tail(S, n, j) = t[1]
<1>1. NestedBy(S, rank, path, open) /\ Drawn(S, rank)
  BY DEF Nest
<1>2. PICK N, E, K : N = DOMAIN S.kind /\ E = S.edges /\ K = Kept(S, {n})
  OBVIOUS
<1>3. /\ open[j] = x /\ j \in OfKinds(S, Joins) /\ x \in N /\ j \in N
      /\ \A e \in E : (e[2] = n => e = h) /\ (e[1] = n => e = g)
      /\ Along(S, path, g) = path[j] \cup {h}
  BY <1>2, AloneOnBranch
<1>4. /\ n \in N /\ h \in E /\ g \in E /\ h[1] = x /\ h[2] = n /\ g[1] = n /\ g[2] = j
      /\ S.kind[x] \in Splits
  BY <1>2 DEF Alone
<1>5. K = {e \in E : e # h /\ e # g}
  BY <1>2, <1>3, <1>4 DEF Kept
<1>6. PICK A, O : A = Remaining(S, n, x) /\ O = OutOf(S, x)
  OBVIOUS
<1>7. A = {e \in K : e[1] = x} /\ O = {e \in E : e[1] = x}
  BY <1>2, <1>6 DEF Remaining, Kept, Without, OutOf
<1>8. A = O \ {h} /\ h \in O
  <2>1. g[1] # x
    BY <1>4 DEF Alone
  <2>2. QED
    BY <1>4, <1>5, <1>7, <2>1
<1>9. IsFiniteSet(O) /\ Cardinality(O) >= 2
  <2>1. IsFiniteSet(O)
    BY <1>1, <1>2, <1>7, FS_Subset DEF Drawn
  <2>2. DegreesOK(S, x)
    BY <1>1, <1>2, <1>3 DEF Drawn, K2
  <2>3. QED
    BY <1>4, <1>6, <2>1, <2>2 DEF DegreesOK
<1>10. IsFiniteSet(A) /\ Cardinality(A) = 1
  <2>1. IsFiniteSet(A) /\ Cardinality(A) = Cardinality(O) - 1 /\ Cardinality(O) \in Nat
    BY <1>8, <1>9, FS_RemoveElement, FS_CardinalityType
  <2>2. QED
    BY <1>6, <1>9, <2>1
<1>11. PICK l : A = {l}
  BY <1>10, FS_Singleton
<1>12. l \in K /\ l[1] = x /\ l \in O /\ l # h /\ OnlyOf(A) = l
  BY <1>11, <1>7, <1>8, OnlyIs
<1>13. /\ {Along(S, path, e) : e \in Into(S, j)} = {path[j] \cup {k} : k \in O}
       /\ \A e, f \in Into(S, j) : Along(S, path, e) = Along(S, path, f) => e = f
       /\ \A k \in O : k \notin path[j]
  <2>1. Closing(S, path, j, x)
    BY <1>1, <1>3 DEF NestedBy, Paired
  <2>2. path[x] = path[j] /\ \A k \in O : k \notin path[x]
    BY <1>2, <1>3, <1>6, LanesBelow, OpensBelow
  <2>3. QED
    BY <1>6, <2>1, <2>2 DEF Closing
<1>14. PICK t \in Into(S, j) : Along(S, path, t) = path[j] \cup {l}
  BY <1>12, <1>13
<1>15. g \in Into(S, j)
  BY <1>2, <1>4 DEF Into
<1>16. t # g /\ t # h
  <2>1. t # g
    BY <1>3, <1>8, <1>12, <1>13, <1>14
  <2>2. j # n
    BY <1>4 DEF Alone
  <2>3. QED
    BY <1>4, <1>14, <2>1, <2>2 DEF Into
<1>17. t \in K /\ t[2] = j
  BY <1>2, <1>5, <1>14, <1>16 DEF Into
<1>18. ASSUME NEW e \in K, e[2] = j PROVE e = t
  <2>1. e \in Into(S, j) /\ e # g
    BY <1>2, <1>5, <1>18 DEF Into
  <2>2. PICK k \in O : Along(S, path, e) = path[j] \cup {k}
    BY <1>13, <2>1
  <2>3. k # h
    BY <1>3, <1>13, <1>15, <2>1, <2>2
  <2>4. k = l
    BY <1>11, <1>8, <2>2, <2>3
  <2>5. QED
    BY <1>13, <1>14, <2>1, <2>2, <2>4
<1>19. {e \in K : e[2] = j} = {t}
  BY <1>17, <1>18
<1>20. Tail(S, n, j) = t[1]
  <2>1. PICK B : B = {e[1] : e \in {e \in Without(S.edges, {n}) : e[2] = j}}
    OBVIOUS
  <2>2. {e \in Without(S.edges, {n}) : e[2] = j} = {t}
    BY <1>2, <1>19 DEF Kept, Without
  <2>3. B = {t[1]}
    BY <2>1, <2>2
  <2>4. QED
    BY <2>1, <2>3, OnlyIs DEF Tail
<1>21. QED
  BY <1>11, <1>2, <1>6, <1>12, <1>17, <1>19, <1>20

(* The steps before its ends stay, unless the branch left has none.        *)
LEMMA AroundLeft ==
  ASSUME NEW S, NEW rank, NEW path, NEW open, Nest(S, rank, path, open),
         NEW n, NEW x, NEW j, NEW h, NEW g, Alone(S, n, x, j, h, g),
         NEW l, Remaining(S, n, x) = {l}, l[2] # j,
         NEW i \in S.edges, i[2] = x, NEW t \in Kept(S, {n}), t[2] = j
  PROVE  i[1] \notin {n, x, j} /\ t[1] \notin {n, x, j}
<1>1. NestedBy(S, rank, path, open)
  BY DEF Nest
<1>2. PICK N, E : N = DOMAIN S.kind /\ E = S.edges
  OBVIOUS
<1>3. /\ x \in N /\ j \in N /\ rank[x] < rank[j] /\ x # n /\ x # j /\ j # n
      /\ \A e \in E : e[1] = n => e = g
  <2>1. /\ open[j] = x /\ j \in OfKinds(S, Joins) /\ x \in N /\ j \in N
        /\ \A e \in E : e[1] = n => e = g
    BY <1>2, AloneOnBranch
  <2>2. rank[x] < rank[j]
    BY <2>1, OpensBelow
  <2>3. x # n /\ x # j /\ j # n
    BY DEF Alone, Splits, Joins
  <2>4. QED
    BY <2>1, <2>2, <2>3
<1>4. /\ rank \in [N -> Nat]
      /\ \A e \in E : e[1] \in N /\ e[2] \in N /\ rank[e[1]] < rank[e[2]]
  BY <1>1, <1>2 DEF NestedBy, Ranked
<1>5. g[2] = j /\ t \in E /\ t[1] # n /\ i \in E
  BY <1>2 DEF Alone, Kept
<1>6. rank[x] \in Nat /\ rank[j] \in Nat
  BY <1>3, <1>4
<1>7. i[1] # x /\ i[1] # j
  <2>1. rank[i[1]] < rank[x] /\ rank[i[1]] \in Nat
    BY <1>4, <1>5
  <2>2. QED
    BY <1>3, <1>6, <2>1
<1>8. i[1] # n
  BY <1>3, <1>5
<1>9. t[1] # j
  BY <1>4, <1>5, <1>6
<1>10. t[1] # x
  <2>1. t[1] = x => t \in Remaining(S, n, x)
    BY DEF Remaining, Kept, Without
  <2>2. QED
    BY <2>1
<1>11. QED
  BY <1>5, <1>7, <1>8, <1>9, <1>10

LEMMA DissolvedNested ==
  ASSUME NEW S, NEW rank, NEW path, NEW open, Nest(S, rank, path, open),
         NEW n, NEW x, NEW j, NEW h, NEW g, Alone(S, n, x, j, h, g),
         NEW T, Dissolved(S, T, n, x, j)
  PROVE  \E r, p, o : NestedBy(T, r, p, o)
<1>1. NestedBy(S, rank, path, open) /\ Drawn(S, rank)
  BY DEF Nest
<1>2. PICK N, E, K : N = DOMAIN S.kind /\ E = S.edges /\ K = Kept(S, {n})
  OBVIOUS
<1>3. /\ open[j] = x /\ j \in OfKinds(S, Joins) /\ x \in N /\ j \in N
      /\ \A e \in E : (e[2] = n => e = h) /\ (e[1] = n => e = g)
      /\ rank[x] < rank[j] /\ S.kind[x] \in Splits /\ S.kind[j] \in Joins
  BY <1>2, AloneOnBranch, OpensBelow DEF Alone
<1>4. /\ n \in N /\ h \in E /\ g \in E /\ h[1] = x /\ h[2] = n /\ g[1] = n /\ g[2] = j
      /\ S.kind[n] \notin Splits /\ S.kind[n] \notin Joins
      /\ n # x /\ n # j /\ x # j
  BY <1>2, <1>3 DEF Alone, Splits, Joins
<1>5. /\ rank \in [N -> Nat] /\ S.kind \in [N -> Kinds] /\ IsFiniteSet(E)
      /\ \A e \in E : e[1] \in N /\ e[2] \in N /\ rank[e[1]] < rank[e[2]]
      /\ K = {e \in E : e[1] # n /\ e[2] # n}
  BY <1>1, <1>2 DEF Drawn, Ranked, Kept
<1>6. PICK l, t : /\ Remaining(S, n, x) = {l} /\ l \in K /\ l[1] = x
                  /\ {e \in K : e[2] = j} = {t} /\ t \in K /\ t[2] = j
                  /\ OnlyOf(Remaining(S, n, x)) = l /\ Tail(S, n, j) = t[1]
  BY <1>2, OneLeft DEF Dissolved
<1>7. PICK f : f \in E /\ f[2] = x /\ \A e \in E : e[2] = x => e = f
  <2>1. S.kind[x] # "START" /\ S.kind[x] \notin Joins
    BY <1>3 DEF Splits, Joins
  <2>2. QED
    BY <1>1, <1>2, <1>3, <2>1, Degrees DEF Into
<1>8. PICK w : w \in E /\ w[1] = j /\ \A e \in E : e[1] = j => e = w
  <2>1. S.kind[j] # "END" /\ S.kind[j] \notin Splits
    BY <1>3 DEF Splits, Joins
  <2>2. QED
    BY <1>1, <1>2, <1>3, <2>1, Degrees DEF OutOf
<1>9. PICK q, b, s, u : q = f[1] /\ b = l[2] /\ s = t[1] /\ u = w[2]
  OBVIOUS
<1>10. Pred(S, x) = q /\ Succ(S, j) = u
  <2>1. S.kind[x] \notin Joins /\ S.kind[j] \notin Splits
    BY <1>3 DEF Splits, Joins
  <2>2. QED
    BY <1>1, <1>2, <1>3, <1>7, <1>8, <1>9, <2>1, PredSucc
<1>11. PICK D : D = Without(Without(S.edges, {n}), {x, j})
  OBVIOUS
<1>12. D = {e \in K : e[1] # x /\ e[1] # j /\ e[2] # x /\ e[2] # j}
  BY <1>2, <1>11 DEF Kept, Without
<1>13. /\ T.edges = AddEdge(AddEdge(D, q, b), s, u)
       /\ T.kind = [m \in N \ {n, x, j} |-> S.kind[m]]
       /\ S.kind[q] # "XOR_SPLIT" /\ S.kind[s] # "XOR_SPLIT"
  BY <1>2, <1>6, <1>9, <1>10, <1>11 DEF Dissolved
<1>14. b # j
  <2>1. PICK c : c = <<q, b, Cardinality({e \in D : e[1] = q /\ e[2] = b})>>
    OBVIOUS
  <2>2. c \in T.edges /\ c[2] = b
    BY <1>13, <2>1 DEF AddEdge
  <2>3. b \in DOMAIN T.kind
    BY <2>2 DEF Dissolved, EdgesOK
  <2>4. QED
    BY <1>13, <2>3
<1>15. /\ q \in N /\ b \in N /\ s \in N /\ u \in N
       /\ rank[q] < rank[x] /\ rank[x] < rank[b] /\ rank[s] < rank[j] /\ rank[j] < rank[u]
       /\ rank[q] \in Nat /\ rank[x] \in Nat /\ rank[b] \in Nat
       /\ rank[s] \in Nat /\ rank[j] \in Nat /\ rank[u] \in Nat
  BY <1>3, <1>5, <1>6, <1>7, <1>8, <1>9
<1>16. /\ q # n /\ q # x /\ q # j /\ b # n /\ b # x
       /\ s # n /\ s # j /\ u # n /\ u # x /\ u # j
  <2>1. q # x /\ q # j /\ b # x /\ s # j /\ u # x /\ u # j
    BY <1>3, <1>15
  <2>2. b # n /\ s # n
    BY <1>5, <1>6, <1>9
  <2>3. q # n
    BY <1>3, <1>4, <1>7, <1>9
  <2>4. u # n
    BY <1>3, <1>4, <1>8, <1>9
  <2>5. QED
    BY <2>1, <2>2, <2>3, <2>4
<1>17. f \in K /\ w \in K /\ t # l
  BY <1>3, <1>4, <1>5, <1>6, <1>7, <1>8, <1>9, <1>14, <1>16
<1>18. \A e \in K : e[1] = x => e = l
  BY <1>2, <1>6 DEF Remaining, Kept, Without
<1>19. s # x
  BY <1>6, <1>9, <1>17, <1>18
<1>20. \A e \in K : e[2] = j => e = t
  BY <1>6
(* The branch of n is gone.                                                *)
<1>21. PICK A : A = [kind |-> [m \in N \ {n} |-> S.kind[m]], edges |-> K]
  OBVIOUS
<1>22. A.edges = K /\ A.kind = [m \in N \ {n} |-> S.kind[m]] /\ DOMAIN A.kind = N \ {n}
  BY <1>21
<1>23. PICK r, p : r = [m \in DOMAIN A.kind |-> rank[m]] /\ p = [m \in DOMAIN A.kind |-> path[m]]
  OBVIOUS
<1>24. Cut(S, A, n)
  BY <1>2, <1>22 DEF Cut
<1>25. NestedBy(A, r, p, open)
  BY <1>23, <1>24, CutNested
(* The ends of the block are steps.                                        *)
<1>26. PICK B : B = [kind |-> [m \in N \ {n} |-> IF m \in {x, j} THEN "ACTIVITY" ELSE S.kind[m]],
                     edges |-> K]
  OBVIOUS
<1>27. /\ B.edges = K /\ DOMAIN B.kind = N \ {n} /\ B.kind[x] = "ACTIVITY" /\ B.kind[j] = "ACTIVITY"
       /\ \A m \in N \ {n, x, j} : B.kind[m] = S.kind[m]
  BY <1>3, <1>4, <1>26
<1>28. Leveled(A, B, x, j, l, p, open)
  <2>1. j \in OfKinds(A, Joins)
    BY <1>3, <1>4, <1>22 DEF OfKinds
  <2>2. OutOf(A, x) = {l}
    BY <1>6, <1>18, <1>22 DEF OutOf
  <2>3. ASSUME NEW y \in N \ {n}, NEW k \in OutOf(A, y) PROVE k \notin p[y]
    <3>1. k \in OutOf(S, y)
      BY <1>2, <1>5, <1>22, <2>3 DEF OutOf
    <3>2. QED
      BY <1>2, <1>22, <1>23, <3>1, LanesBelow
  <2>4. B.edges = A.edges
    BY <1>22, <1>27
  <2>5. B.kind = [m \in DOMAIN A.kind |-> IF m \in {x, j} THEN "ACTIVITY" ELSE A.kind[m]]
    BY <1>22, <1>26
  <2>6. QED
    BY <1>3, <1>22, <2>1, <2>2, <2>3, <2>4, <2>5 DEF Leveled
<1>29. \E i, k : NestedBy(B, r, i, k)
  <2>1. PICK i, k : i = [m \in DOMAIN A.kind |-> p[m] \ {l}] /\ k = [m \in OfKinds(B, Joins) |-> open[m]]
    OBVIOUS
  <2>2. QED
    BY <1>25, <1>28, <2>1, LeveledNested
<1>30. PICK i, k : NestedBy(B, r, i, k)
  BY <1>29
(* The split is bypassed.                                                  *)
<1>31. PICK C : C = [kind |-> [m \in (N \ {n}) \ {x} |-> B.kind[m]],
                     edges |-> AddEdge(Without(K, {x}), q, b)]
  OBVIOUS
<1>32. Bypassed(B, C, x, f, l)
  <2>1. IsFiniteSet(K)
    BY <1>5, FS_Subset
  <2>2. "ACTIVITY" \notin Splits \cup Joins
    BY DEF Splits, Joins
  <2>3. \A e \in K : (e[2] = x => e = f) /\ (e[1] = x => e = l)
    BY <1>5, <1>7, <1>18
  <2>4. B.kind[q] # "XOR_SPLIT"
    BY <1>13, <1>15, <1>16, <1>27
  <2>5. C.kind = [m \in DOMAIN B.kind \ {x} |-> B.kind[m]]
    BY <1>27, <1>31
  <2>6. C.edges = AddEdge(Without(B.edges, {x}), f[1], l[2])
    BY <1>9, <1>27, <1>31
  <2>7. x \in DOMAIN B.kind
    BY <1>3, <1>4, <1>27
  <2>8. QED
    BY <1>6, <1>7, <1>9, <1>17, <1>27, <2>1, <2>2, <2>3, <2>4, <2>5, <2>6, <2>7 DEF Bypassed
<1>33. PICK a, v, y : NestedBy(C, a, v, y)
  BY <1>30, <1>32, BypassedNested
(* So is the join.                                                         *)
<1>34. PICK new : new = <<q, b, Cardinality({e \in Without(K, {x}) : e[1] = q /\ e[2] = b})>>
  OBVIOUS
<1>35. /\ C.edges = {e \in K : e[1] # x /\ e[2] # x} \cup {new} /\ new[1] = q /\ new[2] = b
       /\ DOMAIN C.kind = (N \ {n}) \ {x} /\ \A m \in (N \ {n}) \ {x} : C.kind[m] = B.kind[m]
  BY <1>31, <1>34 DEF AddEdge, Without
<1>36. Bypassed(C, T, j, t, w)
  <2>1. IsFiniteSet(C.edges)
    <3>1. IsFiniteSet({e \in K : e[1] # x /\ e[2] # x})
      BY <1>5, FS_Subset
    <3>2. QED
      BY <1>35, <3>1, FS_AddElement
  <2>2. "ACTIVITY" \notin Splits \cup Joins
    BY DEF Splits, Joins
  <2>3. \A e \in C.edges : (e[2] = j => e = t) /\ (e[1] = j => e = w)
    BY <1>5, <1>8, <1>14, <1>16, <1>20, <1>35
  <2>4. t \in C.edges /\ w \in C.edges
    BY <1>4, <1>6, <1>8, <1>9, <1>16, <1>17, <1>19, <1>35
  <2>5. j \in DOMAIN C.kind /\ C.kind[j] = "ACTIVITY"
    BY <1>3, <1>4, <1>27, <1>35
  <2>6. C.kind[s] # "XOR_SPLIT"
    BY <1>13, <1>15, <1>16, <1>19, <1>27, <1>35
  <2>7. T.kind = [m \in DOMAIN C.kind \ {j} |-> C.kind[m]]
    <3>1. DOMAIN C.kind \ {j} = N \ {n, x, j}
      BY <1>35
    <3>2. \A m \in N \ {n, x, j} : C.kind[m] = S.kind[m]
      BY <1>27, <1>35
    <3>3. QED
      BY <1>13, <3>1, <3>2
  <2>8. Without(C.edges, {j}) = AddEdge(D, q, b)
    <3>1. PICK F : F = {e \in Without(K, {x}) : e[1] = q /\ e[2] = b}
      OBVIOUS
    <3>2. F = {e \in D : e[1] = q /\ e[2] = b}
      BY <1>12, <1>14, <1>16, <3>1 DEF Without
    <3>3. new = <<q, b, Cardinality({e \in D : e[1] = q /\ e[2] = b})>>
      BY <1>34, <3>1, <3>2
    <3>4. AddEdge(D, q, b) = D \cup {new}
      BY <3>3 DEF AddEdge
    <3>5. Without(C.edges, {j}) = D \cup {new}
      BY <1>12, <1>14, <1>16, <1>35 DEF Without
    <3>6. QED
      BY <3>4, <3>5
  <2>9. T.edges = AddEdge(Without(C.edges, {j}), t[1], w[2])
    BY <1>9, <1>13, <2>8
  <2>10. QED
    BY <1>6, <1>8, <1>9, <2>1, <2>2, <2>3, <2>4, <2>5, <2>6, <2>7, <2>9 DEF Bypassed
<1>37. QED
  BY <1>33, <1>36, BypassedNested
-----------------------------------------------------------------------------
(* The search for the end of a block, round by round.                      *)
Ends(S, a) == S.kind[a[1]] \in Joins /\ a[2] = 0
Deeper(S, a) ==
  IF S.kind[a[1]] \in Splits THEN a[2] + 1 ELSE IF S.kind[a[1]] \in Joins THEN a[2] - 1 ELSE a[2]
Walked(S, q) ==
  q \cup UNION {{<<t, Deeper(S, a)>> : t \in Succs(S, a[1])} : a \in {a \in q : ~ Ends(S, a)}}
Rounds(r, S, N, x) ==
  /\ r \in [Nat -> SUBSET (N \X Int)]
  /\ r[0] = {<<t, 0>> : t \in Succs(S, x)}
  /\ \A k \in Nat : r[k + 1] = Walked(S, r[k])

LEMMA WalkedType ==
  ASSUME NEW S, NEW N, N = DOMAIN S.kind, NEW q \in SUBSET (N \X Int)
  PROVE  Walked(S, q) \in SUBSET (N \X Int)
<1>1. ASSUME NEW a \in q PROVE Deeper(S, a) \in Int
  <2>1. a \in N \X Int
    OBVIOUS
  <2>2. a[2] \in Int
    BY <2>1
  <2>3. QED
    BY <2>2 DEF Deeper
<1>2. ASSUME NEW a \in q, NEW b \in {<<t, Deeper(S, a)>> : t \in Succs(S, a[1])}
      PROVE  b \in N \X Int
  <2>1. PICK t \in Succs(S, a[1]) : b = <<t, Deeper(S, a)>>
    BY <1>2
  <2>2. t \in N
    BY <2>1 DEF Succs
  <2>3. QED
    BY <1>1, <2>1, <2>2
<1>3. PICK U : U = UNION {{<<t, Deeper(S, a)>> : t \in Succs(S, a[1])} : a \in {a \in q : ~ Ends(S, a)}}
  OBVIOUS
<1>4. U \subseteq N \X Int
  BY <1>2, <1>3
<1>5. QED
  BY <1>3, <1>4 DEF Walked

LEMMA WalkRounds ==
  ASSUME NEW S, NEW N, N = DOMAIN S.kind, NEW x
  PROVE  \E r : Rounds(r, S, N, x) /\ Walk(S, x) = r[Cardinality(N)]
<1> DEFINE IsWalk(r) ==
      r = [k \in Nat |->
             IF k = 0 THEN {<<t, 0>> : t \in Succs(S, x)}
             ELSE LET q == r[k - 1] IN Walked(S, q)]
<1>1. PICK T, a : T = SUBSET (N \X Int) /\ a = {<<t, 0>> : t \in Succs(S, x)}
  OBVIOUS
<1>2. PICK g : g = [q \in T |-> Walked(S, q)]
  OBVIOUS
<1>3. a \in T /\ g \in [T -> T]
  <2>1. \A q \in T : Walked(S, q) \in T
    BY <1>1, WalkedType
  <2>2. a \in T
    BY <1>1 DEF Succs
  <2>3. QED
    BY <1>2, <2>1, <2>2
<1>4. PICK f : Iterates(f, T, a, g)
  BY <1>3, Iteration
<1>5. f \in [Nat -> T] /\ f[0] = a /\ \A k \in Nat : f[k + 1] = Walked(S, f[k])
  BY <1>2, <1>4 DEF Iterates
<1>6. IsWalk(f)
  <2>1. ASSUME NEW k \in Nat, k # 0 PROVE f[k] = Walked(S, f[k - 1])
    <3>1. k - 1 \in Nat /\ (k - 1) + 1 = k
      BY <2>1
    <3>2. QED
      BY <1>5, <3>1
  <2>2. f = [k \in Nat |-> f[k]]
    BY <1>5
  <2>3. QED
    BY <1>1, <1>5, <2>1, <2>2
<1> DEFINE r == CHOOSE r : IsWalk(r)
<1>7. IsWalk(r)
  BY <1>6
<1>8. Walk(S, x) = r[Cardinality(DOMAIN S.kind)]
  BY DEF Walk, Walked, Ends, Deeper
<1> HIDE DEF r
<1>9. Rounds(r, S, N, x)
  <2> DEFINE Typed == {k \in Nat : r[k] \in T}
  <2>1. r[0] = a
    BY <1>1, <1>7
  <2>2. ASSUME NEW k \in Nat PROVE r[k + 1] = Walked(S, r[k])
    <3>1. k + 1 \in Nat /\ (k + 1) - 1 = k /\ k + 1 # 0
      OBVIOUS
    <3>2. QED
      BY <1>7, <3>1
  <2>3. Nat \subseteq Typed
    <3>3. \A q \in T : Walked(S, q) \in T
      BY <1>1, WalkedType
    <3>1. 0 \in Typed /\ \A k \in Nat : k \in Typed => k + 1 \in Typed
      BY <1>3, <2>1, <2>2, <3>3
    <3> HIDE DEF Typed
    <3>2. QED
      BY <3>1, AllNumbers
  <2>4. r = [k \in Nat |-> r[k]]
    BY <1>7
  <2>5. r \in [Nat -> T]
    BY <2>3, <2>4
  <2>6. QED
    BY <1>1, <2>1, <2>2, <2>5 DEF Rounds
<1>10. QED
  BY <1>8, <1>9

(* What lies in a lane of x; the edges that run in one, and how many lanes *)
(* deeper than the first they run.                                         *)
Inside(S, path, x) == {t \in DOMAIN S.kind : \E l \in path[t] : l[1] = x}
Within(S, path, x) == {e \in S.edges : \E l \in Along(S, path, e) : l[1] = x}
Depth(S, path, x, e) == Cardinality(Along(S, path, e)) - Cardinality(path[x]) - 1

LEMMA LaneCounts ==
  ASSUME NEW S, NEW rank, NEW path, NEW open, Nest(S, rank, path, open)
  PROVE  /\ \A n \in DOMAIN S.kind : IsFiniteSet(path[n]) /\ Cardinality(path[n]) \in Nat
         /\ \A e \in S.edges :
              /\ IsFiniteSet(Along(S, path, e)) /\ Cardinality(Along(S, path, e)) \in Nat
              /\ S.kind[e[1]] \in Splits =>
                   Cardinality(Along(S, path, e)) = Cardinality(path[e[1]]) + 1
              /\ S.kind[e[2]] \in Joins =>
                   Cardinality(Along(S, path, e)) = Cardinality(path[e[2]]) + 1
<1>1. NestedBy(S, rank, path, open) /\ Drawn(S, rank)
  BY DEF Nest
<1>2. PICK N, E : N = DOMAIN S.kind /\ E = S.edges
  OBVIOUS
<1>3. IsFiniteSet(E) /\ \A e \in E : e[1] \in N /\ e[2] \in N
  BY <1>1, <1>2 DEF Drawn, Ranked
<1>4. ASSUME NEW n \in N PROVE IsFiniteSet(path[n]) /\ Cardinality(path[n]) \in Nat
  <2>1. path[n] \subseteq E
    BY <1>2, LanesBelow
  <2>2. QED
    BY <1>3, <2>1, FS_Subset, FS_CardinalityType
<1>5. ASSUME NEW e \in E
      PROVE  IsFiniteSet(Along(S, path, e)) /\ Cardinality(Along(S, path, e)) \in Nat
  <2>1. PICK A, B : A = Along(S, path, e) /\ B = path[e[1]] \cup {e}
    OBVIOUS
  <2>2. A \subseteq B
    BY <1>1, <1>2, <2>1, EdgeLanes
  <2>3. IsFiniteSet(B)
    BY <1>3, <1>4, <2>1, FS_AddElement
  <2>4. QED
    BY <2>1, <2>2, <2>3, FS_Subset, FS_CardinalityType
<1>6. ASSUME NEW e \in E, S.kind[e[1]] \in Splits
      PROVE  Cardinality(Along(S, path, e)) = Cardinality(path[e[1]]) + 1
  <2>1. PICK A : A = path[e[1]]
    OBVIOUS
  <2>2. Along(S, path, e) = A \cup {e}
    BY <1>1, <1>2, <1>6, <2>1, EdgeLanes
  <2>3. e \notin A
    BY <1>2, <1>3, <2>1, LanesBelow DEF OutOf
  <2>4. IsFiniteSet(A)
    BY <1>3, <1>4, <2>1
  <2>5. QED
    BY <2>1, <2>2, <2>3, <2>4, FS_AddElement
<1>7. ASSUME NEW e \in E, S.kind[e[2]] \in Joins
      PROVE  Cardinality(Along(S, path, e)) = Cardinality(path[e[2]]) + 1
  <2>1. PICK A, j : A = path[e[2]] /\ j = e[2]
    OBVIOUS
  <2>2. PICK l \in OutOf(S, open[j]) : Along(S, path, e) = A \cup {l}
    BY <1>1, <1>2, <1>7, <2>1, EdgeLanes
  <2>3. j \in OfKinds(S, Joins)
    BY <1>2, <1>3, <1>7, <2>1 DEF OfKinds
  <2>4. l \notin A
    BY <2>1, <2>2, <2>3, LanesBelow, OpensBelow
  <2>5. IsFiniteSet(A)
    BY <1>3, <1>4, <2>1
  <2>6. QED
    BY <2>1, <2>2, <2>4, <2>5, FS_AddElement
<1>8. QED
  BY <1>2, <1>4, <1>5, <1>6, <1>7

LEMMA DepthGrows ==
  ASSUME NEW S, NEW rank, NEW path, NEW open, Nest(S, rank, path, open), NEW x \in DOMAIN S.kind,
         NEW e \in S.edges, NEW f \in S.edges, f[1] = e[2]
  PROVE  Depth(S, path, x, f) = Deeper(S, <<e[2], Depth(S, path, x, e)>>)
<1>1. NestedBy(S, rank, path, open) /\ Drawn(S, rank)
  BY DEF Nest
<1>2. PICK t, c, d, a, b : /\ t = e[2] /\ c = Cardinality(path[x]) /\ d = Cardinality(path[t])
                           /\ a = Cardinality(Along(S, path, e)) /\ b = Cardinality(Along(S, path, f))
  OBVIOUS
<1>3. t \in DOMAIN S.kind
  BY <1>1, <1>2, OverEdge
<1>4. c \in Nat /\ d \in Nat /\ a \in Nat /\ b \in Nat
  BY <1>2, <1>3, LaneCounts
<1>5. PICK k : k = S.kind[t]
  OBVIOUS
<1>6. k \in Splits => b = d + 1
  BY <1>2, <1>5, LaneCounts
<1>7. k \notin Splits => b = d
  BY <1>1, <1>2, <1>5, EdgeLanes
<1>8. k \in Joins => a = d + 1
  BY <1>2, <1>5, LaneCounts
<1>9. k \notin Joins => a = d
  BY <1>1, <1>2, <1>5, EdgeLanes
<1>10. ~ (k \in Splits /\ k \in Joins)
  BY DEF Splits, Joins
<1>11. b - c - 1 = IF k \in Splits THEN (a - c - 1) + 1 ELSE IF k \in Joins THEN (a - c - 1) - 1 ELSE a - c - 1
  BY <1>4, <1>6, <1>7, <1>8, <1>9, <1>10
<1>12. QED
  BY <1>2, <1>5, <1>11 DEF Depth, Deeper

LEMMA WithinIs ==
  ASSUME NEW S, NEW rank, NEW path, NEW open, Nest(S, rank, path, open),
         NEW j \in OfKinds(S, Joins), NEW x, x = open[j]
  PROVE  /\ j \notin Inside(S, path, x)
         /\ \A e \in S.edges :
              /\ e[1] = x \/ e[2] = j \/ e[1] \in Inside(S, path, x) \/ e[2] \in Inside(S, path, x)
                   => e \in Within(S, path, x)
         /\ \A e \in Within(S, path, x) :
              /\ e[1] = x \/ e[1] \in Inside(S, path, x)
              /\ e[2] = j \/ e[2] \in Inside(S, path, x)
              /\ Ends(S, <<e[2], Depth(S, path, x, e)>>) <=> e[2] = j
<1>1. NestedBy(S, rank, path, open) /\ Drawn(S, rank)
  BY DEF Nest
<1>2. PICK N, E, I, W : N = DOMAIN S.kind /\ E = S.edges /\ I = Inside(S, path, x) /\ W = Within(S, path, x)
  OBVIOUS
<1>3. /\ I = {t \in N : \E l \in path[t] : l[1] = x}
      /\ W = {e \in E : \E l \in Along(S, path, e) : l[1] = x}
  BY <1>2 DEF Inside, Within
<1>4. /\ j \in N /\ x \in N /\ path[x] = path[j] /\ S.kind[x] \in Splits /\ S.kind[j] \in Joins
      /\ \A i \in N : S.kind[i] \in Joins /\ open[i] = x => i = j
      /\ \A l \in path[x] : l[1] # x
      /\ \A e \in E : e[1] \in N /\ e[2] \in N
  <2>1. j \in N /\ x \in N /\ path[x] = path[j] /\ S.kind[x] \in Splits /\ S.kind[j] \in Joins
    BY <1>2, OpensBelow
  <2>2. \A i \in N : S.kind[i] \in Joins /\ open[i] = x => i = j
    BY <1>1, <1>2 DEF NestedBy, Paired, OfKinds
  <2>3. \A l \in path[x] : l[1] # x
    BY <1>2, <2>1, LanesBelow DEF OutOf
  <2>4. QED
    BY <1>1, <1>2, <2>1, <2>2, <2>3, OverEdge
<1>5. j \notin I
  BY <1>3, <1>4
<1>6. ASSUME NEW e \in E, e[1] = x \/ e[2] = j \/ e[1] \in I \/ e[2] \in I PROVE e \in W
  <2>1. CASE e[1] = x
    BY <1>1, <1>2, <1>3, <1>4, <2>1, EdgeLanes
  <2>2. CASE e[2] = j
    <3>1. \E l \in OutOf(S, x) : Along(S, path, e) = path[j] \cup {l}
      BY <1>1, <1>2, <1>4, <2>2, EdgeLanes
    <3>2. QED
      BY <1>3, <3>1 DEF OutOf
  <2>3. CASE e[1] \in I \/ e[2] \in I
    <3>1. path[e[1]] \subseteq Along(S, path, e) /\ path[e[2]] \subseteq Along(S, path, e)
      BY <1>1, <1>2, EdgeLanes
    <3>2. QED
      BY <1>3, <2>3, <3>1
  <2>4. QED
    BY <1>6, <2>1, <2>2, <2>3
<1>7. ASSUME NEW e \in W
      PROVE  /\ e[1] = x \/ e[1] \in I
             /\ e[2] = j \/ e[2] \in I
             /\ Ends(S, <<e[2], Depth(S, path, x, e)>>) <=> e[2] = j
  <2>1. e \in E /\ \E k \in Along(S, path, e) : k[1] = x
    BY <1>3
  <2>2. PICK k \in Along(S, path, e) : k[1] = x
    BY <2>1
  <2>3. e[1] = x \/ e[1] \in I
    <3>1. k \in path[e[1]] \cup {e}
      BY <1>1, <1>2, <2>1, <2>2, EdgeLanes
    <3>2. QED
      BY <1>3, <1>4, <2>1, <2>2, <3>1
  <2>4. PICK t, d, c, a : /\ t = e[2] /\ d = Cardinality(path[t]) /\ c = Cardinality(path[x])
                          /\ a = Cardinality(Along(S, path, e))
    OBVIOUS
  <2>5. t \in N /\ a \in Nat /\ c \in Nat /\ d \in Nat
    BY <1>2, <1>4, <2>1, <2>4, LaneCounts
  <2>6. CASE S.kind[t] \notin Joins
    <3>1. k \in path[t]
      BY <1>1, <1>2, <2>1, <2>2, <2>4, <2>6, EdgeLanes
    <3>2. t \in I /\ t # j
      BY <1>3, <1>4, <2>2, <2>5, <2>6, <3>1
    <3>3. ~ Ends(S, <<t, Depth(S, path, x, e)>>)
      BY <2>6 DEF Ends
    <3>4. QED
      BY <2>3, <2>4, <3>2, <3>3
  <2>7. CASE S.kind[t] \in Joins
    <3>1. PICK l \in OutOf(S, open[t]) : Along(S, path, e) = path[t] \cup {l}
      BY <1>1, <1>2, <2>1, <2>4, <2>7, EdgeLanes
    <3>2. a = d + 1
      BY <1>2, <2>1, <2>4, <2>7, LaneCounts
    <3>3. k \in path[t] \/ t = j
      BY <1>4, <2>2, <2>5, <2>7, <3>1 DEF OutOf
    <3>4. Ends(S, <<t, Depth(S, path, x, e)>>) <=> d = c
      <4>1. Depth(S, path, x, e) = d - c
        BY <2>4, <2>5, <3>2 DEF Depth
      <4>2. QED
        BY <2>5, <2>7, <4>1 DEF Ends
    <3>5. CASE t = j
      <4>1. d = c
        BY <1>4, <2>4, <3>5
      <4>2. QED
        BY <2>3, <2>4, <3>4, <3>5, <4>1
    <3>6. CASE t # j
      <4>1. k \in path[t] /\ t \in I
        BY <1>3, <2>2, <2>5, <3>3, <3>6
      <4>2. path[x] \subseteq path[t] /\ k \notin path[x]
        BY <1>2, <1>4, <2>2, <2>5, <4>1, LanesNest
      <4>3. PICK A, B : A = path[t] /\ B = path[x]
        OBVIOUS
      <4>4. Cardinality(B) < Cardinality(A)
        BY <1>2, <2>5, <4>1, <4>2, <4>3, StrictlyFewer, LaneCounts
      <4>5. d # c
        BY <2>4, <2>5, <4>3, <4>4
      <4>6. QED
        BY <2>3, <2>4, <3>4, <3>6, <4>1, <4>5
    <3>7. QED
      BY <3>5, <3>6
  <2>8. QED
    BY <2>6, <2>7
<1>8. QED
  BY <1>2, <1>5, <1>6, <1>7

(* The search finds the nodes of the block, and where it ends.             *)
LEMMA WalkIs ==
  ASSUME NEW S, NEW rank, NEW path, NEW open, Nest(S, rank, path, open),
         NEW j \in OfKinds(S, Joins), NEW x, x = open[j]
  PROVE  MatchingJoin(S, x) = j /\ Inner(S, x) = Inside(S, path, x)
<1>1. NestedBy(S, rank, path, open) /\ Drawn(S, rank)
  BY DEF Nest
<1>2. PICK N, E, I, W : N = DOMAIN S.kind /\ E = S.edges /\ I = Inside(S, path, x) /\ W = Within(S, path, x)
  OBVIOUS
<1>3. PICK deep : deep = [e \in E |-> Depth(S, path, x, e)]
  OBVIOUS
<1>4. /\ rank \in [N -> Nat] /\ IsFiniteSet(N) /\ IsFiniteSet(E)
      /\ \A e \in E : e[1] \in N /\ e[2] \in N /\ rank[e[1]] < rank[e[2]]
  BY <1>1, <1>2 DEF Drawn, Ranked
<1>5. j \in N /\ x \in N /\ S.kind[x] \in Splits /\ S.kind[j] \in Joins
  BY <1>2, OpensBelow
<1>6. I \subseteq N /\ W \subseteq E
  BY <1>2 DEF Inside, Within
<1>7. /\ j \notin I
      /\ \A e \in E : e[1] = x \/ e[2] = j \/ e[1] \in I \/ e[2] \in I => e \in W
  BY <1>2, WithinIs
<1>8. \A e \in W : /\ e[1] = x \/ e[1] \in I
                   /\ e[2] = j \/ e[2] \in I
                   /\ Ends(S, <<e[2], deep[e]>>) <=> e[2] = j
  BY <1>2, <1>3, <1>6, WithinIs
<1>9. \A e, f \in E : f[1] = e[2] => deep[f] = Deeper(S, <<e[2], deep[e]>>)
  BY <1>2, <1>3, <1>5, DepthGrows
<1>10. \A e \in E : e[1] = x => deep[e] = 0
  <2>1. ASSUME NEW e \in E, e[1] = x PROVE deep[e] = 0
    <3>1. PICK c, a : c = Cardinality(path[x]) /\ a = Cardinality(Along(S, path, e))
      OBVIOUS
    <3>2. c \in Nat /\ a = c + 1
      BY <1>2, <1>5, <2>1, <3>1, LaneCounts
    <3>3. a - c - 1 = 0
      BY <3>2
    <3>4. QED
      BY <1>3, <3>1, <3>3 DEF Depth
  <2>2. QED
    BY <2>1
<1>11. PICK r : Rounds(r, S, N, x) /\ Walk(S, x) = r[Cardinality(N)]
  BY <1>2, WalkRounds
<1>12. r[0] = {<<t, 0>> : t \in Succs(S, x)} /\ \A k \in Nat : r[k + 1] = Walked(S, r[k])
  BY <1>11 DEF Rounds
(* All that is found comes from an edge in a lane.                         *)
<1>13. PICK P : P = {k \in Nat : \A a \in r[k] : \E e \in W : a = <<e[2], deep[e]>>}
  OBVIOUS
<1>14. 0 \in P
  <2>1. ASSUME NEW t \in Succs(S, x) PROVE \E e \in W : <<t, 0>> = <<e[2], deep[e]>>
    <3>1. PICK e \in E : e[1] = x /\ e[2] = t
      BY <1>2, <2>1 DEF Succs, OutOf
    <3>2. QED
      BY <1>7, <1>10, <3>1
  <2>2. QED
    BY <1>12, <1>13, <2>1
<1>15. ASSUME NEW k \in Nat, k \in P PROVE k + 1 \in P
  <2>1. ASSUME NEW b \in r[k + 1] PROVE \E e \in W : b = <<e[2], deep[e]>>
    <3>1. b \in Walked(S, r[k])
      BY <1>12, <2>1
    <3>2. CASE b \in r[k]
      BY <1>13, <1>15, <3>2
    <3>3. CASE b \notin r[k]
      <4>1. PICK a \in r[k] : ~ Ends(S, a) /\ b \in {<<t, Deeper(S, a)>> : t \in Succs(S, a[1])}
        BY <3>1, <3>3 DEF Walked
      <4>2. PICK t \in Succs(S, a[1]) : b = <<t, Deeper(S, a)>>
        BY <4>1
      <4>3. PICK e \in W : a = <<e[2], deep[e]>>
        BY <1>13, <1>15, <4>1
      <4>4. a[1] = e[2]
        BY <4>3
      <4>5. e[2] \in I
        BY <1>8, <4>1, <4>3
      <4>6. PICK f \in E : f[1] = e[2] /\ f[2] = t
        BY <1>2, <4>2, <4>4 DEF Succs, OutOf
      <4>7. f \in W /\ deep[f] = Deeper(S, a)
        BY <1>6, <1>7, <1>9, <4>3, <4>5, <4>6
      <4>8. QED
        BY <4>2, <4>6, <4>7
    <3>4. QED
      BY <3>2, <3>3
  <2>2. QED
    BY <1>13, <2>1
<1>16. Nat \subseteq P
  BY <1>14, <1>15, AllNumbers
(* All edges in lanes are followed.                                        *)
<1>17. PICK Q : Q = {k \in Nat : \A e \in W : Below(N, rank, e[2]) <= k => <<e[2], deep[e]>> \in r[k]}
  OBVIOUS
<1>18. PICK Z : Z = {k \in Nat : \A e \in W : e[1] = x => <<e[2], deep[e]>> \in r[k]}
  OBVIOUS
<1>19. Nat \subseteq Z
  <2>1. 0 \in Z
    <3>1. ASSUME NEW e \in W, e[1] = x PROVE <<e[2], deep[e]>> \in r[0]
      <4>1. e[2] \in Succs(S, x) /\ deep[e] = 0
        BY <1>1, <1>2, <1>6, <1>10, <3>1, OverEdge
      <4>2. QED
        BY <1>12, <4>1
    <3>2. QED
      BY <1>18, <3>1
  <2>2. ASSUME NEW k \in Nat, k \in Z PROVE k + 1 \in Z
    <3>1. r[k] \subseteq r[k + 1]
      BY <1>12 DEF Walked
    <3>2. QED
      BY <1>18, <2>2, <3>1
  <2>3. QED
    BY <2>1, <2>2, AllNumbers
<1>20. \A e \in E : Below(N, rank, e[1]) \in Nat /\ Below(N, rank, e[2]) \in Nat
                    /\ Below(N, rank, e[1]) < Below(N, rank, e[2])
  BY <1>4, BelowGrows
<1>21. 0 \in Q
  BY <1>6, <1>17, <1>20
<1>22. ASSUME NEW k \in Nat, k \in Q PROVE k + 1 \in Q
  <2>1. ASSUME NEW e \in W, Below(N, rank, e[2]) <= k + 1 PROVE <<e[2], deep[e]>> \in r[k + 1]
    <3>1. CASE e[1] = x
      BY <1>18, <1>19, <2>1, <3>1
    <3>2. CASE e[1] # x
      <4>1. PICK t : t = e[1]
        OBVIOUS
      <4>2. t \in I /\ t \in N /\ t # j /\ e \in E
        BY <1>6, <1>7, <1>8, <2>1, <3>2, <4>1
      <4>3. Into(S, t) # {}
        <5>1. path[t] # {}
          BY <1>2, <4>2 DEF Inside
        <5>2. S.kind[t] # "START"
          BY <1>2, <4>2, <5>1, LanesBelow
        <5>3. QED
          BY <1>1, <1>2, <4>2, <5>2, Degrees
      <4>4. PICK f \in E : f[2] = t
        BY <1>2, <4>3 DEF Into
      <4>5. f \in W /\ ~ Ends(S, <<t, deep[f]>>)
        BY <1>7, <1>8, <4>2, <4>4
      <4>6. Below(N, rank, t) <= k
        <5>1. PICK u, v : u = Below(N, rank, t) /\ v = Below(N, rank, e[2])
          OBVIOUS
        <5>2. u \in Nat /\ v \in Nat /\ u < v /\ v <= k + 1
          BY <1>20, <2>1, <4>1, <4>2, <5>1
        <5>3. u <= k
          BY <5>2
        <5>4. QED
          BY <5>1, <5>3
      <4>7. <<t, deep[f]>> \in r[k]
        BY <1>17, <1>22, <4>4, <4>5, <4>6
      <4>8. e[2] \in Succs(S, t) /\ deep[e] = Deeper(S, <<t, deep[f]>>)
        BY <1>1, <1>2, <1>9, <4>1, <4>2, <4>4, OverEdge
      <4>9. PICK a : a = <<t, deep[f]>>
        OBVIOUS
      <4>10. /\ a \in r[k] /\ ~ Ends(S, a) /\ e[2] \in Succs(S, a[1])
             /\ <<e[2], deep[e]>> = <<e[2], Deeper(S, a)>>
        BY <4>5, <4>7, <4>8, <4>9
      <4>11. <<e[2], deep[e]>> \in Walked(S, r[k])
        BY <4>10 DEF Walked
      <4>12. QED
        BY <1>12, <4>11
    <3>3. QED
      BY <3>1, <3>2
  <2>2. QED
    BY <1>17, <2>1
<1>23. Nat \subseteq Q
  BY <1>21, <1>22, AllNumbers
<1>24. PICK size : size = Cardinality(N)
  OBVIOUS
<1>25. size \in Nat /\ \A n \in N : Below(N, rank, n) <= size
  <2>1. ASSUME NEW n \in N PROVE Below(N, rank, n) <= Cardinality(N)
    BY <1>4, FS_Subset DEF Below
  <2>2. QED
    BY <1>4, <1>24, <2>1, FS_CardinalityType
<1>26. PICK V : V = Walk(S, x)
  OBVIOUS
<1>27. (\A a \in V : \E e \in W : a = <<e[2], deep[e]>>) /\ \A e \in W : <<e[2], deep[e]>> \in V
  BY <1>4, <1>6, <1>11, <1>13, <1>16, <1>17, <1>23, <1>24, <1>25, <1>26
<1>28. \E e \in W : e[2] = j
  <2>1. Into(S, j) # {}
    BY <1>1, <1>2, <1>5, Degrees DEF Joins
  <2>2. QED
    BY <1>2, <1>7, <2>1 DEF Into
<1>29. MatchingJoin(S, x) = j
  <2>1. PICK A : A = {a[1] : a \in {a \in V : S.kind[a[1]] \in Joins /\ a[2] = 0}}
    OBVIOUS
  <2>2. ASSUME NEW b \in A PROVE b = j
    <3>1. PICK a \in V : S.kind[a[1]] \in Joins /\ a[2] = 0 /\ b = a[1]
      BY <2>1, <2>2
    <3>2. PICK e \in W : a = <<e[2], deep[e]>>
      BY <1>27, <3>1
    <3>3. Ends(S, a) /\ a[1] = e[2]
      BY <3>1, <3>2 DEF Ends
    <3>4. QED
      BY <1>8, <3>1, <3>2, <3>3
  <2>3. j \in A
    <3>1. PICK e \in W : e[2] = j
      BY <1>28
    <3>2. PICK a : a = <<e[2], deep[e]>>
      OBVIOUS
    <3>3. a \in V /\ Ends(S, a) /\ a[1] = j
      BY <1>8, <1>27, <3>1, <3>2
    <3>4. QED
      BY <2>1, <3>3 DEF Ends
  <2>4. A = {j}
    BY <2>2, <2>3
  <2>5. QED
    BY <1>26, <2>1, <2>4, OnlyIs DEF MatchingJoin
<1>30. Inner(S, x) = I
  <2>1. PICK A : A = {a[1] : a \in V}
    OBVIOUS
  <2>2. A \subseteq I \cup {j}
    <3>1. ASSUME NEW b \in A PROVE b \in I \cup {j}
      <4>1. PICK a \in V : b = a[1]
        BY <2>1, <3>1
      <4>2. PICK e \in W : a = <<e[2], deep[e]>>
        BY <1>27, <4>1
      <4>3. b = e[2]
        BY <4>1, <4>2
      <4>4. QED
        BY <1>8, <4>3
    <3>2. QED
      BY <3>1
  <2>3. I \subseteq A
    <3>1. ASSUME NEW t \in I PROVE t \in A
      <4>1. path[t] # {}
        BY <1>2, <3>1 DEF Inside
      <4>2. S.kind[t] # "START"
        BY <1>2, <1>6, <3>1, <4>1, LanesBelow
      <4>3. PICK e \in E : e[2] = t
        BY <1>1, <1>2, <1>6, <3>1, <4>2, Degrees DEF Into
      <4>4. PICK a : a = <<e[2], deep[e]>>
        OBVIOUS
      <4>5. a \in V /\ a[1] = t
        BY <1>7, <1>27, <3>1, <4>3, <4>4
      <4>6. QED
        BY <2>1, <4>5
    <3>2. QED
      BY <3>1
  <2>4. Inner(S, x) = A \ {j}
    BY <1>26, <1>29, <2>1 DEF Inner
  <2>5. QED
    BY <1>7, <2>2, <2>3, <2>4
<1>31. QED
  BY <1>2, <1>29, <1>30
-----------------------------------------------------------------------------
(* A split goes with all that lies in its lanes and with its join.         *)
Emptied(S, T, x, R) ==
  /\ x \in DOMAIN S.kind /\ S.kind[x] \in Splits
  /\ R = {x, MatchingJoin(S, x)} \cup Inner(S, x)
  /\ T.kind = [m \in DOMAIN S.kind \ R |-> S.kind[m]]
  /\ T.edges = AddEdge(Without(S.edges, R), Pred(S, x), Succ(S, MatchingJoin(S, x)))
  /\ S.kind[Pred(S, x)] # "XOR_SPLIT"

LEMMA BeforeBlock ==
  ASSUME NEW S, NEW rank, NEW path, NEW open, Nest(S, rank, path, open),
         NEW x \in DOMAIN S.kind, S.kind[x] \in Splits, NEW f \in S.edges, f[2] = x
  PROVE  f[1] \notin {x, MatchingJoin(S, x)} \cup Inner(S, x)
<1>1. NestedBy(S, rank, path, open)
  BY DEF Nest
<1>2. PICK N, E, I : N = DOMAIN S.kind /\ E = S.edges /\ I = Inside(S, path, x)
  OBVIOUS
<1>3. PICK j \in OfKinds(S, Joins) : open[j] = x
  <2>1. x \in OfKinds(S, Splits)
    BY DEF OfKinds
  <2>2. QED
    BY <1>1, <2>1 DEF NestedBy, Paired
<1>4. MatchingJoin(S, x) = j /\ Inner(S, x) = I
  BY <1>2, <1>3, WalkIs
<1>5. j \in N /\ x \in N /\ rank[x] < rank[j]
  BY <1>2, <1>3, OpensBelow
<1>6. /\ rank \in [N -> Nat]
      /\ \A e \in E : e[1] \in N /\ e[2] \in N /\ rank[e[1]] < rank[e[2]]
  BY <1>1, <1>2 DEF NestedBy, Ranked
<1>7. f \in E /\ rank[f[1]] < rank[x] /\ rank[f[1]] \in Nat /\ rank[x] \in Nat /\ rank[j] \in Nat
  BY <1>2, <1>5, <1>6
<1>8. f[1] # x /\ f[1] # j /\ x # j
  BY <1>5, <1>7
<1>9. x \notin I
  <2>1. \A l \in path[x] : rank[l[1]] < rank[x]
    BY <1>1, <1>2, <1>5, LanesBelow
  <2>2. QED
    BY <1>2, <1>7, <2>1 DEF Inside
<1>10. f[1] \notin I
  <2>1. \A e \in S.edges : e[1] \in Inside(S, path, x) => e[2] = j \/ e[2] \in Inside(S, path, x)
    <3>1. \A e \in S.edges : e[1] \in Inside(S, path, x) => e \in Within(S, path, x)
      BY <1>3, WithinIs
    <3>2. \A e \in Within(S, path, x) : e[2] = j \/ e[2] \in Inside(S, path, x)
      BY <1>3, WithinIs
    <3>3. QED
      BY <3>1, <3>2
  <2>2. QED
    BY <1>2, <1>7, <1>8, <1>9, <2>1
<1>11. QED
  BY <1>4, <1>8, <1>10

LEMMA EmptiedNested ==
  ASSUME NEW S, NEW rank, NEW path, NEW open, Nest(S, rank, path, open),
         NEW T, NEW x, NEW R, Emptied(S, T, x, R)
  PROVE  \E r, p, o : NestedBy(T, r, p, o)
<1>1. NestedBy(S, rank, path, open) /\ Drawn(S, rank)
  BY DEF Nest
<1>2. PICK N, E : N = DOMAIN S.kind /\ E = S.edges
  OBVIOUS
<1>3. PICK j \in OfKinds(S, Joins) : open[j] = x
  <2>1. x \in OfKinds(S, Splits)
    BY DEF Emptied, OfKinds
  <2>2. QED
    BY <1>1, <2>1 DEF NestedBy, Paired
<1>4. PICK I : I = Inside(S, path, x)
  OBVIOUS
<1>5. MatchingJoin(S, x) = j /\ Inner(S, x) = I
  BY <1>3, <1>4, WalkIs
<1>6. R = {x, j} \cup I /\ I = {t \in N : \E l \in path[t] : l[1] = x}
  BY <1>2, <1>4, <1>5 DEF Emptied, Inside
<1>7. /\ j \in N /\ x \in N /\ path[x] = path[j] /\ rank[x] < rank[j]
      /\ S.kind[x] \in Splits /\ S.kind[j] \in Joins
  BY <1>2, <1>3, OpensBelow
<1>8. /\ rank \in [N -> Nat] /\ IsFiniteSet(E)
      /\ \A e \in E : e[1] \in N /\ e[2] \in N /\ rank[e[1]] < rank[e[2]]
  BY <1>1, <1>2 DEF Drawn, Ranked
<1>9. /\ S.kind[x] \notin Joins /\ S.kind[j] \notin Splits /\ S.kind[x] # "START" /\ S.kind[j] # "END"
      /\ \A k \in Kinds : ~ (k \in Splits /\ k \in Joins)
  BY <1>7 DEF Splits, Joins
<1>10. PICK h : h \in E /\ h[2] = x /\ \A e \in E : e[2] = x => e = h
  BY <1>1, <1>2, <1>7, <1>9, Degrees DEF Into
<1>11. PICK g : g \in E /\ g[1] = j /\ \A e \in E : e[1] = j => e = g
  BY <1>1, <1>2, <1>7, <1>9, Degrees DEF OutOf
<1>12. /\ j \notin I
       /\ \A e \in E : e[1] = x \/ e[2] = j \/ e[1] \in I \/ e[2] \in I =>
            (e[1] = x \/ e[1] \in I) /\ (e[2] = j \/ e[2] \in I)
  BY <1>2, <1>3, <1>4, WithinIs
<1>13. /\ \A m \in N : \A l \in path[m] : l[1] \in N /\ S.kind[l[1]] \in Splits /\ path[l[1]] \subseteq path[m]
       /\ \A m \in N : \A l \in path[m] : rank[l[1]] < rank[m]
  BY <1>2, LanesBelow, LanesNest
<1>14. x \notin I /\ x # j
  BY <1>6, <1>7, <1>8, <1>13
<1>15. /\ h[1] \in N /\ g[2] \in N /\ rank[h[1]] < rank[x] /\ rank[j] < rank[g[2]]
       /\ rank[h[1]] \in Nat /\ rank[x] \in Nat /\ rank[j] \in Nat /\ rank[g[2]] \in Nat
  BY <1>7, <1>8, <1>10, <1>11
<1>16. rank[h[1]] < rank[g[2]] /\ h[1] # x /\ h[1] # j /\ g[2] # x /\ g[2] # j
  BY <1>7, <1>15
<1>17. h[1] \notin R /\ h[2] \in R /\ g[1] \in R /\ g[2] \notin R
  <2>1. h[1] \notin I
    BY <1>10, <1>12, <1>14
  <2>2. g[2] \notin I
    BY <1>11, <1>12, <1>14
  <2>3. QED
    BY <1>6, <1>10, <1>11, <1>16, <2>1, <2>2
<1>18. \A e \in E : /\ e[1] \notin R /\ e[2] \in R => e = h
                    /\ e[1] \in R /\ e[2] \notin R => e = g
  BY <1>6, <1>10, <1>11, <1>12
<1>19. Pred(S, x) = h[1] /\ Succ(S, j) = g[2]
  BY <1>1, <1>2, <1>7, <1>9, <1>10, <1>11, PredSucc
<1>20. PICK new : new = <<h[1], g[2], Cardinality({e \in Kept(S, R) : e[1] = h[1] /\ e[2] = g[2]})>>
  OBVIOUS
<1>21. GapClosed(S, T, R, h, g, new)
  <2>1. T.edges = Kept(S, R) \cup {new} /\ S.kind[h[1]] # "XOR_SPLIT"
    BY <1>5, <1>19, <1>20 DEF Emptied, AddEdge, Without, Kept
  <2>2. new[1] = h[1] /\ new[2] = g[2] /\ new[3] = Cardinality({e \in Kept(S, R) : e[1] = h[1] /\ e[2] = g[2]})
    BY <1>20
  <2>3. R \subseteq DOMAIN S.kind /\ T.kind = [m \in DOMAIN S.kind \ R |-> S.kind[m]]
    BY <1>2, <1>6, <1>7 DEF Emptied
  <2>4. QED
    BY <1>2, <1>8, <1>10, <1>11, <1>17, <1>18, <2>1, <2>2, <2>3 DEF GapClosed
<1>22. Sealed(S, R, h, g, rank, path, open)
  <2>1. Along(S, path, h) = Along(S, path, g)
    <3>1. Along(S, path, h) = path[x]
      BY <1>1, <1>2, <1>9, <1>10, EdgeLanes
    <3>2. Along(S, path, g) = path[j]
      BY <1>1, <1>2, <1>9, <1>11, EdgeLanes
    <3>3. QED
      BY <1>7, <3>1, <3>2
  <2>2. ASSUME NEW m \in N \ R, NEW l \in path[m] PROVE l[1] \notin R
    <3>1. l[1] # x
      BY <1>6, <2>2
    <3>2. l[1] # j
      BY <1>9, <1>13, <2>2
    <3>3. l[1] \notin I
      BY <1>6, <1>13, <2>2
    <3>4. QED
      BY <1>6, <3>1, <3>2, <3>3
  <2>3. ASSUME NEW i \in OfKinds(S, Joins) PROVE i \in R <=> open[i] \in R
    <3>1. /\ i \in N /\ open[i] \in N /\ path[open[i]] = path[i]
          /\ S.kind[open[i]] \in Splits /\ S.kind[i] \in Joins
      BY <1>2, <2>3, OpensBelow
    <3>2. i \in I <=> open[i] \in I
      BY <1>6, <3>1
    <3>3. i = j <=> open[i] = x
      BY <1>1, <1>3, <2>3 DEF NestedBy, Paired
    <3>4. i # x /\ open[i] # j
      BY <1>9, <3>1
    <3>5. QED
      BY <1>6, <3>2, <3>3, <3>4
  <2>4. QED
    BY <1>2, <1>16, <2>1, <2>2, <2>3 DEF Sealed
<1>23. QED
  BY <1>1, <1>21, <1>22, ClosedNested
-----------------------------------------------------------------------------
(* Where something may be inserted.                                        *)
LEMMA AnchorEdge ==
  ASSUME NEW S, NEW rank, NEW path, NEW open, Nest(S, rank, path, open), NEW a \in Anchors(S)
  PROVE  \E f \in S.edges : /\ f[1] = a /\ OutOf(S, a) = {f} /\ Succ(S, a) = f[2]
                            /\ a \in DOMAIN S.kind /\ f[2] \in DOMAIN S.kind
                            /\ S.kind[a] \notin Splits
                            /\ rank[a] \in Nat /\ rank[f[2]] \in Nat /\ rank[a] < rank[f[2]]
                            /\ path[a] \subseteq S.edges /\ f \notin path[a]
                            /\ \A l \in path[a] : l[1] \in DOMAIN S.kind /\ S.kind[l[1]] \in Splits
<1>1. NestedBy(S, rank, path, open) /\ Drawn(S, rank)
  BY DEF Nest
<1>2. PICK N, E : N = DOMAIN S.kind /\ E = S.edges
  OBVIOUS
<1>3. a \in N /\ Cardinality(OutOf(S, a)) = 1
  BY <1>2 DEF Anchors
<1>4. PICK O : O = OutOf(S, a)
  OBVIOUS
<1>5. IsFiniteSet(O) /\ O \subseteq E
  BY <1>1, <1>2, <1>4, FS_Subset DEF Drawn, OutOf
<1>6. PICK f : O = {f}
  BY <1>3, <1>4, <1>5, FS_Singleton
<1>7. f \in E /\ f[1] = a
  BY <1>2, <1>4, <1>6 DEF OutOf
<1>8. S.kind[a] \notin Splits
  <2>1. DegreesOK(S, a)
    BY <1>1, <1>2, <1>3 DEF Drawn, K2
  <2>2. ~ (1 >= 2)
    OBVIOUS
  <2>3. QED
    BY <1>3, <2>1, <2>2 DEF DegreesOK
<1>9. Succ(S, a) = f[2]
  BY <1>1, <1>2, <1>3, <1>7, <1>8, PredSucc
<1>10. /\ rank \in [N -> Nat] /\ f[2] \in N /\ rank[f[1]] < rank[f[2]]
  BY <1>1, <1>2, <1>7 DEF Drawn, Ranked
<1>11. \A l \in path[a] : l \in E /\ l[1] \in N /\ S.kind[l[1]] \in Splits
  BY <1>2, <1>3, LanesBelow
<1>12. QED
  BY <1>2, <1>3, <1>4, <1>6, <1>7, <1>8, <1>9, <1>10, <1>11

(* A step between an anchor and its successor.                             *)
Stepped(S, T, a, n, k) ==
  /\ a \in Anchors(S) /\ n \notin DOMAIN S.kind /\ k \in {"ACTIVITY", "SUBPROCESS"}
  /\ T.kind = With(S.kind, n, k)
  /\ T.edges = (S.edges \ OutOf(S, a)) \cup {<<a, n, 0>>, <<n, Succ(S, a), 0>>}
  /\ IsFiniteSet(T.edges)

LEMMA SteppedNested ==
  ASSUME NEW S, NEW rank, NEW path, NEW open, Nest(S, rank, path, open),
         NEW T, NEW a, NEW n, NEW k, Stepped(S, T, a, n, k)
  PROVE  \E r, p, o : NestedBy(T, r, p, o)
<1>1. NestedBy(S, rank, path, open) /\ Drawn(S, rank)
  BY DEF Nest
<1>2. PICK N, E : N = DOMAIN S.kind /\ E = S.edges
  OBVIOUS
<1>3. PICK f \in E : /\ f[1] = a /\ OutOf(S, a) = {f} /\ Succ(S, a) = f[2]
                     /\ a \in N /\ f[2] \in N
                     /\ S.kind[a] \notin Splits
                     /\ rank[a] \in Nat /\ rank[f[2]] \in Nat /\ rank[a] < rank[f[2]]
                     /\ path[a] \subseteq E /\ f \notin path[a]
                     /\ \A l \in path[a] : l[1] \in N /\ S.kind[l[1]] \in Splits
  BY <1>2, AnchorEdge DEF Stepped
<1>4. PICK e, g, F : e = <<a, n, 0>> /\ g = <<n, f[2], 0>> /\ F = {e, g}
  OBVIOUS
<1>5. /\ n \notin N /\ k \in {"ACTIVITY", "SUBPROCESS"} /\ k \notin Splits /\ k \notin Joins /\ k \in Kinds
      /\ DOMAIN T.kind = N \cup {n} /\ T.kind[n] = k /\ \A m \in N : T.kind[m] = S.kind[m]
      /\ T.kind = [m \in DOMAIN T.kind |-> T.kind[m]]
      /\ T.edges = (E \ {f}) \cup F
  <2>1. n \notin N /\ k \in {"ACTIVITY", "SUBPROCESS"} /\ k \notin Splits /\ k \notin Joins /\ k \in Kinds
    BY <1>2 DEF Stepped, Splits, Joins, Kinds
  <2>2. T.kind = [m \in N \cup {n} |-> IF m = n THEN k ELSE S.kind[m]]
    BY <1>2 DEF Stepped, With
  <2>3. T.edges = (E \ {f}) \cup F
    BY <1>2, <1>3, <1>4 DEF Stepped
  <2>4. QED
    BY <2>1, <2>2, <2>3
<1>6. /\ rank \in [N -> Nat] /\ S.kind \in [N -> Kinds] /\ IsFiniteSet(E)
      /\ path \in [N -> SUBSET LaneEdges(S)]
  BY <1>1, <1>2 DEF Drawn, NestedBy, Laned, Ranked
<1>7. Grafts(S, f, T, {n}, F, g)
  <2>1. T.kind \in [DOMAIN T.kind -> Kinds]
    BY <1>5, <1>6
  <2>2. IsFiniteSet(T.edges)
    BY DEF Stepped
  <2>3. /\ e[1] = a /\ e[2] = n /\ e[3] = 0 /\ g[1] = n /\ g[2] = f[2] /\ g[3] = 0
    BY <1>4
  <2>4. \A i \in F : i[3] = 0 /\ i[1] \in {n} \cup {f[1]} /\ (i = g \/ i[2] \in {n})
    BY <1>3, <1>4, <2>3
  <2>5. k # "XOR_SPLIT" /\ k # "START" /\ k # "END"
    BY <1>5
  <2>6. QED
    BY <1>2, <1>3, <1>4, <1>5, <2>1, <2>2, <2>3, <2>4, <2>5 DEF Grafts
<1>8. PICK r, p, o : /\ r = [m \in N \cup {n} |-> IF m = n THEN 4 * rank[a] + 1 ELSE 4 * rank[m]]
                     /\ p = [m \in N \cup {n} |-> IF m = n THEN path[a] ELSE path[m]]
                     /\ o = [j \in OfKinds(T, Joins) |-> open[j]]
  OBVIOUS
<1>9. FitsRank(S, T, F, rank, r)
  <2>1. r \in [N \cup {n} -> Nat]
    BY <1>3, <1>6, <1>8
  <2>2. r[a] < r[n] /\ r[n] < r[f[2]]
    BY <1>3, <1>5, <1>8
  <2>3. \A i \in F : r[i[1]] < r[i[2]]
    BY <1>4, <2>2
  <2>4. \A m \in N : r[m] = 4 * rank[m]
    BY <1>5, <1>8
  <2>5. QED
    BY <1>2, <1>5, <2>1, <2>3, <2>4 DEF FitsRank
<1>10. FitsPath(S, f, T, {n}, F, g, path, p)
  <2>1. path[a] \subseteq LaneEdges(T)
    BY <1>3, <1>5 DEF LaneEdges
  <2>2. p[n] = path[a] /\ \A m \in N : p[m] = path[m]
    BY <1>5, <1>8
  <2>3. p[n] = Along(T, p, e)
    BY <1>3, <1>4, <1>5, <2>2 DEF Along, LaneEdges
  <2>4. ASSUME NEW i \in F, i # g PROVE p[i[2]] = Along(T, p, i)
    BY <1>4, <2>3, <2>4
  <2>5. QED
    BY <1>2, <1>3, <1>4, <1>5, <1>8, <2>1, <2>2, <2>4 DEF FitsPath
<1>11. FitsOpen(S, T, {n}, p, open, o)
  <2>1. OfKinds(T, Joins) = OfKinds(S, Joins) /\ n \notin OfKinds(T, Joins) /\ n \notin OfKinds(T, Splits)
    BY <1>2, <1>5 DEF OfKinds
  <2>2. QED
    BY <1>8, <2>1 DEF FitsOpen
<1>12. QED
  BY <1>1, <1>7, <1>9, <1>10, <1>11, GraftedNested

(* A block of split x, join j and steps B between an anchor and its        *)
(* successor.                                                              *)
Boxed(S, T, a, x, j, B) ==
  /\ a \in Anchors(S) /\ x # j /\ x \notin B /\ j \notin B
  /\ ({x, j} \cup B) \cap DOMAIN S.kind = {}
  /\ DOMAIN T.kind = DOMAIN S.kind \cup ({x, j} \cup B)
  /\ T.kind = [n \in DOMAIN T.kind |-> T.kind[n]]
  /\ \A n \in DOMAIN S.kind : T.kind[n] = S.kind[n]
  /\ \A b \in B : T.kind[b] = "ACTIVITY"
  /\ <<T.kind[x], T.kind[j]>> \in {<<"AND_SPLIT", "AND_JOIN">>, <<"XOR_SPLIT", "XOR_JOIN">>}
  /\ T.edges = (S.edges \ OutOf(S, a)) \cup {<<a, x, 0>>, <<j, Succ(S, a), 0>>}
                \cup {<<x, b, 0>> : b \in B} \cup {<<b, j, 0>> : b \in B}
  /\ IsFiniteSet(T.edges)

LEMMA BoxedNested ==
  ASSUME NEW S, NEW rank, NEW path, NEW open, Nest(S, rank, path, open),
         NEW T, NEW a, NEW x, NEW j, NEW B, Boxed(S, T, a, x, j, B)
  PROVE  \E r, p, o : NestedBy(T, r, p, o)
<1>1. NestedBy(S, rank, path, open) /\ Drawn(S, rank)
  BY DEF Nest
<1>2. PICK N, E : N = DOMAIN S.kind /\ E = S.edges
  OBVIOUS
<1>3. PICK f \in E : /\ f[1] = a /\ OutOf(S, a) = {f} /\ Succ(S, a) = f[2]
                     /\ a \in N /\ f[2] \in N
                     /\ S.kind[a] \notin Splits
                     /\ rank[a] \in Nat /\ rank[f[2]] \in Nat /\ rank[a] < rank[f[2]]
                     /\ path[a] \subseteq E /\ f \notin path[a]
                     /\ \A l \in path[a] : l[1] \in N /\ S.kind[l[1]] \in Splits
  BY <1>2, AnchorEdge DEF Boxed
<1>4. PICK e, g, X, J : /\ e = <<a, x, 0>> /\ g = <<j, f[2], 0>>
                        /\ X = {<<x, b, 0>> : b \in B} /\ J = {<<b, j, 0>> : b \in B}
  OBVIOUS
<1>5. PICK M, F : M = {x, j} \cup B /\ F = {e, g} \cup X \cup J
  OBVIOUS
<1>6. /\ x \in M /\ j \in M /\ x # j /\ x \notin B /\ j \notin B /\ M \cap N = {}
      /\ DOMAIN T.kind = N \cup M /\ T.kind = [n \in DOMAIN T.kind |-> T.kind[n]]
      /\ \A n \in N : T.kind[n] = S.kind[n]
      /\ \A b \in B : T.kind[b] = "ACTIVITY"
      /\ <<T.kind[x], T.kind[j]>> \in {<<"AND_SPLIT", "AND_JOIN">>, <<"XOR_SPLIT", "XOR_JOIN">>}
      /\ T.edges = (E \ {f}) \cup F /\ IsFiniteSet(T.edges)
  <2>1. T.edges = (E \ {f}) \cup F
    BY <1>2, <1>3, <1>4, <1>5 DEF Boxed
  <2>2. DOMAIN T.kind = N \cup M /\ M \cap N = {}
    BY <1>2, <1>5 DEF Boxed
  <2>3. QED
    BY <1>2, <1>5, <2>1, <2>2 DEF Boxed
<1>20. \/ T.kind[x] = "AND_SPLIT" /\ T.kind[j] = "AND_JOIN"
       \/ T.kind[x] = "XOR_SPLIT" /\ T.kind[j] = "XOR_JOIN"
  BY <1>6
<1>7. /\ T.kind[x] \in Splits /\ T.kind[x] \notin Joins /\ T.kind[j] \in Joins /\ T.kind[j] \notin Splits
      /\ \A b \in B : T.kind[b] \notin Splits /\ T.kind[b] \notin Joins
      /\ \A m \in M : T.kind[m] \in Kinds /\ T.kind[m] # "START" /\ T.kind[m] # "END"
  BY <1>5, <1>6, <1>20 DEF Splits, Joins, Kinds
<1>8. /\ rank \in [N -> Nat] /\ S.kind \in [N -> Kinds] /\ \A i \in E : i[1] \in N /\ i[2] \in N
  BY <1>1, <1>2 DEF Drawn, NestedBy, Ranked
<1>9. /\ e[1] = a /\ e[2] = x /\ e[3] = 0 /\ g[1] = j /\ g[2] = f[2] /\ g[3] = 0
      /\ \A i \in X : i[1] = x /\ i[2] \in B /\ i[3] = 0 /\ i = <<x, i[2], 0>>
      /\ \A i \in J : i[1] \in B /\ i[2] = j /\ i[3] = 0 /\ i = <<i[1], j, 0>>
  BY <1>4
<1>10. Grafts(S, f, T, M, F, g)
  <2>1. T.kind \in [DOMAIN T.kind -> Kinds]
    BY <1>6, <1>7, <1>8
  <2>2. \A i \in F : i[3] = 0 /\ i[1] \in M \cup {f[1]} /\ (i = g \/ i[2] \in M)
    BY <1>3, <1>5, <1>9
  <2>3. ASSUME NEW y \in M, T.kind[y] = "XOR_SPLIT", NEW i \in OutOf(T, y), NEW k \in OutOf(T, y), i[2] = k[2]
        PROVE  i = k
    <3>1. y = x
      BY <1>5, <1>6, <1>20, <2>3
    <3>2. i \in X /\ k \in X
      BY <1>3, <1>5, <1>6, <1>8, <1>9, <2>3, <3>1 DEF OutOf
    <3>3. QED
      BY <1>9, <2>3, <3>2
  <2>4. g \in F /\ g[1] \in M
    BY <1>5, <1>6, <1>9
  <2>5. QED
    BY <1>2, <1>3, <1>6, <1>7, <1>9, <2>1, <2>2, <2>3, <2>4 DEF Grafts
<1>11. PICK r, p, o :
         /\ r = [m \in N \cup M |-> IF m = x THEN 4 * rank[a] + 1 ELSE IF m = j THEN 4 * rank[a] + 3
                                   ELSE IF m \in B THEN 4 * rank[a] + 2 ELSE 4 * rank[m]]
         /\ p = [m \in N \cup M |-> IF m \in {x, j} THEN path[a]
                                   ELSE IF m \in B THEN path[a] \cup {<<x, m, 0>>} ELSE path[m]]
         /\ o = [i \in OfKinds(T, Joins) |-> IF i = j THEN x ELSE open[i]]
  OBVIOUS
<1>12. FitsRank(S, T, F, rank, r)
  <2>1. /\ r[x] = 4 * rank[a] + 1 /\ r[j] = 4 * rank[a] + 3 /\ \A b \in B : r[b] = 4 * rank[a] + 2
        /\ \A m \in N : r[m] = 4 * rank[m]
    BY <1>5, <1>6, <1>11
  <2>2. r \in [N \cup M -> Nat]
    <3>1. \A m \in N : r[m] \in Nat
      BY <1>8, <2>1
    <3>2. \A m \in M : r[m] \in Nat
      BY <1>3, <1>5, <2>1
    <3>3. r = [m \in N \cup M |-> r[m]]
      BY <1>11
    <3>4. QED
      BY <3>1, <3>2, <3>3
  <2>3. r[a] < r[x] /\ r[x] < r[j] /\ r[j] < r[f[2]]
    BY <1>3, <2>1
  <2>4. \A b \in B : r[x] < r[b] /\ r[b] < r[j]
    BY <1>3, <2>1
  <2>5. \A i \in F : r[i[1]] < r[i[2]]
    BY <1>5, <1>9, <2>3, <2>4
  <2>6. QED
    BY <1>2, <1>6, <2>1, <2>2, <2>5 DEF FitsRank
<1>13. /\ p[x] = path[a] /\ p[j] = path[a] /\ \A b \in B : p[b] = path[a] \cup {<<x, b, 0>>}
       /\ \A m \in N : p[m] = path[m]
  BY <1>5, <1>6, <1>11
<1>14. \A b \in B : /\ <<x, b, 0>> \in X /\ <<b, j, 0>> \in J
                    /\ Along(T, p, <<x, b, 0>>) = p[b]
                    /\ Along(T, p, <<b, j, 0>>) = p[b]
  <2>1. ASSUME NEW b \in B PROVE Along(T, p, <<x, b, 0>>) = p[b]
    <3>1. PICK i : i = <<x, b, 0>>
      OBVIOUS
    <3>2. i \in X /\ i[1] = x
      BY <1>4, <2>1, <3>1
    <3>3. i \in LaneEdges(T)
      BY <1>5, <1>6, <1>7, <3>2 DEF LaneEdges
    <3>4. QED
      BY <1>13, <2>1, <3>1, <3>2, <3>3 DEF Along
  <2>2. ASSUME NEW b \in B PROVE Along(T, p, <<b, j, 0>>) = p[b]
    <3>1. PICK i : i = <<b, j, 0>>
      OBVIOUS
    <3>2. i[1] = b
      BY <3>1
    <3>3. i \notin LaneEdges(T)
      BY <1>7, <2>2, <3>2 DEF LaneEdges
    <3>4. QED
      BY <2>2, <3>1, <3>2, <3>3 DEF Along
  <2>3. QED
    BY <1>4, <2>1, <2>2
<1>15. FitsPath(S, f, T, M, F, g, path, p)
  <2>1. path[a] \subseteq LaneEdges(T)
    BY <1>3, <1>6 DEF LaneEdges
  <2>2. X \subseteq LaneEdges(T)
    BY <1>5, <1>6, <1>7, <1>9 DEF LaneEdges
  <2>3. ASSUME NEW m \in M PROVE p[m] \subseteq LaneEdges(T)
    BY <1>5, <1>13, <1>14, <2>1, <2>2, <2>3
  <2>4. p[x] = Along(T, p, e)
    BY <1>3, <1>6, <1>9, <1>13 DEF Along, LaneEdges
  <2>5. ASSUME NEW i \in F, i # g, T.kind[i[2]] \notin Joins PROVE p[i[2]] = Along(T, p, i)
    <3>1. CASE i = e
      BY <1>9, <2>4, <3>1
    <3>2. CASE i \in X
      BY <1>9, <1>14, <3>2
    <3>3. i \notin J
      BY <1>7, <1>9, <2>5
    <3>4. QED
      BY <1>5, <2>5, <3>1, <3>2, <3>3
  <2>6. p = [n \in DOMAIN T.kind |-> p[n]]
    BY <1>6, <1>11
  <2>7. \A n \in DOMAIN S.kind : p[n] = path[n]
    BY <1>2, <1>13
  <2>8. p[g[1]] = path[f[1]]
    BY <1>3, <1>9, <1>13
  <2>9. QED
    BY <2>3, <2>5, <2>6, <2>7, <2>8 DEF FitsPath
<1>16. /\ M \cap OfKinds(T, Joins) = {j} /\ M \cap OfKinds(T, Splits) = {x}
       /\ OfKinds(T, Joins) = OfKinds(S, Joins) \cup {j} /\ j \notin OfKinds(S, Joins)
  <2>1. M \cap OfKinds(T, Joins) = {j} /\ M \cap OfKinds(T, Splits) = {x}
    BY <1>5, <1>6, <1>7 DEF OfKinds
  <2>2. j \notin OfKinds(S, Joins)
    BY <1>2, <1>6 DEF OfKinds
  <2>3. N \cap OfKinds(T, Joins) = OfKinds(S, Joins)
    BY <1>2, <1>6 DEF OfKinds
  <2>4. OfKinds(T, Joins) \subseteq N \cup M
    BY <1>6 DEF OfKinds
  <2>5. QED
    BY <2>1, <2>2, <2>3, <2>4
<1>17. Closing(T, p, j, x)
  <2>1. Into(T, j) = J
    <3>1. \A i \in E : i[2] # j
      BY <1>6, <1>8
    <3>2. \A i \in X : i[2] # j
      BY <1>6, <1>9
    <3>3. e[2] # j /\ g[2] # j
      BY <1>3, <1>6, <1>9
    <3>4. QED
      BY <1>5, <1>6, <1>9, <3>1, <3>2, <3>3 DEF Into
  <2>2. OutOf(T, x) = X
    <3>1. \A i \in E : i[1] # x
      BY <1>6, <1>8
    <3>2. \A i \in J : i[1] # x
      BY <1>6, <1>9
    <3>3. e[1] # x /\ g[1] # x
      BY <1>3, <1>6, <1>9
    <3>4. QED
      BY <1>5, <1>6, <1>9, <3>1, <3>2, <3>3 DEF OutOf
  <2>3. ASSUME NEW b \in B PROVE p[b] = p[j] \cup {<<x, b, 0>>}
    BY <1>13, <2>3
  <2>8. \A i \in J : /\ i[1] \in B /\ <<x, i[1], 0>> \in X
                    /\ Along(T, p, i) = p[j] \cup {<<x, i[1], 0>>}
    <3>1. ASSUME NEW i \in J
          PROVE  i[1] \in B /\ <<x, i[1], 0>> \in X /\ Along(T, p, i) = p[j] \cup {<<x, i[1], 0>>}
      <4>1. PICK b \in B : i = <<b, j, 0>>
        BY <1>4, <3>1
      <4>2. i[1] = b
        BY <4>1
      <4>3. Along(T, p, i) = p[b] /\ <<x, b, 0>> \in X
        BY <1>14, <4>1
      <4>4. QED
        BY <2>3, <4>2, <4>3
    <3>2. QED
      BY <3>1
  <2>4. {Along(T, p, i) : i \in J} = {p[j] \cup {l} : l \in X}
    <3>1. \A i \in J : \E l \in X : Along(T, p, i) = p[j] \cup {l}
      BY <2>8
    <3>2. ASSUME NEW l \in X PROVE \E i \in J : Along(T, p, i) = p[j] \cup {l}
      <4>1. PICK b \in B : l = <<x, b, 0>>
        BY <1>4, <3>2
      <4>2. PICK i : i = <<b, j, 0>>
        OBVIOUS
      <4>3. i \in J /\ i[1] = b
        BY <1>14, <4>2
      <4>4. QED
        BY <2>8, <4>1, <4>3
    <3>3. PICK C, D : C = {Along(T, p, i) : i \in J} /\ D = {p[j] \cup {l} : l \in X}
      OBVIOUS
    <3>4. C \subseteq D
      BY <3>1, <3>3
    <3>5. D \subseteq C
      BY <3>2, <3>3
    <3>6. QED
      BY <3>3, <3>4, <3>5
  <2>5. ASSUME NEW i \in J, NEW k \in J, Along(T, p, i) = Along(T, p, k) PROVE i = k
    <3>1. PICK b, c : b = i[1] /\ c = k[1] /\ i = <<b, j, 0>> /\ k = <<c, j, 0>>
      BY <1>9, <2>5
    <3>2. path[a] \cup {<<x, b, 0>>} = path[a] \cup {<<x, c, 0>>}
      BY <1>13, <2>5, <2>8, <3>1
    <3>3. \A l \in path[a] : l[1] # x
      BY <1>3, <1>6
    <3>4. PICK l, q : l = <<x, b, 0>> /\ q = <<x, c, 0>>
      OBVIOUS
    <3>5. l[1] = x /\ l[2] = b /\ q[2] = c
      BY <3>4
    <3>6. l = q
      BY <3>2, <3>3, <3>4, <3>5
    <3>7. QED
      BY <3>1, <3>5, <3>6
  <2>6. T.kind[j] = "AND_JOIN" <=> T.kind[x] = "AND_SPLIT"
    BY <1>20
  <2>7. QED
    BY <1>13, <2>1, <2>2, <2>4, <2>5, <2>6 DEF Closing
<1>18. FitsOpen(S, T, M, p, open, o)
  <2>1. o[j] = x /\ \A i \in OfKinds(S, Joins) : o[i] = open[i]
    BY <1>11, <1>16
  <2>2. o = [i \in OfKinds(T, Joins) |-> o[i]]
    BY <1>11
  <2>3. QED
    BY <1>16, <1>17, <2>1, <2>2 DEF FitsOpen
<1>19. QED
  BY <1>1, <1>10, <1>12, <1>15, <1>18, GraftedNested
=============================================================================
