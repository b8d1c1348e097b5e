-------------------------------- MODULE Blocks --------------------------------
(***************************************************************************)
(* How the blocks of a schema lie in each other.  An edge out of a split   *)
(* opens a lane; each node lies in some lanes, those of its enclosing      *)
(* blocks; the join of a block closes the lanes of its split, each by one  *)
(* edge.  The editor knows blocks only while it builds or removes one, and *)
(* K1 counts their ends; that blocks stay nested is what its operations    *)
(* owe to each other.                                                      *)
(***************************************************************************)
EXTENDS Validator

Kinds == {"START", "END", "ACTIVITY", "SUBPROCESS"} \cup Splits \cup Joins
OfKinds(S, K) == {n \in DOMAIN S.kind : S.kind[n] \in K}
LaneEdges(S) == {e \in S.edges : S.kind[e[1]] \in Splits}

(* The lanes an edge runs in, given those of the node it leaves.           *)
Along(S, path, e) == path[e[1]] \cup ({e} \cap LaneEdges(S))

(* Edges join nodes, and the nodes have an order that all edges follow.    *)
Ranked(S, rank) ==
  /\ rank \in [DOMAIN S.kind -> Nat]
  /\ \A e \in S.edges :
       /\ e[1] \in DOMAIN S.kind /\ e[2] \in DOMAIN S.kind
       /\ rank[e[1]] < rank[e[2]]

(* A node lies in the lanes of the edges that lead to it; START and END    *)
(* lie in none.                                                            *)
Laned(S, path) ==
  /\ path \in [DOMAIN S.kind -> SUBSET LaneEdges(S)]
  /\ \A e \in S.edges : S.kind[e[2]] \notin Joins => path[e[2]] = Along(S, path, e)
  /\ \A n \in OfKinds(S, {"START", "END"}) : path[n] = {}

(* Join j closes the lanes that split open[j] opened, each by one edge.    *)
Closing(S, path, j, x) ==
  /\ S.kind[j] = "AND_JOIN" <=> S.kind[x] = "AND_SPLIT"
  /\ path[x] = path[j]
  /\ {Along(S, path, e) : e \in Into(S, j)} = {path[j] \cup {l} : l \in OutOf(S, x)}
  /\ \A e, f \in Into(S, j) : Along(S, path, e) = Along(S, path, f) => e = f

(* Every join closes one split, and every split is closed by one join.     *)
Paired(S, path, open) ==
  /\ open \in [OfKinds(S, Joins) -> OfKinds(S, Splits)]
  /\ \A x \in OfKinds(S, Splits) : \E j \in OfKinds(S, Joins) : open[j] = x
  /\ \A i, j \in OfKinds(S, Joins) : open[i] = open[j] => i = j
  /\ \A j \in OfKinds(S, Joins) : Closing(S, path, j, open[j])

(* The edges between two nodes are numbered from 0 on, and a decision has  *)
(* one edge to each of its targets.                                        *)
Between(S, a, b) == {e \in S.edges : e[1] = a /\ e[2] = b}
Counted(S) == \A e \in S.edges : e[3] \in Nat /\ e[3] < Cardinality(Between(S, e[1], e[2]))
Decisive(S) ==
  \A x \in NodesOfKind(S, "XOR_SPLIT") : \A e, f \in OutOf(S, x) : e[2] = f[2] => e = f

NestedBy(S, rank, path, open) ==
  /\ S.kind \in [DOMAIN S.kind -> Kinds]
  /\ Ranked(S, rank) /\ Laned(S, path) /\ Paired(S, path, open) /\ Counted(S) /\ Decisive(S)

-----------------------------------------------------------------------------
(* Order and lanes can be computed from the joins' splits.                 *)
Depths(S) ==
  LET d[n \in DOMAIN S.kind] == Max({0} \cup {d[p] + 1 : p \in Preds(S, n)}) IN d

LanesOf(S, open) ==
  LET path[n \in DOMAIN S.kind] ==
        IF Into(S, n) = {} THEN {}
        ELSE LET e == CHOOSE e \in Into(S, n) : TRUE
             IN {l \in path[e[1]] \cup ({e} \cap LaneEdges(S)) :
                   S.kind[n] \in Joins => l[1] # open[n]}
  IN path

BlocksNest(S) ==
  \E open \in [OfKinds(S, Joins) -> OfKinds(S, Splits)] :
    NestedBy(S, Depths(S), LanesOf(S, open), open)
=============================================================================
