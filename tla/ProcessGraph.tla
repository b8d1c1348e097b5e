---------------------------- MODULE ProcessGraph ----------------------------
(***************************************************************************)
(* The control graph of a released schema as the engine runs it, and what  *)
(* it relies on there.  Rank, Ctx and Match are not part of a schema: they *)
(* witness that its graph has no cycle and that its blocks are nested.     *)
(* Module Execution assumes all of it; module SchemaOps is where the       *)
(* graphs come from.                                                       *)
(***************************************************************************)
EXTENDS Naturals

CONSTANTS
  Nodes, Start, End,      \* the schema's nodes, its START and its END node
  Kind,                   \* Kind[n] : the node's type
  Edges,                  \* control edges <<source, target>>
  Rank, MaxRank,          \* a topological numbering of the graph
  Ctx,                    \* Ctx[n] : the XOR branches (edges) enclosing n
  Match,                  \* Match[j] : the split an XOR_JOIN j closes
  Values, Branch,         \* Branch[x][v] : the target of split x for value v
  NoNode                  \* no branch takes a value

NodeTypes  == {"START", "END", "ACTIVITY", "SUBPROCESS",
               "AND_SPLIT", "AND_JOIN", "XOR_SPLIT", "XOR_JOIN"}

Incoming(n)  == {e \in Edges : e[2] = n}
Outgoing(n)  == {e \in Edges : e[1] = n}
Activities   == {n \in Nodes : Kind[n] = "ACTIVITY"}
SubProcesses == {n \in Nodes : Kind[n] = "SUBPROCESS"}
XorSplits    == {n \in Nodes : Kind[n] = "XOR_SPLIT"}

(* The branches enclosing edge e: those of its source, and e itself when   *)
(* its source is the XOR split that opens the branch.                      *)
EdgeCtx(e) == Ctx[e[1]] \cup (IF e[1] \in XorSplits THEN {e} ELSE {})

-----------------------------------------------------------------------------
(* Endpoints and degrees (K2), and no cycle.                               *)
GraphOK ==
  /\ Start \in Nodes /\ End \in Nodes
  /\ Kind \in [Nodes -> NodeTypes]
  /\ \A n \in Nodes : (Kind[n] = "START" <=> n = Start) /\ (Kind[n] = "END" <=> n = End)
  /\ Edges \subseteq Nodes \X Nodes
  /\ MaxRank \in Nat /\ Rank \in [Nodes -> 0 .. MaxRank]
  /\ \A e \in Edges : Rank[e[1]] < Rank[e[2]]
  /\ \A n \in Nodes : (Incoming(n) = {} <=> n = Start) /\ (Outgoing(n) = {} <=> n = End)

(* Block structure, as a labelling: a node runs under the branches of its  *)
(* predecessors, and an XOR_JOIN closes the block of one split, with one   *)
(* incoming edge for every branch of it.                                   *)
BlockOK ==
  /\ Ctx \in [Nodes -> SUBSET Edges]
  /\ Ctx[Start] = {} /\ Ctx[End] = {}
  /\ \A n \in Nodes : \A l \in Ctx[n] : l[1] \in XorSplits /\ Ctx[l[1]] \subseteq Ctx[n]
  /\ \A e \in Edges : Kind[e[2]] # "XOR_JOIN" => EdgeCtx(e) = Ctx[e[2]]
  /\ \A j \in Nodes : Kind[j] = "XOR_JOIN" =>
       LET x == Match[j] IN
       /\ x \in XorSplits /\ Ctx[j] = Ctx[x] /\ Rank[x] < Rank[j]
       /\ \A e \in Incoming(j) : \E o \in Outgoing(x) : EdgeCtx(e) = Ctx[x] \cup {o}
       /\ \A o \in Outgoing(x) : \E e \in Incoming(j) : EdgeCtx(e) = Ctx[x] \cup {o}
       /\ \A e, f \in Incoming(j) : EdgeCtx(e) = EdgeCtx(f) => e = f

(* K7: a decision sends a value only to a branch of its split.             *)
BranchesOK ==
  \A x \in XorSplits, v \in Values :
    Branch[x][v] # NoNode => <<x, Branch[x][v]>> \in Edges
=============================================================================
