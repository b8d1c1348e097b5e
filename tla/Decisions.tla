----------------------------- MODULE Decisions -----------------------------
(***************************************************************************)
(* The branches of an exclusive split as cells of a partition of its       *)
(* discriminator's values (XorDecision, rule K7), and the choice of one.   *)
(* A decision is a kind and the sequence of its cells, a branch is its     *)
(* position in it:                                                         *)
(*   THRESHOLD  the upper bound of each branch; the lower one is the upper *)
(*              bound of the branch before                                 *)
(*   BOOLEAN    the truth value of each branch                             *)
(*   ENUM       the texts of each branch and whether it is the catch-all   *)
(* Numbers are integers; the float NaN, which compares with nothing, is    *)
(* left out.  A text is listed at most once in a branch.                   *)
(***************************************************************************)
EXTENDS Integers, Sequences

CONSTANTS
  Texts,      \* the strings a discriminator may have
  Unbounded,  \* upper = None
  NoBranch    \* resolve_xor_target returns None

ASSUME DecisionsAssumption == Unbounded \notin Int /\ NoBranch \notin Nat

Bounds == Int \cup {Unbounded}
Cells  == [values : SUBSET Texts, else : BOOLEAN]

(* discriminator_kind: the types that can be told apart decidably.         *)
DiscriminatorKind == [INTEGER |-> "THRESHOLD", FLOAT |-> "THRESHOLD",
                      BOOLEAN |-> "BOOLEAN", STRING |-> "ENUM"]
ValuesOf(kind) == CASE kind = "THRESHOLD" -> Int [] kind = "BOOLEAN" -> BOOLEAN
                    [] kind = "ENUM" -> Texts
CellsOf(kind)  == CASE kind = "THRESHOLD" -> Bounds [] kind = "BOOLEAN" -> BOOLEAN
                    [] kind = "ENUM" -> Cells

-----------------------------------------------------------------------------
(* _check_partition, by kind.                                              *)
ThresholdOK(c) ==
  /\ \A i \in DOMAIN c : c[i] = Unbounded <=> i = Len(c)
  /\ \A i \in 1 .. Len(c) - 2 : c[i] < c[i + 1]
BooleanOK(c) ==
  /\ Len(c) = 2
  /\ {c[i] : i \in DOMAIN c} = BOOLEAN
EnumOK(c) ==
  /\ \E i \in DOMAIN c : c[i].else /\ \A j \in DOMAIN c : c[j].else => j = i
  /\ \A i \in DOMAIN c : c[i].else <=> c[i].values = {}
  /\ \A i, j \in DOMAIN c : i # j => c[i].values \cap c[j].values = {}

PartitionOK(kind, c) ==
  /\ Len(c) >= 2
  /\ CASE kind = "THRESHOLD" -> ThresholdOK(c) [] kind = "BOOLEAN" -> BooleanOK(c)
       [] kind = "ENUM" -> EnumOK(c)

-----------------------------------------------------------------------------
(* resolve_xor_target: the first branch that takes the value, a catch-all  *)
(* only when no branch lists it.  What is no number is below no bound; the *)
(* other kinds get values of their type only (rule D3).                    *)
Below(bound, v) == bound = Unbounded \/ v < bound

Takes(kind, c, i, v) ==
  CASE kind = "THRESHOLD" -> v \in Int /\ Below(c[i], v)
    [] kind = "BOOLEAN" -> c[i] = v
    [] kind = "ENUM" -> \/ ~c[i].else /\ v \in c[i].values
                        \/ c[i].else /\ \A j \in DOMAIN c : c[j].else \/ v \notin c[j].values
First(hits) == CHOOSE i \in hits : \A j \in hits : i <= j
Resolve(kind, c, v) ==
  LET hits == {i \in DOMAIN c : Takes(kind, c, i, v)}
  IN IF hits = {} THEN NoBranch ELSE First(hits)

(* The cell of a branch, as XorBranch describes it: the half-open interval *)
(* from the bound of the branch before, a truth value, the listed texts or *)
(* all the others.                                                         *)
InCell(kind, c, i, v) ==
  Takes(kind, c, i, v) /\ (kind = "THRESHOLD" /\ i > 1 => c[i - 1] <= v)

(* _delete_single_node_branch: a branch goes, the others keep their order. *)
Kept(c, i) == [j \in 1 .. Len(c) - 1 |-> IF j < i THEN c[j] ELSE c[j + 1]]
============================================================================
