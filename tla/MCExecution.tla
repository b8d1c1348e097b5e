----------------------------- MODULE MCExecution -----------------------------
(***************************************************************************)
(* The schema of the runs of module Execution: an XOR block whose first    *)
(* branch is an AND block with a SUBPROCESS, and whose second needs a      *)
(* second pair of eyes.                                                    *)
(***************************************************************************)
EXTENDS Execution, Decisions

CONSTANT bad  \* a value that is no number

KindOf(n) ==
  CASE n = "st" -> "START" [] n = "en" -> "END"
    [] n = "xs" -> "XOR_SPLIT" [] n = "xj" -> "XOR_JOIN"
    [] n = "as" -> "AND_SPLIT" [] n = "aj" -> "AND_JOIN"
    [] n = "S" -> "SUBPROCESS"
    [] OTHER -> "ACTIVITY"

MCKind  == [n \in Nodes |-> KindOf(n)]
MCMatch == [n \in Nodes |-> "xs"]

Depth(order) == [n \in Nodes |-> CHOOSE i \in 1 .. Cardinality(Nodes) : order[i] = n]

\* A value below 5 takes the first branch, any other number the second.
MCTyped  == {4, 5}
MCValues == {4, 5, bad}
Taking(k) == {v \in MCValues : Resolve("THRESHOLD", <<5, Unbounded>>, v) = k}
Taking1 == Taking(1)
Taking2 == Taking(2)
MCDisc == [x \in XorSplits |-> "v"]
ToBranch(first, second) ==
  [v \in Values |-> IF v \in Taking1 THEN first ELSE IF v \in Taking2 THEN second ELSE NoNode]

Nodes1 == {"st", "A", "xs", "as", "C", "S", "aj", "B", "xj", "en"}
Edges1 == {<<"st", "A">>, <<"A", "xs">>, <<"xs", "as">>, <<"xs", "B">>,
           <<"as", "C">>, <<"as", "S">>, <<"C", "aj">>, <<"S", "aj">>,
           <<"aj", "xj">>, <<"B", "xj">>, <<"xj", "en">>}
Rank1 == Depth(<<"st", "A", "xs", "as", "B", "C", "S", "aj", "xj", "en">>)
Ctx1 == [n \in Nodes |-> IF n \in {"as", "C", "S", "aj"} THEN {<<"xs", "as">>}
                         ELSE IF n = "B" THEN {<<"xs", "B">>} ELSE {}]
Branch1 == [x \in XorSplits |-> ToBranch("as", "B")]
\* B must be worked by somebody else than A (EXCEPT of the performer of A).
FourEyes(n, by) == Agents \ {by["A"]}
-----------------------------------------------------------------------------
\* Every decision of two or three branches with small cells: if it passes the
\* check, each value is in one cell and is given its branch, and what is no
\* number is given none; without a branch it passes again unless the branch
\* was the last of a THRESHOLD, the catch-all of an ENUM, or any BOOLEAN one.
SmallCells(kind) ==
  CASE kind = "THRESHOLD" -> -1 .. 1 \cup {Unbounded} [] kind = "BOOLEAN" -> BOOLEAN
    [] kind = "ENUM" -> [values : SUBSET {"t", "f"}, else : BOOLEAN]
SmallValues(kind) == IF kind = "THRESHOLD" THEN -2 .. 2 ELSE ValuesOf(kind)
Passing(kind) ==
  {c \in UNION {[1 .. n -> SmallCells(kind)] : n \in 1 .. 3} : PartitionOK(kind, c)}
Spare(kind, c, i) ==
  Len(c) > 2 /\ CASE kind = "THRESHOLD" -> i # Len(c) [] kind = "BOOLEAN" -> FALSE
                  [] kind = "ENUM" -> ~c[i].else

ASSUME SplitsTile ==
  \A kind \in {"THRESHOLD", "BOOLEAN", "ENUM"} : \A c \in Passing(kind) :
    \A v \in SmallValues(kind) :
      {i \in DOMAIN c : InCell(kind, c, i, v)} = {Resolve(kind, c, v)}
ASSUME SplitsShrink ==
  \A kind \in {"THRESHOLD", "BOOLEAN", "ENUM"} : \A c \in Passing(kind) :
    \A i \in DOMAIN c : PartitionOK(kind, Kept(c, i)) <=> Spare(kind, c, i)
ASSUME NoNumber ==
  \A c \in Passing("THRESHOLD") : Resolve("THRESHOLD", c, bad) = NoBranch
=============================================================================
