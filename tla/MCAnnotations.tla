---------------------------- MODULE MCAnnotations ----------------------------
(***************************************************************************)
(* Where the requests of module Annotations start: a decision over x with  *)
(* a reader of y behind it; two parallel branches, one of them longer; a   *)
(* step to staff or to automate; released schemas and drafts to link, and  *)
(* one that calls another and has its output written back.                 *)
(***************************************************************************)
EXTENDS Annotations

Halves == [v \in Values |-> IF v = "t" THEN 1 ELSE 2]
MCPartitions == {Halves}

Step(i) == <<"act", i>>
Declared == [Empty EXCEPT !.elems = Elems, !.conns = Connectors]
Started  == Spliced(Declared, START, Step(2), "ACTIVITY")

\* Step 2 writes x, one branch writes y, step 7 behind the join may read y.
Deciding ==
  [Spliced(Conditional([Started EXCEPT !.writes = {<<Step(2), "x">>}], Step(2), 3, "x", Halves),
           <<"join", 4>>, Step(7), "ACTIVITY") EXCEPT
     !.writes = @ \cup {<<Step(5), "y">>}, !.mayread = {<<Step(7), "z">>}]

\* Steps 4 and 5 in parallel, of which 4 is annotated.
Parallel ==
  [Block(Declared, START, 2, "AND_SPLIT", 2) EXCEPT !.times = Step(4) :> 2, !.deadline = 3]

\* Step 5 writes y; step 2 behind it is a child that hands over x.
Delivering == [Started EXCEPT !.state = "RELEASED", !.writes = {<<Step(2), "x">>}]
Calling ==
  LET S == Spliced(Spliced(Declared, START, Step(2), "SUBPROCESS"), START, Step(5), "ACTIVITY")
  IN 1 :> Delivering @@
     3 :> Bound([S EXCEPT !.writes = {<<Step(5), "y">>}], Step(2), 1, 1, {"x"})

Drafts == 1 :> [Started EXCEPT !.state = "RELEASED"] @@ 3 :> Declared @@ 4 :> Declared

From(S, n, k, t) == [stored |-> S, next |-> n, left |-> k, topics |-> t]
MCStarts ==
  {From(1 :> Empty, 2, 2, {"data", "service", "time", "link"}),
   From(1 :> Deciding, 8, 3, {"data"}), From(Calling, 6, 3, {"data"}), From(1 :> Parallel, 6, 3, {"time"}),
   From(1 :> Started, 3, 3, {"service"}), From(Drafts, 5, 3, {"link"})}
=============================================================================
