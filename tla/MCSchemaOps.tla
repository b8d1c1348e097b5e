---------------------------- MODULE MCSchemaOps ----------------------------
(***************************************************************************)
(* Where the requests of module SchemaOps start: an empty store; drafts    *)
(* with a block in a block; a released schema that a draft may call.       *)
(***************************************************************************)
EXTENDS SchemaOps

\* A draft whose elements are declared.
Declared == [Empty EXCEPT !.elems = Elems]

\* Threefold: a partition of which one branch may go; Twofold: one of which none may.
D == INSTANCE Decisions WITH Texts <- Values, Unbounded <- NoDeadline, NoBranch <- NoTemplate

Lists(v) == [values |-> {v}, else |-> FALSE]
Else == [values |-> {}, else |-> TRUE]
Parted(cells) == [v \in Values |-> D!Resolve("ENUM", cells, v)]
Threefold == Parted(<<Lists("t"), Lists("f"), Else>>)
Twofold == Parted(<<Lists("t"), Else>>)
MCPartitions == {Threefold, Twofold}

Act(i) == <<"act", i>>
Written(S, i) == [S EXCEPT !.writes = @ \cup {<<Act(i), "x">>}]
WithWriter == Written(Spliced(Declared, START, Act(2), "ACTIVITY"), 2)

\* Activity 2 writes x; an AND block as the only content of a branch, and one
\* with an empty branch; an AND block in a branch of an XOR block; an XOR block
\* in a branch of an AND block, beside which activity 11 may be a second writer.
AndInAnd == Deleted(Block(Block(Declared, START, 2, "AND_SPLIT", 2), Act(4), 6, "AND_SPLIT", 2),
                    Act(4))
Emptied == Deleted(Deleted(Block(AndInAnd, Act(8), 10, "AND_SPLIT", 2), Act(8)), <<"split", 10>>)
AndInXor == Block(Conditional(WithWriter, Act(2), 3, "x", Threefold),
                  Act(5), 8, "AND_SPLIT", 2)
XorInAnd == Conditional(Block(WithWriter, Act(2), 3, "AND_SPLIT", 2),
                        Act(5), 7, "x", Twofold)

One(S, n, k) == [stored |-> 1 :> S, next |-> n, left |-> k]
Library == 1 :> [WithWriter EXCEPT !.state = "RELEASED"] @@
           3 :> Spliced(Declared, START, Act(4), "ACTIVITY") @@ 5 :> Empty

MCStarts == {[stored |-> <<>>, next |-> 1, left |-> 3], One(Declared, 2, 4),
             [stored |-> Library, next |-> 6, left |-> 3],
             One(AndInAnd, 10, 2), One(Emptied, 14, 2),
             One(AndInXor, 12, 2), One(XorInAnd, 11, 2)}

-----------------------------------------------------------------------------
\* The rules count the ends of blocks and do not match them: a graph in which
\* an XOR block ends across an AND block is correct by all of them, and behind
\* branch 8 its AND_JOIN waits for ever.  No operation builds it (theorem
\* RoutesSound), but an import may bring it.
Crossed ==
  [WithWriter EXCEPT
     !.kind = @ @@ (<<"split", 3>> :> "AND_SPLIT") @@ (<<"join", 4>> :> "AND_JOIN")
                @@ (<<"split", 6>> :> "XOR_SPLIT") @@ (<<"join", 7>> :> "XOR_JOIN")
                @@ [i \in {Act(5), Act(8), Act(9)} |-> "ACTIVITY"],
     !.edges = {<<START, Act(2), 0>>, <<Act(2), <<"split", 3>>, 0>>,
                <<<<"split", 3>>, Act(5), 0>>, <<<<"split", 3>>, <<"split", 6>>, 0>>,
                <<<<"split", 6>>, Act(8), 0>>, <<<<"split", 6>>, Act(9), 0>>,
                <<Act(5), <<"join", 7>>, 0>>, <<Act(8), <<"join", 7>>, 0>>,
                <<<<"join", 7>>, <<"join", 4>>, 0>>, <<Act(9), <<"join", 4>>, 0>>,
                <<<<"join", 4>>, END, 0>>},
     !.disc = <<"split", 6>> :> "x",
     !.branch = <<"split", 6>> :> [v \in Values |-> IF v = "t" THEN Act(8) ELSE Act(9)]]

ASSUME RulesOnlyCount ==
  /\ Correct(Crossed) /\ ~ BlocksNest(Crossed)
  /\ \E c \in Routes(Crossed) :
       LET into == Into(Crossed, <<"join", 4>>)
       IN {e \in into : e[1] \in Ran(Crossed, c)} \notin {{}, into}
=============================================================================
