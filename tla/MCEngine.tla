------------------------------- MODULE MCEngine -------------------------------
(***************************************************************************)
(* Schemas for modules Engine and Evolution, and the check that an         *)
(* instance driven by the loop behaves as module Execution says.           *)
(*   Call    two elements, three SUBPROCESS nodes: S waits beside A, T is  *)
(*           done at once and rewrites the element the next split reads, U *)
(*           waits behind that split                                       *)
(*   CallR   the same schema with its nodes in the opposite order          *)
(*   Top, Mid, Leaf2   three levels, with follow-ups at two of them        *)
(*   Base    to be changed: an AND block, an XOR block with a branch of    *)
(*           two steps, a step; Longer has a step more at its end, Early   *)
(*           one before the split, Behind one at the end of the branch     *)
(***************************************************************************)
EXTENDS Evolution, SequencesExt

KindOf(n) ==
  CASE n = "st" -> "START" [] n = "en" -> "END"
    [] n \in {"xs", "ys"} -> "XOR_SPLIT" [] n \in {"xj", "yj"} -> "XOR_JOIN"
    [] n = "as" -> "AND_SPLIT" [] n = "aj" -> "AND_JOIN"
    [] n \in {"S", "T", "U"} -> "SUBPROCESS"
    [] OTHER -> "ACTIVITY"

Bool(first, second) ==
  [v \in Values |-> CASE v = "t" -> first [] v = "f" -> second [] OTHER -> NoNode]
Chain(nodes) == {<<nodes[k], nodes[k + 1]>> : k \in 1 .. Len(nodes) - 1}
NoSplit == [x \in {} |-> NoNode]
Plain(nodes, links) ==
  [order |-> nodes, kind |-> [n \in {nodes[k] : k \in 1 .. Len(nodes)} |-> KindOf(n)],
   edges |-> Chain(nodes), disc |-> NoSplit, branch |-> NoSplit, bind |-> NoSplit,
   reads |-> {}, writes |-> {}, links |-> links]
To(target, inp, outp) == [target |-> target, inp |-> inp, outp |-> outp]
Link(target, mode, cond, map) == [target |-> target, mode |-> mode, cond |-> cond, map |-> map]

(* "isf" is the condition v == "f"; it cannot be evaluated while v is not  *)
(* set.                                                                    *)
MCHolds(cond, d) ==
  IF d["v"] = NoValue THEN "error" ELSE IF d["v"] = "f" THEN "true" ELSE "false"

-----------------------------------------------------------------------------
CallOrder == <<"st", "as", "A", "S", "aj", "xs", "T", "B", "xj", "ys", "U", "D", "yj", "en">>
Call ==
  [order |-> CallOrder,
   kind |-> [n \in {CallOrder[k] : k \in DOMAIN CallOrder} |-> KindOf(n)],
   edges |-> Chain(<<"st", "as", "A", "aj", "xs", "T", "xj", "ys", "U", "yj", "en">>)
             \cup Chain(<<"as", "S", "aj">>) \cup Chain(<<"xs", "B", "xj">>)
             \cup Chain(<<"ys", "D", "yj">>),
   disc |-> [x \in {"xs", "ys"} |-> "v"],
   branch |-> [x \in {"xs", "ys"} |-> IF x = "xs" THEN Bool("T", "B") ELSE Bool("U", "D")],
   bind |-> [s \in {"S", "T", "U"} |->
               IF s = "T" THEN To("Now", {<<"v", "u">>}, {<<"v", "v">>})
               ELSE To("Leaf", {<<"u", "v">>}, {<<"v", "u">>})],
   reads |-> {<<"B", "v">>, <<"D", "u">>},
   writes |-> {<<"A", "v">>, <<"S", "u">>, <<"T", "v">>, <<"U", "u">>},
   links |-> <<>>]
Now  == Plain(<<"st", "en">>, <<>>)
Leaf == Plain(<<"st", "K", "en">>, <<>>)

-----------------------------------------------------------------------------
Mid ==
  [Plain(<<"st", "as", "S", "aj", "en">>, <<Link("Now", "SYNC", "always", {<<"v", "u">>})>>)
     EXCEPT !.order = <<"en", "A", "st", "as", "S", "aj">>,
            !.kind = [n \in {"st", "as", "A", "S", "aj", "en"} |-> KindOf(n)],
            !.edges = @ \cup Chain(<<"as", "A", "aj">>),
            !.bind = [s \in {"S"} |-> To("Leaf2", {}, {<<"v", "u">>})]]
Top == [Plain(<<"st", "S", "en">>, <<>>)
          EXCEPT !.bind = [s \in {"S"} |-> To("Mid", {}, {<<"u", "u">>})]]
Leaf2 == Plain(<<"st", "K", "en">>,
               <<Link("Leaf", "ASYNC", "isf", {<<"u", "v">>}), Link("Now", "ASYNC", "always", {})>>)

-----------------------------------------------------------------------------
Of(head, branch, tail) ==
  LET before == <<"st", "as", "Z">>
      middle == <<"aj">> \o head \o <<"xs">>
      after  == <<"xj">> \o tail \o <<"en">>
  IN [Plain(before \o <<"P">> \o middle \o branch \o <<"B">> \o after, <<>>)
        EXCEPT !.edges = Chain(before \o middle \o branch \o after)
                         \cup Chain(<<"as", "P", "aj">>) \cup Chain(<<"xs", "B", "xj">>),
               !.disc = [x \in {"xs"} |-> "v"],
               !.branch = [x \in {"xs"} |-> Bool(branch[1], "B")],
               !.writes = {<<"Z", "v">>}]
Base   == Of(<<>>, <<"A", "A2">>, <<"E">>)
Early  == Of(<<"Y">>, <<"A", "A2">>, <<"E">>)
Longer == Of(<<>>, <<"A", "A2">>, <<"E", "F">>)
Behind == Of(<<>>, <<"A", "A2", "N">>, <<"E">>)

Versions == {"Base", "Early", "Longer", "Behind"}
MCSchemas ==
  [s \in {"Call", "CallR", "Top", "Mid", "Leaf2", "Leaf", "Now"} \cup Versions |->
     CASE s = "Call" -> Call [] s = "CallR" -> [Call EXCEPT !.order = Reverse(@)]
       [] s = "Top" -> Top [] s = "Mid" -> Mid [] s = "Leaf2" -> Leaf2
       [] s = "Leaf" -> Leaf [] s = "Now" -> Now
       [] s = "Base" -> Base [] s = "Early" -> Early
       [] s = "Longer" -> Longer [] s = "Behind" -> Behind]

-----------------------------------------------------------------------------
(* Writes a client may send: every element it is asked for, or none.       *)
MCWrites == [Elems -> Typed] \cup {Nothing}

(* Bounds: a caller is alone in the store with the instances it starts,    *)
(* fewer than six; so is an instance to be changed, whose two elements are *)
(* written alike; what is in a tree is not changed.                        *)
Begun(schemas) == store # <<>> /\ store[1].schema \in schemas
Calling  == Begun({"Call", "CallR"})
Changing == Begun(Versions)
Alone(I) == I.parent = 0 /\ (Calling \/ Changing \/ I.schema \in {"Call", "CallR"} \cup Versions)
Alike(I) == I.data["u"] = I.data["v"]
InScope  ==
  /\ \A i \in DOMAIN store' \ DOMAIN store : Alone(store'[i]) => i = 1
  /\ Calling /\ call = Idle => Len(store) < 6
  /\ Changing => Alike(store'[1]) /\ (call' = Idle \/ Alike(call'.i))
Changed  == Changing /\ (AdhocChange \/ Migration)
MCSpec   == EInit /\ [][(EngineStep \/ Changed) /\ InScope]_evars

-----------------------------------------------------------------------------
(* Instance 1, as the client's call at work found it, seen as the instance *)
(* of module Execution: a call is one step there.                          *)
Seen == Found # <<>> /\ Calling
I1(absent, f(_)) == IF ~Seen THEN absent ELSE f(Found[1])
N1 == DOMAIN Call.kind
SubNodes == {"S", "T", "U"}
XorNodes == {"xs", "ys"}

Ctx1 == [n \in N1 |-> CASE n = "T" -> {<<"xs", "T">>} [] n = "B" -> {<<"xs", "B">>}
                        [] n = "U" -> {<<"ys", "U">>} [] n = "D" -> {<<"ys", "D">>}
                        [] OTHER -> {}]
NoElig(n, by) == {}

Single == INSTANCE Execution WITH
  Nodes <- N1, Start <- "st", End <- "en", Kind <- Call.kind, Edges <- Call.edges,
  Rank <- [n \in N1 |-> CHOOSE k \in 1 .. Len(CallOrder) : CallOrder[k] = n],
  MaxRank <- Len(CallOrder),
  Ctx <- Ctx1, Match <- [n \in N1 |-> IF n = "yj" THEN "ys" ELSE "xs"],
  Disc <- Call.disc, Branch <- Call.branch,
  Agents <- {}, NoAgent <- "nobody", Ruled <- {}, Eligible <- NoElig,
  ns <- LET f(I) == I.ns IN I1([n \in N1 |-> "NOT_ACTIVATED"], f),
  es <- LET f(I) == I.es IN I1([e \in Call.edges |-> "NOT_SIGNALED"], f),
  istate <- LET f(I) == I.state IN I1("ABSENT", f),
  decisions <- LET f(I) == [x \in XorNodes |-> I.dec[x]] IN I1([x \in XorNodes |-> NoNode], f),
  data <- LET f(I) == I.data IN I1(Nothing, f),
  performedBy <- [n \in N1 |-> "nobody"],
  child <- LET f(I) == [s \in SubNodes |->
                          IF I.children[s] = 0 THEN "none"
                          ELSE IF Found[I.children[s]].state = "COMPLETED" THEN "completed"
                          ELSE "running"]
           IN I1([s \in SubNodes |-> "none"], f),
  reply <- IF Seen /\ reply # "ok" THEN "unresolved_split" ELSE "ok"

(* The engine implements its abstract specification: whatever the order in *)
(* which _advance visits the nodes, with real child instances, children    *)
(* that finish inside the advance and calls that are refused.              *)
ImplementsExecution ==
  Single!Init /\ [][Calling' /\ Single!vars' # Single!vars => Single!Next]_Single!vars
=============================================================================
