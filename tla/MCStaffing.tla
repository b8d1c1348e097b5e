----------------------------- MODULE MCStaffing -----------------------------
(***************************************************************************)
(* Two schemas, one with an XOR and one with an AND block, and four worlds *)
(* to start in: everything still to be made, a company shared with a       *)
(* linked draft, the same embedded in a draft, and a released process that *)
(* runs on it.                                                             *)
(***************************************************************************)
EXTENDS Staffing

KindOf(n) ==
  CASE n = "st" -> "START" [] n = "en" -> "END"
    [] n = "xs" -> "XOR_SPLIT" [] n = "xj" -> "XOR_JOIN"
    [] n = "as" -> "AND_SPLIT" [] n = "aj" -> "AND_JOIN"
    [] OTHER -> "ACTIVITY"
GraphOf(edges) ==
  [kind |-> [n \in {e[1] : e \in edges} \cup {e[2] : e \in edges} |-> KindOf(n)],
   edges |-> edges]
MCGraph ==
  <<GraphOf({<<"st", "A">>, <<"A", "xs">>, <<"xs", "B">>, <<"xs", "xj">>,
             <<"B", "xj">>, <<"xj", "C">>, <<"C", "en">>}),
    GraphOf({<<"st", "as">>, <<"as", "A">>, <<"as", "B">>, <<"A", "aj">>,
             <<"B", "aj">>, <<"aj", "C">>, <<"C", "en">>})>>

Leaf(kind, ref, recursive) ==
  [kind |-> kind, ref |-> ref, recursive |-> recursive, operands |-> <<>>]
Node(kind, operands) ==
  [kind |-> kind, ref |-> None, recursive |-> FALSE, operands |-> operands]
MCRules ==
  [clerk  |-> Leaf("ROLE", "r", FALSE),
   unit   |-> Leaf("ORG_UNIT", "u", FALSE),
   tree   |-> Leaf("ORG_UNIT", "u", TRUE),
   sameB  |-> Leaf("NODE_PERFORMING_AGENT", "B", FALSE),
   gate   |-> Leaf("NODE_PERFORMING_AGENT", "st", FALSE),
   both   |-> Node("AND", <<"clerk", "tree">>),
   either |-> Node("OR", <<"unit", "sameB">>),
   other  |-> Node("EXCEPT", <<"clerk", "sameB">>)]

Draft == [state |-> "ENTWURF", link |-> None, org |-> EmptyOrg, rule |-> <<>>]
Company ==
  [roles |-> {"r"},
   units |-> [u |-> [parent |-> None, manager |-> None], v |-> [parent |-> "u", manager |-> "a"]],
   agents |-> [a |-> [roles |-> {"r"}, unit |-> "v", deputy |-> None],
               b |-> [roles |-> {}, unit |-> None, deputy |-> None]]]
InUse == [state |-> "RELEASED", link |-> 1, org |-> EmptyOrg,
          rule |-> [A |-> "both", B |-> "tree", C |-> "either"]]

MCStarts ==
  {[orgs |-> <<>>, schemas |-> 1 :> Draft, left |-> 3],
   [orgs |-> <<Company>>, schemas |-> 1 :> [Draft EXCEPT !.link = 1], left |-> 2],
   [orgs |-> <<Company>>, schemas |-> 2 :> [Draft EXCEPT !.org = Company], left |-> 2],
   [orgs |-> <<Company>>, schemas |-> 2 :> InUse, left |-> 3]}
=============================================================================
