-------------------------- MODULE AnnotationsProofs --------------------------
(***************************************************************************)
(* Theorems about the schemas the editor stores, for any number of         *)
(* schemas, nodes, elements and requests.  Every accepted request stores a *)
(* draft, a release or a mark for the library (Drafted, Released, Shelved),*)
(* and that is all the invariants look at: StoreInv, that every stored     *)
(* schema is correct, with its blocks nested, and that releases are        *)
(* ordered, and CallInv, that what a released schema calls delivers.  From *)
(* them follow sound routes, ordered writers, supplied data, deadlines     *)
(* kept, and what module Execution assumes of a schema.                    *)
(***************************************************************************)
EXTENDS Annotations, BlocksProofs

-----------------------------------------------------------------------------
(* Every edit makes of a draft a draft.                                    *)
Fields == DOMAIN Empty
Draft(S) == Shaped(S) /\ S.state = "ENTWURF"

LEMMA FieldsAre ==
  Fields = {"kind", "edges", "disc", "branch", "bind", "forms", "reads", "writes", "mayread",
            "maywrite", "elems", "conns", "tmpls", "query", "services", "staffed", "notes",
            "times", "deadline", "links", "library", "state", "version"}
BY DEF Fields, Empty

LEMMA FiniteWith ==
  ASSUME NEW A, IsFiniteSet(A), NEW x, NEW y
  PROVE  IsFiniteSet(A \cup {x}) /\ IsFiniteSet(A \cup {x, y})
<1>1. IsFiniteSet(A \cup {x})
  BY FS_AddElement
<1>2. IsFiniteSet((A \cup {x}) \cup {y})
  BY <1>1, FS_AddElement
<1>3. A \cup {x, y} = (A \cup {x}) \cup {y}
  OBVIOUS
<1>4. QED
  BY <1>1, <1>2, <1>3

LEMMA FiniteImage ==
  ASSUME NEW I, IsFiniteSet(I), NEW f
  PROVE  IsFiniteSet({f[b] : b \in I})
<1>1. PICK T : T = {f[b] : b \in I}
  OBVIOUS
<1>2. PICK g : g = [b \in I |-> f[b]]
  OBVIOUS
<1>3. g \in Surjection(I, T)
  BY <1>1, <1>2 DEF Surjection
<1>4. QED
  BY <1>1, <1>3, FS_Surjection

(* A request that changes neither the elements nor the state, nor times.   *)
SameTimes(C, S) == C.times = S.times /\ C.deadline = S.deadline
Keeps(C, S) ==
  C = [f \in Fields |-> C[f]] /\ C.elems = S.elems /\ C.state = S.state /\ SameTimes(C, S)

LEMMA TimedSame ==
  ASSUME NEW S, Timed(S), NEW C, SameTimes(C, S)
  PROVE  Timed(C)
BY DEF Timed, SameTimes

LEMMA DraftIf ==
  ASSUME NEW S, Draft(S), NEW C, Keeps(C, S), IsFiniteSet(DOMAIN C.kind), IsFiniteSet(C.edges)
  PROVE  Draft(C)
<1>1. Timed(C)
  BY TimedSame DEF Draft, Shaped, Keeps
<1>2. QED
  BY <1>1 DEF Draft, Shaped, Keeps, Fields

(* Most requests leave the graph and its decisions alone.                  *)
Graph == {"kind", "edges", "disc", "branch"}
SameGraph(C, S) ==
  C.kind = S.kind /\ C.edges = S.edges /\ C.disc = S.disc /\ C.branch = S.branch

LEMMA SameDraft ==
  ASSUME NEW S, Draft(S), NEW C, Keeps(C, S), SameGraph(C, S)
  PROVE  Draft(C)
BY DraftIf DEF SameGraph, Draft, Shaped

(* Nodes, edges and elements are all that a draft may have too many of.    *)
Plain == Fields \ (Graph \cup {"elems", "state", "times", "deadline"})

LEMMA OneField ==
  ASSUME NEW S, Draft(S), NEW k \in Plain, NEW v,
         NEW C, C = [S EXCEPT ![k] = v]
  PROVE  Draft(C) /\ SameGraph(C, S)
<1>1. Keeps(C, S) /\ SameGraph(C, S)
  BY FieldsAre DEF Draft, Shaped, Fields, Keeps, Plain, Graph, SameGraph, SameTimes
<1>2. QED
  BY <1>1, SameDraft

(* Another graph with the decisions there were.                            *)
Redrawn(C, S, kind, edges) ==
  C.kind = kind /\ C.edges = edges /\ C.disc = S.disc /\ C.branch = S.branch

LEMMA NewGraph ==
  ASSUME NEW S, Draft(S), NEW kind, IsFiniteSet(DOMAIN kind), NEW edges, IsFiniteSet(edges),
         NEW C, C = [S EXCEPT !.kind = kind, !.edges = edges]
  PROVE  Draft(C) /\ Redrawn(C, S, kind, edges)
<1>1. Keeps(C, S) /\ Redrawn(C, S, kind, edges)
  BY FieldsAre DEF Draft, Shaped, Fields, Keeps, SameTimes, Redrawn
<1>2. Draft(C)
  BY <1>1, DraftIf DEF Redrawn
<1>3. QED
  BY <1>1, <1>2

LEMMA EmptyDraft == Draft(Empty)
<1>1. PICK k : k = [n \in {START, END} |-> IF n = START THEN "START" ELSE "END"]
  OBVIOUS
<1>2. Empty.kind = k /\ Empty.edges = {<<START, END, 0>>} /\ Empty.elems = {} /\ Empty.state = "ENTWURF"
  BY <1>1 DEF Empty
<1>3. Empty = [f \in DOMAIN Empty |-> Empty[f]]
  BY DEF Empty
<1>4. IsFiniteSet({}) /\ IsFiniteSet({} \cup {START, END}) /\ IsFiniteSet({} \cup {<<START, END, 0>>})
  BY FS_EmptySet, FiniteWith
<1>5. DOMAIN k = {} \cup {START, END} /\ {} \cup {<<START, END, 0>>} = {<<START, END, 0>>}
  BY <1>1
<1>6. Timed(Empty)
  BY DEF Timed, Empty
<1>7. QED
  BY <1>2, <1>3, <1>4, <1>5, <1>6 DEF Draft, Shaped

LEMMA SplicedDraft ==
  ASSUME NEW S, Draft(S), NEW a, NEW n, NEW k, NEW C, C = Spliced(S, a, n, k)
  PROVE  /\ Draft(C)
         /\ Redrawn(C, S, With(S.kind, n, k),
                    (S.edges \ OutOf(S, a)) \cup {<<a, n, 0>>, <<n, Succ(S, a), 0>>})
<1>1. PICK kind : kind = With(S.kind, n, k)
  OBVIOUS
<1>2. PICK edges : edges = (S.edges \ OutOf(S, a)) \cup {<<a, n, 0>>, <<n, Succ(S, a), 0>>}
  OBVIOUS
<1>3. C = [S EXCEPT !.kind = kind, !.edges = edges]
  BY <1>1, <1>2 DEF Spliced
<1>4. IsFiniteSet(S.edges \ OutOf(S, a)) /\ IsFiniteSet(DOMAIN S.kind)
  BY FS_Subset DEF Draft, Shaped
<1>5. IsFiniteSet(edges)
  BY <1>2, <1>4, FiniteWith
<1>6. IsFiniteSet(DOMAIN kind)
  BY <1>1, <1>4, FiniteWith DEF With
<1>7. QED
  BY <1>1, <1>2, <1>3, <1>5, <1>6, NewGraph

(* The graph with a block in it.                                           *)
Body(i, b) == <<"act", i + 1 + b>>
Bodies(i, width) == {Body(i, b) : b \in 1 .. width}
BlockKinds(S, i, type, width) ==
  [n \in DOMAIN S.kind \cup {<<"split", i>>, <<"join", i + 1>>} \cup Bodies(i, width) |->
     CASE n = <<"split", i>> -> type
       [] n = <<"join", i + 1>> -> IF type = "AND_SPLIT" THEN "AND_JOIN" ELSE "XOR_JOIN"
       [] n \in DOMAIN S.kind -> S.kind[n]
       [] OTHER -> "ACTIVITY"]
BlockEdges(S, a, i, width) ==
  (S.edges \ OutOf(S, a)) \cup {<<a, <<"split", i>>, 0>>, <<<<"join", i + 1>>, Succ(S, a), 0>>}
  \cup {<<<<"split", i>>, Body(i, b), 0>> : b \in 1 .. width}
  \cup {<<Body(i, b), <<"join", i + 1>>, 0>> : b \in 1 .. width}

LEMMA BlockDraft ==
  ASSUME NEW S, Draft(S), NEW a, NEW i, NEW type, NEW width \in Nat
  PROVE  /\ Draft(Block(S, a, i, type, width))
         /\ Redrawn(Block(S, a, i, type, width), S,
                    BlockKinds(S, i, type, width), BlockEdges(S, a, i, width))
<1> DEFINE split == <<"split", i>>
           join == <<"join", i + 1>>
           body(b) == <<"act", i + 1 + b>>
<1>1. PICK bodies : bodies = {body(b) : b \in 1 .. width}
  OBVIOUS
<1>2. PICK kind : kind = [n \in DOMAIN S.kind \cup {split, join} \cup bodies |->
                   CASE n = split -> type
                     [] n = join -> IF type = "AND_SPLIT" THEN "AND_JOIN" ELSE "XOR_JOIN"
                     [] n \in DOMAIN S.kind -> S.kind[n]
                     [] OTHER -> "ACTIVITY"]
  OBVIOUS
<1>3. PICK forks : forks = {<<split, body(b), 0>> : b \in 1 .. width}
  OBVIOUS
<1>4. PICK joined : joined = {<<body(b), join, 0>> : b \in 1 .. width}
  OBVIOUS
<1>5. PICK edges : edges = (S.edges \ OutOf(S, a)) \cup {<<a, split, 0>>, <<join, Succ(S, a), 0>>}
                           \cup forks \cup joined
  OBVIOUS
<1>6. PICK C : C = [S EXCEPT !.kind = kind, !.edges = edges]
  OBVIOUS
<1>7. IsFiniteSet(bodies) /\ IsFiniteSet(forks) /\ IsFiniteSet(joined)
  <2>1. PICK I : I = 1 .. width
    OBVIOUS
  <2>2. IsFiniteSet(I)
    BY <2>1, FS_Interval
  <2>3. PICK f : f = [b \in I |-> body(b)]
    OBVIOUS
  <2>4. PICK g : g = [b \in I |-> <<split, body(b), 0>>]
    OBVIOUS
  <2>5. PICK h : h = [b \in I |-> <<body(b), join, 0>>]
    OBVIOUS
  <2>6. IsFiniteSet({f[b] : b \in I}) /\ IsFiniteSet({g[b] : b \in I}) /\ IsFiniteSet({h[b] : b \in I})
    BY <2>2, FiniteImage
  <2>7. bodies = {f[b] : b \in I} /\ forks = {g[b] : b \in I} /\ joined = {h[b] : b \in I}
    BY <1>1, <1>3, <1>4, <2>1, <2>3, <2>4, <2>5
  <2>8. QED
    BY <2>6, <2>7
<1>8. IsFiniteSet(S.edges \ OutOf(S, a)) /\ IsFiniteSet(DOMAIN S.kind)
  BY FS_Subset DEF Draft, Shaped
<1>9. IsFiniteSet(edges)
  BY <1>5, <1>7, <1>8, FiniteWith, FS_Union
<1>10. IsFiniteSet(DOMAIN kind)
  BY <1>2, <1>7, <1>8, FiniteWith, FS_Union
<1>11. Draft(C) /\ Redrawn(C, S, kind, edges)
  BY <1>6, <1>9, <1>10, NewGraph
<1>12. Block(S, a, i, type, width) = C
  BY <1>1, <1>2, <1>3, <1>4, <1>5, <1>6 DEF Block
<1>13. kind = BlockKinds(S, i, type, width) /\ edges = BlockEdges(S, a, i, width)
  BY <1>1, <1>2, <1>3, <1>4, <1>5 DEF BlockKinds, BlockEdges, Bodies, Body
<1>14. QED
  BY <1>11, <1>12, <1>13

LEMMA ConditionalDraft ==
  ASSUME NEW S, Draft(S), NEW a, NEW i, NEW x, NEW p, Branches(p) \in Nat
  PROVE  LET C == Conditional(S, a, i, x, p)
             B == Block(S, a, i, "XOR_SPLIT", Branches(p)) IN
         /\ Draft(C) /\ C.kind = B.kind /\ C.edges = B.edges
         /\ DOMAIN C.disc = DOMAIN B.disc \cup {<<"split", i>>}
         /\ DOMAIN C.branch = DOMAIN B.branch \cup {<<"split", i>>}
<1>1. PICK B : B = Block(S, a, i, "XOR_SPLIT", Branches(p))
  OBVIOUS
<1>2. Draft(B)
  BY <1>1, BlockDraft
<1>3. PICK split : split = <<"split", i>>
  OBVIOUS
<1>4. PICK d : d = With(B.disc, split, x)
  OBVIOUS
<1>5. PICK b : b = With(B.branch, split, [v \in Values |-> <<"act", i + 1 + p[v]>>])
  OBVIOUS
<1>6. PICK C : C = [B EXCEPT !.disc = d, !.branch = b]
  OBVIOUS
<1>7. /\ Keeps(C, B) /\ C.kind = B.kind /\ C.edges = B.edges
      /\ C.disc = d /\ C.branch = b
  BY <1>2, <1>6, FieldsAre DEF Draft, Shaped, Fields, Keeps, SameTimes
<1>8. Draft(C)
  BY <1>2, <1>7, DraftIf DEF Draft, Shaped
<1>9. Conditional(S, a, i, x, p) = C
  BY <1>1, <1>3, <1>4, <1>5, <1>6 DEF Conditional
<1>10. DOMAIN d = DOMAIN B.disc \cup {split} /\ DOMAIN b = DOMAIN B.branch \cup {split}
  BY <1>4, <1>5 DEF With
<1>11. QED
  BY <1>1, <1>3, <1>7, <1>8, <1>9, <1>10

LEMMA BoundDraft ==
  ASSUME NEW S, Draft(S), NEW n, NEW t, NEW version, NEW outs
  PROVE  Draft(Bound(S, n, t, version, outs)) /\ SameGraph(Bound(S, n, t, version, outs), S)
<1>1. PICK b : b = With(S.bind, n, [target |-> t, version |-> version, outs |-> outs])
  OBVIOUS
<1>2. PICK w : w = {e \in S.writes : e[1] # n} \cup {<<n, x>> : x \in outs}
  OBVIOUS
<1>3. PICK C : C = [S EXCEPT !.bind = b, !.writes = w]
  OBVIOUS
<1>4. Keeps(C, S) /\ SameGraph(C, S)
  BY <1>3, FieldsAre DEF Draft, Shaped, Fields, Keeps, SameTimes, SameGraph
<1>5. Bound(S, n, t, version, outs) = C
  BY <1>1, <1>2, <1>3 DEF Bound
<1>6. QED
  BY <1>4, <1>5, SameDraft

LEMMA UnconnectedDraft ==
  ASSUME NEW S, Draft(S), NEW n, NEW xs
  PROVE  Draft(Unconnected(S, n, xs)) /\ SameGraph(Unconnected(S, n, xs), S)
<1>1. PICK gone : gone = {n} \X xs
  OBVIOUS
<1>2. PICK C : C = [S EXCEPT !.reads = @ \ gone, !.writes = @ \ gone,
                             !.mayread = @ \ gone, !.maywrite = @ \ gone]
  OBVIOUS
<1>3. Keeps(C, S) /\ SameGraph(C, S)
  BY <1>2, FieldsAre DEF Draft, Shaped, Fields, Keeps, SameTimes, SameGraph
<1>4. Unconnected(S, n, xs) = C
  BY <1>1, <1>2 DEF Unconnected
<1>5. QED
  BY <1>3, <1>4, SameDraft

LEMMA MaskedDraft ==
  ASSUME NEW S, Draft(S), NEW n, NEW f
  PROVE  Draft(Masked(S, n, f)) /\ SameGraph(Masked(S, n, f), S)
<1> DEFINE fields(k) == {<<n, x>> : x \in {x \in DOMAIN f : f[x] = k}}
<1>1. PICK U : U = Unconnected(S, n, DOMAIN f)
  OBVIOUS
<1>2. Draft(U) /\ SameGraph(U, S)
  BY <1>1, UnconnectedDraft
<1>3. PICK A, B, D, E : /\ A = fields("reads") /\ B = fields("writes")
                        /\ D = fields("mayread") /\ E = fields("maywrite")
  OBVIOUS
<1>4. PICK m : m = With(U.forms, n, f)
  OBVIOUS
<1>5. PICK C : C = [U EXCEPT !.reads = @ \cup A, !.writes = @ \cup B,
                             !.mayread = @ \cup D, !.maywrite = @ \cup E, !.forms = m]
  OBVIOUS
<1>6. Keeps(C, U) /\ SameGraph(C, U)
  BY <1>2, <1>5, FieldsAre DEF Draft, Shaped, Fields, Keeps, SameTimes, SameGraph
<1>7. Masked(S, n, f) = C
  BY <1>1, <1>3, <1>4, <1>5 DEF Masked
<1>8. QED
  BY <1>2, <1>6, <1>7, SameDraft DEF SameGraph

LEMMA StrippedDraft ==
  ASSUME NEW S, Draft(S), NEW n
  PROVE  Draft(Stripped(S, n)) /\ SameGraph(Stripped(S, n), S)
<1> DEFINE rest(f) == [m \in DOMAIN f \ {n} |-> f[m]]
<1>1. PICK U : U = Unconnected(S, n, S.elems)
  OBVIOUS
<1>2. Draft(U) /\ SameGraph(U, S)
  BY <1>1, UnconnectedDraft
<1>3. PICK f, g, h : f = rest(U.forms) /\ g = rest(U.services) /\ h = rest(U.times)
  OBVIOUS
<1>4. PICK C : C = [U EXCEPT !.forms = f, !.services = g, !.times = h,
                             !.staffed = @ \ {n}, !.notes = @ \ {<<n, "priority">>}]
  OBVIOUS
<1>5. /\ C = [k \in Fields |-> C[k]] /\ C.elems = U.elems /\ C.state = U.state
      /\ C.times = h /\ C.deadline = U.deadline /\ SameGraph(C, U)
  BY <1>2, <1>4, FieldsAre DEF Draft, Shaped, Fields, SameGraph
<1>6. Stripped(S, n) = C
  BY <1>1, <1>3, <1>4 DEF Stripped
<1>7. Timed(C)
  BY <1>2, <1>3, <1>5 DEF Draft, Shaped, Timed
<1>8. Draft(C)
  BY <1>2, <1>5, <1>7 DEF Draft, Shaped, Fields, SameGraph
<1>9. QED
  BY <1>2, <1>5, <1>6, <1>8 DEF SameGraph

-----------------------------------------------------------------------------
(* Deletions.                                                              *)
Reduced(C, S, R, edges) ==
  /\ C.kind = [n \in DOMAIN S.kind \ R |-> S.kind[n]] /\ C.edges = edges
  /\ C.disc = [n \in DOMAIN S.disc \ R |-> S.disc[n]]
  /\ C.branch = [n \in DOMAIN S.branch \ R |-> S.branch[n]]

LEMMA DroppedDraft ==
  ASSUME NEW S, Draft(S), NEW R
  PROVE  Draft(Dropped(S, R)) /\ Reduced(Dropped(S, R), S, R, S.edges)
<1> DEFINE rest(f) == [n \in DOMAIN f \ R |-> f[n]]
           others(A) == {a \in A : a[1] \notin R}
<1>1. PICK k : k = rest(S.kind)
  OBVIOUS
<1>2. PICK d, b, t, f, s : /\ d = rest(S.disc) /\ b = rest(S.branch) /\ t = rest(S.bind)
                           /\ f = rest(S.forms) /\ s = rest(S.services)
  OBVIOUS
<1>3. PICK r, w, mr, mw : /\ r = others(S.reads) /\ w = others(S.writes)
                          /\ mr = others(S.mayread) /\ mw = others(S.maywrite)
  OBVIOUS
<1>4. PICK V : V = R \X {"value"}
  OBVIOUS
<1>5. PICK C : C = [S EXCEPT !.kind = k, !.disc = d, !.branch = b, !.bind = t,
                             !.forms = f, !.services = s, !.staffed = @ \ R,
                             !.reads = r, !.writes = w, !.mayread = mr, !.maywrite = mw,
                             !.notes = @ \ V]
  OBVIOUS
<1>6. Keeps(C, S) /\ C.kind = k /\ C.edges = S.edges /\ C.disc = d /\ C.branch = b
  BY <1>5, FieldsAre DEF Draft, Shaped, Fields, Keeps, SameTimes
<1>7. IsFiniteSet(DOMAIN k)
  BY <1>1, FS_Subset DEF Draft, Shaped
<1>8. Draft(C)
  BY <1>6, <1>7, DraftIf DEF Draft, Shaped
<1>9. Dropped(S, R) = C
  BY <1>1, <1>2, <1>3, <1>4, <1>5 DEF Dropped
<1>10. Reduced(C, S, R, S.edges)
  BY <1>1, <1>2, <1>6 DEF Reduced
<1>11. QED
  BY <1>8, <1>9, <1>10

LEMMA FewerEdges ==
  ASSUME NEW E, IsFiniteSet(E), NEW R, NEW s, NEW t
  PROVE  IsFiniteSet(Without(E, R)) /\ IsFiniteSet(AddEdge(E, s, t))
<1>1. IsFiniteSet(Without(E, R))
  BY FS_Subset DEF Without
<1>2. IsFiniteSet(AddEdge(E, s, t))
  BY FiniteWith DEF AddEdge
<1>3. QED
  BY <1>1, <1>2

LEMMA ClosedDraft ==
  ASSUME NEW S, Draft(S), NEW R, NEW p, NEW s
  PROVE  /\ Draft(Closed(S, R, p, s))
         /\ Reduced(Closed(S, R, p, s), S, R, AddEdge(Without(S.edges, R), p, s))
<1>1. PICK D : D = Dropped(S, R)
  OBVIOUS
<1>2. Draft(D) /\ Reduced(D, S, R, S.edges)
  BY <1>1, DroppedDraft
<1>3. PICK edges : edges = AddEdge(Without(D.edges, R), p, s)
  OBVIOUS
<1>4. IsFiniteSet(edges)
  <2>1. IsFiniteSet(Without(D.edges, R))
    BY <1>2, FewerEdges DEF Draft, Shaped
  <2>2. QED
    BY <1>3, <2>1, FewerEdges
<1>5. PICK C : C = [D EXCEPT !.edges = edges]
  OBVIOUS
<1>6. Keeps(C, D) /\ Redrawn(C, D, D.kind, edges)
  BY <1>2, <1>5, FieldsAre DEF Draft, Shaped, Fields, Keeps, SameTimes, Redrawn
<1>7. Draft(C)
  BY <1>2, <1>4, <1>6, DraftIf DEF Draft, Shaped, Redrawn
<1>8. Closed(S, R, p, s) = C
  BY <1>1, <1>3, <1>5 DEF Closed
<1>9. Reduced(C, S, R, AddEdge(Without(S.edges, R), p, s))
  BY <1>2, <1>3, <1>6 DEF Reduced, Redrawn
<1>10. QED
  BY <1>7, <1>8, <1>9

(* The branch of a step alone on it goes, or with it the block around it.  *)
Shortened(C, S, n) ==
  /\ C.kind = [m \in DOMAIN S.kind \ {n} |-> S.kind[m]]
  /\ C.edges = Without(S.edges, {n})
  /\ C.disc = [m \in DOMAIN S.disc \ {n} |-> S.disc[m]]
  /\ DOMAIN C.branch = DOMAIN S.branch \ {n}

LEMMA BranchDeletedDraft ==
  ASSUME NEW S, Draft(S), NEW n, NEW split, NEW join,
         NEW C, C = BranchDeleted(S, n, split, join)
  PROVE  /\ Draft(C)
         /\ Cardinality(Remaining(S, n, split)) >= 2 => Shortened(C, S, n)
         /\ ~ (Cardinality(Remaining(S, n, split)) >= 2) =>
              Reduced(C, S, {n, split, join},
                      AddEdge(AddEdge(Without(Without(S.edges, {n}), {split, join}),
                                      Pred(S, split), OnlyOf(Remaining(S, n, split))[2]),
                              Tail(S, n, join), Succ(S, join)))
<1> DEFINE to(v) == IF S.branch[split][v] # n THEN S.branch[split][v]
                    ELSE IF S.branch[split][Otherwise] # n THEN S.branch[split][Otherwise]
                    ELSE NoNode
<1>1. PICK E : E = Without(S.edges, {n})
  OBVIOUS
<1>2. IsFiniteSet(E)
  BY <1>1, FewerEdges DEF Draft, Shaped
<1>3. PICK remaining : remaining = {e \in E : e[1] = split}
  OBVIOUS
<1>4. PICK tail : tail = OnlyOf({e[1] : e \in {i \in E : i[2] = join}})
  OBVIOUS
<1>5. remaining = Remaining(S, n, split) /\ tail = Tail(S, n, join)
  BY <1>1, <1>3, <1>4 DEF Remaining, Tail
<1>6. CASE Cardinality(remaining) >= 2
  <2>1. PICK D : D = Dropped(S, {n})
    OBVIOUS
  <2>2. Draft(D) /\ Reduced(D, S, {n}, S.edges)
    BY <2>1, DroppedDraft
  <2>3. PICK branch : branch = [x \in DOMAIN D.branch |->
                                  IF x = split THEN [v \in Values |-> to(v)] ELSE D.branch[x]]
    OBVIOUS
  <2>4. C = [D EXCEPT !.edges = E, !.branch = branch]
    BY <1>1, <1>3, <1>6, <2>1, <2>3 DEF BranchDeleted
  <2>5. Keeps(C, D) /\ C.kind = D.kind /\ C.edges = E /\ C.disc = D.disc /\ C.branch = branch
    BY <2>2, <2>4, FieldsAre DEF Draft, Shaped, Fields, Keeps, SameTimes
  <2>6. Draft(C)
    BY <1>2, <2>2, <2>5, DraftIf DEF Draft, Shaped
  <2>7. DOMAIN branch = DOMAIN S.branch \ {n}
    BY <2>2, <2>3 DEF Reduced
  <2>8. Shortened(C, S, n)
    BY <1>1, <2>2, <2>5, <2>7 DEF Shortened, Reduced
  <2>9. QED
    BY <1>5, <1>6, <2>6, <2>8
<1>7. CASE ~ (Cardinality(remaining) >= 2)
  <2>1. PICK D : D = Dropped(S, {n, split, join})
    OBVIOUS
  <2>2. Draft(D) /\ Reduced(D, S, {n, split, join}, S.edges)
    BY <2>1, DroppedDraft
  <2>3. PICK F : F = AddEdge(Without(E, {split, join}), Pred(S, split), OnlyOf(remaining)[2])
    OBVIOUS
  <2>4. PICK G : G = AddEdge(F, tail, Succ(S, join))
    OBVIOUS
  <2>5. IsFiniteSet(Without(E, {split, join}))
    BY <1>2, FewerEdges
  <2>6. IsFiniteSet(F)
    BY <2>3, <2>5, FewerEdges
  <2>7. IsFiniteSet(G)
    BY <2>4, <2>6, FewerEdges
  <2>8. C = [D EXCEPT !.edges = G]
    BY <1>1, <1>3, <1>4, <1>7, <2>1, <2>3, <2>4 DEF BranchDeleted
  <2>9. Keeps(C, D) /\ Redrawn(C, D, D.kind, G)
    BY <2>2, <2>8, FieldsAre DEF Draft, Shaped, Fields, Keeps, SameTimes, Redrawn
  <2>10. Draft(C)
    BY <2>2, <2>7, <2>9, DraftIf DEF Draft, Shaped, Redrawn
  <2>11. Reduced(C, S, {n, split, join}, G)
    BY <2>2, <2>9 DEF Reduced, Redrawn
  <2>12. QED
    BY <1>1, <1>5, <1>7, <2>3, <2>4, <2>10, <2>11
<1>8. QED
  BY <1>6, <1>7

-----------------------------------------------------------------------------
(* And every edit keeps blocks nested, under numbers the counter passed.   *)
Woven(S, m) ==
  Founded(S) /\ Drew(S, m) /\ \E rank, path, open : NestedBy(S, rank, path, open)

LEMMA WovenNest ==
  ASSUME NEW S, Shaped(S), K2(S), NEW m, Woven(S, m)
  PROVE  \E rank, path, open : Nest(S, rank, path, open)
<1>1. PICK rank, path, open : NestedBy(S, rank, path, open)
  BY DEF Woven
<1>2. Nest(S, rank, path, open)
  BY <1>1 DEF Nest, Drawn, NestedBy, Shaped
<1>3. QED
  BY <1>2

LEMMA FlowWoven ==
  ASSUME NEW S, NEW m \in Nat, Woven(S, m), NEW T, SameFlow(S, T),
         T.disc = S.disc, T.branch = S.branch, NEW k \in Nat, k >= m
  PROVE  Woven(T, k)
<1>1. PICK rank, path, open : NestedBy(S, rank, path, open)
  BY DEF Woven
<1>2. NestedBy(T, rank, path, open)
  BY <1>1, SameFlowNested
<1>3. DOMAIN T.kind = DOMAIN S.kind
  BY DEF SameFlow
<1>4. Drew(T, k)
  BY <1>3 DEF Woven, Drew
<1>5. Founded(T)
  BY <1>3 DEF Woven, Founded, NodesOfKind, SameFlow
<1>6. QED
  BY <1>2, <1>4, <1>5 DEF Woven

LEMMA WovenSame ==
  ASSUME NEW S, NEW m \in Nat, Woven(S, m), NEW C, SameGraph(C, S), NEW k \in Nat, k >= m
  PROVE  Woven(C, k)
<1>1. S.kind \in [DOMAIN S.kind -> Kinds]
  BY DEF Woven, NestedBy
<1>2. SameFlow(S, C)
  BY <1>1 DEF SameFlow, SameGraph
<1>3. QED
  BY <1>2, FlowWoven DEF SameGraph

(* Fewer nodes: START and END are still there, since K2 asks for them.     *)
Fewer(C, S, R) ==
  /\ C.kind = [n \in DOMAIN S.kind \ R |-> S.kind[n]]
  /\ C.disc = [n \in DOMAIN S.disc \ R |-> S.disc[n]]
  /\ DOMAIN C.branch = DOMAIN S.branch \ R

LEMMA FewerWoven ==
  ASSUME NEW S, NEW m \in Nat, Woven(S, m), NEW rank, Drawn(S, rank),
         NEW C, Shaped(C), K2(C), NEW R, Fewer(C, S, R),
         \E r, p, o : NestedBy(C, r, p, o)
  PROVE  Woven(C, m)
<1>1. PICK N, k : N = DOMAIN S.kind /\ k = C.kind
  OBVIOUS
<1>2. DOMAIN k = N \ R /\ \A n \in N \ R : k[n] = S.kind[n]
  BY <1>1 DEF Fewer
<1>3. START \in N /\ S.kind[START] = "START" /\ END \in N /\ S.kind[END] = "END"
  BY <1>1 DEF Woven, Founded, NodesOfKind
<1>4. PICK A, B : A = NodesOfKind(C, "START") /\ B = NodesOfKind(C, "END")
  OBVIOUS
<1>5. IsFiniteSet(A) /\ IsFiniteSet(B)
  BY <1>4, FS_Subset DEF Shaped, NodesOfKind
<1>6. A # {} /\ B # {}
  BY <1>4, <1>5, OnlyOne DEF K2
<1>7. START \in A
  <2>1. PICK x : x \in A
    BY <1>6
  <2>2. x \in N /\ x \in DOMAIN k /\ k[x] = "START" /\ S.kind[x] = "START"
    BY <1>1, <1>2, <1>4, <2>1 DEF NodesOfKind
  <2>3. x = START
    BY <1>1, <1>3, <2>2, Single
  <2>4. QED
    BY <2>1, <2>3
<1>8. END \in B
  <2>1. PICK x : x \in B
    BY <1>6
  <2>2. x \in N /\ x \in DOMAIN k /\ k[x] = "END" /\ S.kind[x] = "END"
    BY <1>1, <1>2, <1>4, <2>1 DEF NodesOfKind
  <2>3. x = END
    BY <1>1, <1>3, <2>2, Single
  <2>4. QED
    BY <2>1, <2>3
<1>9. DOMAIN C.branch = DOMAIN C.disc
  BY DEF Fewer, Woven, Founded
<1>10. Drew(C, m)
  BY <1>1, <1>2 DEF Drew, Woven
<1>11. QED
  BY <1>4, <1>7, <1>8, <1>9, <1>10 DEF Woven, Founded

(* No decision keeps a removed target: K7 compares its branches with its   *)
(* edges before and after.                                                 *)
LEMMA StillTargeted ==
  ASSUME NEW S, K7(S, Values), Founded(S), NEW C, K7(C, Values),
         NEW R, NEW edges, Reduced(C, S, R, edges),
         NEW q \in DOMAIN C.kind, S.kind[q] = "XOR_SPLIT",
         NEW e \in S.edges, e[1] = q, e[2] \in DOMAIN S.kind
  PROVE  e[2] \notin R
<1>1. q \in DOMAIN S.kind /\ q \notin R
  BY DEF Reduced
<1>2. q \in NodesOfKind(S, "XOR_SPLIT")
  BY <1>1 DEF NodesOfKind
<1>3. q \in DOMAIN S.disc /\ q \in DOMAIN S.branch
  BY <1>2 DEF K7, Founded
<1>4. C.branch[q] = S.branch[q] /\ q \in DOMAIN C.disc
  BY <1>1, <1>3 DEF Reduced
<1>5. {S.branch[q][v] : v \in Values} = Succs(S, q)
  BY <1>3 DEF K7
<1>6. {C.branch[q][v] : v \in Values} = Succs(C, q)
  BY <1>4 DEF K7
<1>7. e[2] \in Succs(S, q)
  BY DEF Succs, OutOf
<1>8. e[2] \in Succs(C, q)
  BY <1>4, <1>5, <1>6, <1>7
<1>9. e[2] \in DOMAIN C.kind
  BY <1>8 DEF Succs
<1>10. QED
  BY <1>9 DEF Reduced

LEMMA NewEdge ==
  ASSUME NEW C, EdgesOK(C), NEW E, NEW s, NEW t, AddEdge(E, s, t) \subseteq C.edges
  PROVE  t \in DOMAIN C.kind
<1>1. PICK e : e = <<s, t, Cardinality({i \in E : i[1] = s /\ i[2] = t})>>
  OBVIOUS
<1>2. e \in C.edges /\ e[2] = t
  BY <1>1 DEF AddEdge
<1>3. QED
  BY <1>2 DEF EdgesOK

LEMMA DeletedDraft ==
  ASSUME NEW S, Draft(S), NEW n
  PROVE  Draft(Deleted(S, n))
BY ClosedDraft, BranchDeletedDraft DEF Deleted

LEMMA DeletedWoven ==
  ASSUME NEW S, Draft(S), K2(S), K7(S, Values), NEW m \in Nat, Woven(S, m),
         NEW n \in DOMAIN S.kind, S.kind[n] \notin Joins \cup {"START", "END"},
         NEW C, C = Deleted(S, n), Valid(C, Values)
  PROVE  Woven(C, m)
<1>1. PICK rank, path, open : Nest(S, rank, path, open)
  BY WovenNest DEF Draft
<1>2. NestedBy(S, rank, path, open) /\ Drawn(S, rank) /\ Founded(S)
  BY <1>1 DEF Nest, Woven
<1>3. Shaped(C) /\ K2(C) /\ K7(C, Values) /\ EdgesOK(C)
  BY DeletedDraft DEF Valid, Draft
<1>4. \A e \in S.edges : e[1] \in DOMAIN S.kind /\ e[2] \in DOMAIN S.kind
  BY <1>2 DEF Drawn, Ranked
<1>5. PICK f \in S.edges : f[2] = n /\ Pred(S, n) = f[1]
  <2>1. Into(S, n) # {}
    BY <1>2, Degrees
  <2>2. QED
    BY <1>2, <2>1, PredSucc DEF Into
<1>6. CASE S.kind[n] \in Splits
  <2>1. PICK R : R = {n, MatchingJoin(S, n)} \cup Inner(S, n)
    OBVIOUS
  <2>2. PICK edges : edges = AddEdge(Without(S.edges, R), Pred(S, n), Succ(S, MatchingJoin(S, n)))
    OBVIOUS
  <2>3. C = Closed(S, R, Pred(S, n), Succ(S, MatchingJoin(S, n)))
    BY <1>6, <2>1 DEF Deleted
  <2>4. Reduced(C, S, R, edges)
    BY <2>2, <2>3, ClosedDraft
  <2>5. f[1] \in DOMAIN C.kind
    <3>1. f[1] \notin R
      BY <1>1, <1>5, <1>6, <2>1, BeforeBlock
    <3>2. QED
      BY <1>4, <2>4, <3>1 DEF Reduced
  <2>6. S.kind[f[1]] # "XOR_SPLIT"
    BY <1>2, <1>3, <1>4, <1>5, <2>1, <2>4, <2>5, StillTargeted
  <2>7. Emptied(S, C, n, R)
    BY <1>5, <1>6, <2>1, <2>2, <2>4, <2>6 DEF Emptied, Reduced
  <2>8. \E r, p, o : NestedBy(C, r, p, o)
    BY <1>1, <2>7, EmptiedNested
  <2>9. Fewer(C, S, R)
    BY <2>4 DEF Fewer, Reduced
  <2>10. QED
    BY <1>2, <1>3, <2>8, <2>9, FewerWoven
<1>7. CASE S.kind[n] \notin Splits
  <2>1. PICK g \in S.edges : g[1] = n /\ Succ(S, n) = g[2]
    <3>1. OutOf(S, n) # {}
      BY <1>2, Degrees
    <3>2. QED
      BY <1>2, <1>7, <3>1, PredSucc DEF OutOf
  <2>2. CASE SoleOfBranch(S, n)
    <3>1. PICK x, j : x = f[1] /\ j = g[2]
      OBVIOUS
    <3>2. S.kind[x] \in Splits /\ S.kind[j] \in Joins /\ C = BranchDeleted(S, n, x, j)
      BY <1>5, <1>7, <2>1, <2>2, <3>1 DEF SoleOfBranch, Deleted
    <3>3. Alone(S, n, x, j, f, g)
      BY <1>5, <1>7, <2>1, <3>1, <3>2 DEF Alone
    <3>4. CASE Cardinality(Remaining(S, n, x)) >= 2
      <4>1. Shortened(C, S, n)
        BY <3>2, <3>4, BranchDeletedDraft
      <4>2. Cut(S, C, n) /\ Fewer(C, S, {n})
        BY <4>1 DEF Shortened, Cut, Fewer, Kept, Without
      <4>3. PICK r, p : /\ r = [i \in DOMAIN C.kind |-> rank[i]]
                        /\ p = [i \in DOMAIN C.kind |-> path[i]]
        OBVIOUS
      <4>4. NestedBy(C, r, p, open)
        BY <1>1, <3>3, <4>2, <4>3, CutNested
      <4>5. QED
        BY <1>2, <1>3, <4>2, <4>4, FewerWoven
    <3>5. CASE ~ (Cardinality(Remaining(S, n, x)) >= 2)
      <4>1. PICK F : F = AddEdge(Without(Without(S.edges, {n}), {x, j}),
                                 Pred(S, x), OnlyOf(Remaining(S, n, x))[2])
        OBVIOUS
      <4>2. PICK G : G = AddEdge(F, Tail(S, n, j), Succ(S, j))
        OBVIOUS
      <4>3. Reduced(C, S, {n, x, j}, G)
        BY <3>2, <3>5, <4>1, <4>2, BranchDeletedDraft
      <4>4. C.edges = G /\ F \subseteq G
        BY <4>2, <4>3 DEF Reduced, AddEdge
      <4>5. x \in DOMAIN S.kind /\ S.kind[x] \notin Joins /\ S.kind[x] # "START"
        BY <1>4, <3>1, <3>2 DEF Splits, Joins
      <4>6. PICK i \in S.edges : i[2] = x /\ Pred(S, x) = i[1]
        <5>1. Into(S, x) # {}
          BY <1>2, <4>5, Degrees
        <5>2. QED
          BY <1>2, <4>5, <5>1, PredSucc DEF Into
      <4>7. PICK l, t : /\ Remaining(S, n, x) = {l} /\ l \in Kept(S, {n}) /\ l[1] = x
                        /\ {e \in Kept(S, {n}) : e[2] = j} = {t} /\ t \in Kept(S, {n}) /\ t[2] = j
                        /\ OnlyOf(Remaining(S, n, x)) = l /\ Tail(S, n, j) = t[1]
        BY <1>1, <3>3, <3>5, OneLeft
      <4>8. l[2] # j /\ t \in S.edges
        <5>1. l[2] \in DOMAIN C.kind
          BY <1>3, <4>1, <4>4, <4>7, NewEdge
        <5>2. QED
          BY <4>3, <4>7, <5>1 DEF Reduced, Kept
      <4>9. i[1] \in DOMAIN C.kind /\ t[1] \in DOMAIN C.kind
        <5>1. i[1] \notin {n, x, j} /\ t[1] \notin {n, x, j}
          BY <1>1, <3>3, <4>6, <4>7, <4>8, AroundLeft
        <5>2. QED
          BY <1>4, <4>3, <4>6, <4>8, <5>1 DEF Reduced
      <4>10. S.kind[i[1]] # "XOR_SPLIT"
        BY <1>2, <1>3, <1>4, <4>3, <4>6, <4>9, StillTargeted
      <4>11. S.kind[t[1]] # "XOR_SPLIT"
        BY <1>2, <1>3, <1>4, <4>3, <4>7, <4>8, <4>9, StillTargeted
      <4>12. Dissolved(S, C, n, x, j)
        BY <1>3, <3>5, <4>1, <4>2, <4>3, <4>6, <4>7, <4>10, <4>11 DEF Dissolved, Reduced
      <4>13. \E r, p, o : NestedBy(C, r, p, o)
        BY <1>1, <3>3, <4>12, DissolvedNested
      <4>14. Fewer(C, S, {n, x, j})
        BY <4>3 DEF Fewer, Reduced
      <4>15. QED
        BY <1>2, <1>3, <4>13, <4>14, FewerWoven
    <3>6. QED
      BY <3>4, <3>5
  <2>3. CASE ~SoleOfBranch(S, n)
    <3>1. PICK edges : edges = AddEdge(Without(S.edges, {n}), f[1], g[2])
      OBVIOUS
    <3>2. C = Closed(S, {n}, f[1], g[2])
      BY <1>5, <1>7, <2>1, <2>3 DEF Deleted
    <3>3. Reduced(C, S, {n}, edges)
      BY <3>1, <3>2, ClosedDraft
    <3>4. f[1] \in DOMAIN C.kind
      <4>1. f[1] # n
        BY <1>2, <1>5 DEF Drawn, Ranked
      <4>2. QED
        BY <1>4, <3>3, <4>1 DEF Reduced
    <3>5. S.kind[f[1]] # "XOR_SPLIT"
      BY <1>2, <1>3, <1>4, <1>5, <3>3, <3>4, StillTargeted
    <3>6. \A e \in S.edges : (e[2] = n => e = f) /\ (e[1] = n => e = g)
      BY <1>2, <1>5, <1>7, <2>1, Degrees DEF Into, OutOf
    <3>7. Bypassed(S, C, n, f, g)
      BY <1>2, <1>5, <1>7, <2>1, <3>1, <3>3, <3>5, <3>6 DEF Bypassed, Reduced, Drawn
    <3>8. \E r, p, o : NestedBy(C, r, p, o)
      BY <1>2, <3>7, BypassedNested
    <3>9. Fewer(C, S, {n})
      BY <3>3 DEF Fewer, Reduced
    <3>10. QED
      BY <1>2, <1>3, <3>8, <3>9, FewerWoven
  <2>4. QED
    BY <2>2, <2>3
<1>8. QED
  BY <1>6, <1>7

LEMMA EmptyNested == \E rank, path, open : NestedBy(Empty, rank, path, open)
<1>1. START # END
  BY DEF START, END
<1>2. PICK k, e : k = Empty.kind /\ e = <<START, END, 0>>
  OBVIOUS
<1>3. k = [n \in {START, END} |-> IF n = START THEN "START" ELSE "END"] /\ Empty.edges = {e}
  BY <1>2 DEF Empty
<1>4. DOMAIN k = {START, END} /\ k[START] = "START" /\ k[END] = "END"
  BY <1>1, <1>3
<1>5. PICK rank : rank = [n \in {START, END} |-> IF n = START THEN 0 ELSE 1]
  OBVIOUS
<1>6. PICK path : path = [n \in {START, END} |-> {}]
  OBVIOUS
<1>7. PICK open : open = [n \in {} |-> n]
  OBVIOUS
<1>8. e[1] = START /\ e[2] = END /\ e[3] = 0
  BY <1>2
<1>9. /\ OfKinds(Empty, Joins) = {} /\ OfKinds(Empty, Splits) = {} /\ LaneEdges(Empty) = {}
      /\ NodesOfKind(Empty, "XOR_SPLIT") = {}
  BY <1>2, <1>3, <1>4, <1>8 DEF OfKinds, LaneEdges, NodesOfKind, Splits, Joins
<1>10. Ranked(Empty, rank)
  <2>1. rank[START] = 0 /\ rank[END] = 1
    BY <1>1, <1>5
  <2>2. rank \in [DOMAIN k -> Nat]
    BY <1>4, <1>5
  <2>3. QED
    BY <1>2, <1>3, <1>4, <1>8, <2>1, <2>2 DEF Ranked
<1>11. Laned(Empty, path)
  <2>1. path[START] = {} /\ path[END] = {}
    BY <1>6
  <2>2. path \in [DOMAIN k -> SUBSET LaneEdges(Empty)]
    BY <1>4, <1>6
  <2>3. Along(Empty, path, e) = {}
    BY <1>8, <1>9, <2>1 DEF Along
  <2>4. \A n \in OfKinds(Empty, {"START", "END"}) : path[n] = {}
    BY <1>2, <1>4, <2>1 DEF OfKinds
  <2>5. QED
    BY <1>2, <1>3, <1>8, <2>1, <2>2, <2>3, <2>4 DEF Laned
<1>12. Paired(Empty, path, open)
  BY <1>7, <1>9 DEF Paired
<1>13. Counted(Empty)
  <2>1. Between(Empty, START, END) = {e}
    BY <1>3, <1>8 DEF Between
  <2>2. Cardinality({e}) = 1
    BY FS_Singleton
  <2>3. QED
    BY <1>3, <1>8, <2>1, <2>2 DEF Counted
<1>14. Decisive(Empty)
  BY <1>9 DEF Decisive
<1>15. k \in [DOMAIN k -> Kinds]
  BY <1>3, <1>4 DEF Kinds
<1>16. QED
  BY <1>2, <1>10, <1>11, <1>12, <1>13, <1>14, <1>15 DEF NestedBy

LEMMA EmptyWoven ==
  ASSUME NEW m \in Nat, m > 0
  PROVE  Woven(Empty, m)
<1>1. PICK k : k = Empty.kind
  OBVIOUS
<1>2. k = [n \in {START, END} |-> IF n = START THEN "START" ELSE "END"]
  BY <1>1 DEF Empty
<1>3. START # END
  BY DEF START, END
<1>4. DOMAIN k = {START, END} /\ k[START] = "START" /\ k[END] = "END"
  BY <1>2, <1>3
<1>5. DOMAIN Empty.branch = DOMAIN Empty.disc
  BY DEF Empty
<1>6. START[2] = 0 /\ END[2] = 0
  BY DEF START, END
<1>7. Drew(Empty, m)
  BY <1>1, <1>4, <1>6 DEF Drew
<1>8. Founded(Empty)
  BY <1>1, <1>4, <1>5 DEF Founded, NodesOfKind
<1>9. QED
  BY <1>7, <1>8, EmptyNested DEF Woven

(* New nodes are added to those there were.                                *)
Added(C, S) ==
  /\ DOMAIN S.kind \subseteq DOMAIN C.kind /\ \A n \in DOMAIN S.kind : C.kind[n] = S.kind[n]
  /\ DOMAIN C.branch = DOMAIN C.disc

LEMMA AddedFounded ==
  ASSUME NEW S, NEW m, Woven(S, m), NEW C, Added(C, S)
  PROVE  Founded(C)
<1>1. PICK N, k : N = DOMAIN S.kind /\ k = C.kind
  OBVIOUS
<1>2. START \in N /\ S.kind[START] = "START" /\ END \in N /\ S.kind[END] = "END"
  BY <1>1 DEF Woven, Founded, NodesOfKind
<1>3. START \in DOMAIN k /\ k[START] = "START" /\ END \in DOMAIN k /\ k[END] = "END"
  BY <1>1, <1>2 DEF Added
<1>4. QED
  BY <1>1, <1>3 DEF Added, Founded, NodesOfKind

LEMMA SplicedWoven ==
  ASSUME NEW S, Draft(S), K2(S), NEW m \in Nat, Woven(S, m), NEW a \in Anchors(S), NEW w,
         NEW k \in {"ACTIVITY", "SUBPROCESS"}, NEW C, C = Spliced(S, a, <<w, m>>, k)
  PROVE  Draft(C) /\ Woven(C, m + 1)
<1>1. PICK n : n = <<w, m>>
  OBVIOUS
<1>2. PICK edges : edges = (S.edges \ OutOf(S, a)) \cup {<<a, n, 0>>, <<n, Succ(S, a), 0>>}
  OBVIOUS
<1>3. Draft(C) /\ Redrawn(C, S, With(S.kind, n, k), edges)
  BY <1>1, <1>2, SplicedDraft
<1>4. PICK N : N = DOMAIN S.kind
  OBVIOUS
<1>5. n[2] = m /\ \A i \in N : i[2] \in Nat /\ i[2] < m
  BY <1>1, <1>4 DEF Woven, Drew
<1>6. n \notin N
  BY <1>5
<1>7. DOMAIN C.kind = N \cup {n} /\ \A i \in N : C.kind[i] = S.kind[i]
  BY <1>3, <1>4, <1>6 DEF Redrawn, With
<1>8. Stepped(S, C, a, n, k)
  BY <1>2, <1>3, <1>4, <1>6 DEF Stepped, Redrawn, Draft, Shaped
<1>9. \E r, p, o : NestedBy(C, r, p, o)
  BY <1>8, WovenNest, SteppedNested DEF Draft
<1>10. Added(C, S)
  BY <1>3, <1>4, <1>7 DEF Added, Redrawn, Woven, Founded
<1>11. Drew(C, m + 1)
  BY <1>5, <1>7 DEF Drew
<1>12. QED
  BY <1>3, <1>9, <1>10, <1>11, AddedFounded DEF Woven

(* The same of a block, with or without a decision.                        *)
LEMMA BlockWoven ==
  ASSUME NEW S, Draft(S), K2(S), NEW m \in Nat, Woven(S, m), NEW a \in Anchors(S),
         NEW type \in Splits, NEW width \in Nat, NEW C, Draft(C),
         C.kind = BlockKinds(S, m, type, width), C.edges = BlockEdges(S, a, m, width),
         DOMAIN C.branch = DOMAIN C.disc
  PROVE  Woven(C, m + (width + 2))
<1>1. PICK x, j, B : x = <<"split", m>> /\ j = <<"join", m + 1>> /\ B = Bodies(m, width)
  OBVIOUS
<1>2. PICK N : N = DOMAIN S.kind
  OBVIOUS
<1>3. \A i \in N : i[2] \in Nat /\ i[2] < m
  BY <1>2 DEF Woven, Drew
<1>4. \A b \in B : b[1] = "act" /\ b[2] \in Nat /\ b[2] > m /\ b[2] < m + (width + 2)
  BY <1>1 DEF Bodies, Body
<1>5. x[1] = "split" /\ x[2] = m /\ j[1] = "join" /\ j[2] = m + 1
  BY <1>1
<1>6. x # j /\ x \notin B /\ j \notin B
  BY <1>4, <1>5
<1>7. x \notin N /\ j \notin N /\ \A b \in B : b \notin N
  BY <1>3, <1>4, <1>5
<1>8. C.kind = [n \in N \cup {x, j} \cup B |->
                  CASE n = x -> type
                    [] n = j -> IF type = "AND_SPLIT" THEN "AND_JOIN" ELSE "XOR_JOIN"
                    [] n \in N -> S.kind[n]
                    [] OTHER -> "ACTIVITY"]
  BY <1>1, <1>2 DEF BlockKinds
<1>9. PICK kind : kind = C.kind
  OBVIOUS
<1>10. /\ DOMAIN kind = N \cup ({x, j} \cup B) /\ kind = [n \in DOMAIN kind |-> kind[n]]
       /\ \A n \in N : kind[n] = S.kind[n]
       /\ \A b \in B : kind[b] = "ACTIVITY"
       /\ kind[x] = type /\ kind[j] = IF type = "AND_SPLIT" THEN "AND_JOIN" ELSE "XOR_JOIN"
  BY <1>6, <1>7, <1>8, <1>9
<1>11. C.edges = (S.edges \ OutOf(S, a)) \cup {<<a, x, 0>>, <<j, Succ(S, a), 0>>}
                 \cup {<<x, b, 0>> : b \in B} \cup {<<b, j, 0>> : b \in B}
  <2>1. /\ {<<x, b, 0>> : b \in B} = {<<x, Body(m, i), 0>> : i \in 1 .. width}
        /\ {<<b, j, 0>> : b \in B} = {<<Body(m, i), j, 0>> : i \in 1 .. width}
    BY <1>1 DEF Bodies
  <2>2. QED
    BY <1>1, <2>1 DEF BlockEdges
<1>12. Boxed(S, C, a, x, j, B)
  <2>1. <<kind[x], kind[j]>> \in {<<"AND_SPLIT", "AND_JOIN">>, <<"XOR_SPLIT", "XOR_JOIN">>}
    BY <1>10 DEF Splits
  <2>2. IsFiniteSet(C.edges)
    BY DEF Draft, Shaped
  <2>3. QED
    BY <1>2, <1>6, <1>7, <1>9, <1>10, <1>11, <2>1, <2>2 DEF Boxed
<1>13. \E r, p, o : NestedBy(C, r, p, o)
  BY <1>12, WovenNest, BoxedNested DEF Draft
<1>14. Added(C, S)
  BY <1>2, <1>9, <1>10 DEF Added
<1>15. Drew(C, m + (width + 2))
  <2>1. ASSUME NEW i \in DOMAIN kind PROVE i[2] \in Nat /\ i[2] < m + (width + 2)
    BY <1>3, <1>4, <1>5, <1>10, <2>1
  <2>2. QED
    BY <1>9, <2>1 DEF Drew
<1>16. QED
  BY <1>13, <1>14, <1>15, AddedFounded DEF Woven

-----------------------------------------------------------------------------
(* The three ways in which a request changes the store: candidate C is     *)
(* stored under id.                                                        *)
Stores(id, C) ==
  /\ left > 0 /\ left' = left - 1
  /\ next' \in Nat /\ next' >= next
  /\ stored' = With(stored, id, C)
  /\ Shaped(C) /\ Correct(C) /\ Woven(C, next')

Drafted(id, C) ==
  /\ Stores(id, C)
  /\ C.state = "ENTWURF"
  /\ \/ id \in DOMAIN stored /\ Editable(id)
     \/ id = next /\ next' > next

Released(id, C) ==
  /\ Stores(id, C)
  /\ id \in DOMAIN stored /\ Editable(id) /\ TargetsOK(id, stored[id])
  /\ C = [stored[id] EXCEPT !.state = "RELEASED"]

Shelved(id, C) ==
  /\ Stores(id, C)
  /\ id \in DOMAIN stored
  /\ C = [stored[id] EXCEPT !.library = C.library]

(* What all requests rely on: the rules hold, and what no rule looks at.   *)
WellKept ==
  /\ next \in Nat /\ left \in Nat
  /\ \A id \in DOMAIN stored :
       Shaped(stored[id]) /\ Correct(stored[id]) /\ Woven(stored[id], next)

LEMMA CommitDraft ==
  ASSUME WellKept, NEW id \in DOMAIN stored, Editable(id), NEW C, Draft(C), NEW n \in Nat,
         Correct(C) => Woven(C, next + n), Commit(id, C, n)
  PROVE  Drafted(id, C)
BY DEF Commit, Drafted, Stores, Draft, WellKept

LEMMA CommitNew ==
  ASSUME WellKept, NEW C, Draft(C), Woven(C, next + 1), Commit(next, C, 1)
  PROVE  Drafted(next, C)
BY DEF Commit, Drafted, Stores, Draft, WellKept

LEMMA IsDraft ==
  ASSUME WellKept, NEW id \in DOMAIN stored, Editable(id)
  PROVE  /\ Draft(stored[id]) /\ Woven(stored[id], next)
         /\ K2(stored[id]) /\ K7(stored[id], Values)
BY DEF WellKept, Editable, Draft, Correct, Valid

(* A request that leaves the graph alone.                                  *)
LEMMA CommitSame ==
  ASSUME WellKept, NEW id \in DOMAIN stored, Editable(id), NEW C, Draft(C),
         SameGraph(C, stored[id]), NEW n \in Nat, Commit(id, C, n)
  PROVE  Drafted(id, C)
<1>1. PICK k : k = next + n
  OBVIOUS
<1>2. next \in Nat /\ k \in Nat /\ k >= next /\ Woven(stored[id], next)
  BY <1>1 DEF WellKept
<1>3. Woven(C, k)
  BY <1>2, WovenSame
<1>4. QED
  BY <1>1, <1>3, CommitDraft

LEMMA CreateDrafts ==
  ASSUME WellKept, CreateSchema
  PROVE  \E id, C : Drafted(id, C)
<1>1. next + 1 \in Nat /\ next + 1 > 0
  BY DEF WellKept
<1>2. Woven(Empty, next + 1)
  BY <1>1, EmptyWoven
<1>3. QED
  BY <1>2, CommitNew, EmptyDraft DEF CreateSchema

LEMMA BranchesCounted ==
  ASSUME NEW p
  PROVE  Branches(p) \in Nat
<1>1. IsFiniteSet({p[v] : v \in Values})
  BY FiniteImage, EditorAssumption
<1>2. QED
  BY <1>1, FS_CardinalityType DEF Branches

LEMMA EditingDrafts ==
  ASSUME WellKept, NEW id \in DOMAIN stored, Editing(id)
  PROVE  \E C : Drafted(id, C)
<1>1. Editable(id)
  BY DEF Editing, SerialInsert, ParallelInsert, ConditionalInsert, DeleteNode, ConnectData,
         SetForm, DeleteForm
<1>2. PICK S : S = stored[id]
  OBVIOUS
<1>3. PICK m : m = next
  OBVIOUS
<1>4. /\ Draft(S) /\ K2(S) /\ K7(S, Values)
      /\ m \in Nat /\ Woven(S, m)
  BY <1>1, <1>2, <1>3, IsDraft DEF WellKept
<1>5. SUFFICES \E C : \E n \in Nat :
                 Draft(C) /\ Commit(id, C, n) /\ (Correct(C) => Woven(C, m + n))
  BY <1>1, <1>3, CommitDraft
<1>6. ASSUME NEW C, NEW n \in Nat, SameGraph(C, S) PROVE Woven(C, m + n)
  <2>1. m + n \in Nat /\ m + n >= m
    BY <1>4
  <2>2. QED
    BY <1>4, <1>6, <2>1, WovenSame
<1>7. CASE SerialInsert(id)
  <2>1. PICK a, C : /\ a \in Anchors(S) /\ C = Spliced(S, a, <<"act", m>>, "ACTIVITY")
                    /\ Commit(id, C, 1)
    BY <1>2, <1>3, <1>7 DEF SerialInsert
  <2>2. Draft(C) /\ Woven(C, m + 1)
    BY <1>4, <2>1, SplicedWoven
  <2>3. QED
    BY <2>1, <2>2
<1>8. CASE ParallelInsert(id)
  <2>1. PICK a, w, C : /\ a \in Anchors(S) /\ w \in Widths
                       /\ C = Block(S, a, m, "AND_SPLIT", w) /\ Commit(id, C, w + 2)
    BY <1>2, <1>3, <1>8 DEF ParallelInsert
  <2>2. w \in Nat
    BY <2>1, EditorAssumption
  <2>3. /\ Draft(C) /\ w + 2 \in Nat
        /\ Redrawn(C, S, BlockKinds(S, m, "AND_SPLIT", w), BlockEdges(S, a, m, w))
    BY <1>4, <2>1, <2>2, BlockDraft
  <2>4. DOMAIN C.branch = DOMAIN C.disc
    BY <1>4, <2>3 DEF Redrawn, Woven, Founded
  <2>5. /\ C.kind = BlockKinds(S, m, "AND_SPLIT", w) /\ C.edges = BlockEdges(S, a, m, w)
        /\ a \in Anchors(S) /\ "AND_SPLIT" \in Splits
    BY <2>1, <2>3 DEF Redrawn, Splits
  <2>6. Woven(C, m + (w + 2))
    BY <1>4, <2>2, <2>3, <2>4, <2>5, BlockWoven
  <2>7. QED
    BY <2>1, <2>3, <2>6
<1>9. CASE ConditionalInsert(id)
  <2>1. PICK a, x, p, C : /\ a \in Anchors(S) /\ C = Conditional(S, a, m, x, p)
                          /\ Commit(id, C, Branches(p) + 2)
    BY <1>2, <1>3, <1>9 DEF ConditionalInsert
  <2>2. PICK w \in Nat : w = Branches(p)
    BY BranchesCounted
  <2>3. PICK B : B = Block(S, a, m, "XOR_SPLIT", w)
    OBVIOUS
  <2>4. /\ Draft(C) /\ C.kind = B.kind /\ C.edges = B.edges
        /\ DOMAIN C.disc = DOMAIN B.disc \cup {<<"split", m>>}
        /\ DOMAIN C.branch = DOMAIN B.branch \cup {<<"split", m>>}
    BY <1>4, <2>1, <2>2, <2>3, ConditionalDraft
  <2>5. Redrawn(B, S, BlockKinds(S, m, "XOR_SPLIT", w), BlockEdges(S, a, m, w))
    BY <1>4, <2>3, BlockDraft
  <2>6. DOMAIN C.branch = DOMAIN C.disc
    BY <1>4, <2>4, <2>5 DEF Redrawn, Woven, Founded
  <2>7. /\ C.kind = BlockKinds(S, m, "XOR_SPLIT", w) /\ C.edges = BlockEdges(S, a, m, w)
        /\ a \in Anchors(S) /\ "XOR_SPLIT" \in Splits
    BY <2>1, <2>4, <2>5 DEF Redrawn, Splits
  <2>8. Woven(C, m + (w + 2))
    BY <1>4, <2>2, <2>4, <2>6, <2>7, BlockWoven
  <2>9. QED
    BY <2>1, <2>2, <2>4, <2>8
<1>10. CASE DeleteNode(id)
  <2>1. PICK n, C : /\ n \in DOMAIN S.kind /\ S.kind[n] \notin Joins \cup {"START", "END"}
                    /\ C = Deleted(S, n) /\ Commit(id, C, 0)
    BY <1>2, <1>10 DEF DeleteNode
  <2>2. Draft(C)
    BY <1>4, <2>1, DeletedDraft
  <2>3. Correct(C) => Woven(C, m)
    BY <1>4, <2>1, DeletedWoven DEF Correct
  <2>4. m + 0 = m
    BY <1>4
  <2>5. QED
    BY <2>1, <2>2, <2>3, <2>4
<1>11. CASE ConnectData(id)
  <2>1. PICK n \in NodesOfKind(S, "ACTIVITY"), x \in S.elems, k \in Accesses :
          Commit(id, [S EXCEPT ![k] = @ \cup {<<n, x>>}], 0)
    BY <1>2, <1>11 DEF ConnectData
  <2>2. k \in Plain
    BY EditorAssumption, FieldsAre DEF Plain, Graph
  <2>3. PICK v : v = S[k] \cup {<<n, x>>}
    OBVIOUS
  <2>4. PICK C : C = [S EXCEPT ![k] = v]
    OBVIOUS
  <2>5. Draft(C) /\ SameGraph(C, S)
    BY <1>4, <2>2, <2>4, OneField
  <2>6. QED
    BY <1>6, <2>1, <2>3, <2>4, <2>5
<1>12. CASE SetForm(id)
  <2>1. PICK n, xs : xs \subseteq S.elems /\ \E f : Commit(id, Masked(S, n, f), Cardinality(xs))
    BY <1>2, <1>12 DEF SetForm
  <2>2. PICK f : Commit(id, Masked(S, n, f), Cardinality(xs))
    BY <2>1
  <2>3. Cardinality(xs) \in Nat
    <3>1. IsFiniteSet(S.elems)
      BY <1>4 DEF Draft, Shaped
    <3>2. QED
      BY <2>1, <3>1, FS_Subset, FS_CardinalityType
  <2>4. Draft(Masked(S, n, f)) /\ SameGraph(Masked(S, n, f), S)
    BY <1>4, MaskedDraft
  <2>5. QED
    BY <1>6, <2>2, <2>3, <2>4
<1>13. CASE DeleteForm(id)
  <2>1. PICK n : Commit(id, [Unconnected(S, n, DOMAIN S.forms[n]) EXCEPT
                               !.forms = [i \in DOMAIN @ \ {n} |-> @[i]]], 0)
    BY <1>2, <1>13 DEF DeleteForm
  <2>2. PICK U : U = Unconnected(S, n, DOMAIN S.forms[n])
    OBVIOUS
  <2>3. Draft(U) /\ SameGraph(U, S)
    BY <1>4, <2>2, UnconnectedDraft
  <2>4. PICK v : v = [i \in DOMAIN U.forms \ {n} |-> U.forms[i]]
    OBVIOUS
  <2>5. PICK C : C = [U EXCEPT !["forms"] = v]
    OBVIOUS
  <2>6. "forms" \in Plain
    BY FieldsAre DEF Plain, Graph
  <2>7. Draft(C) /\ SameGraph(C, U)
    BY <2>3, <2>5, <2>6, OneField
  <2>8. Woven(C, m + 0)
    BY <1>6, <2>3, <2>7 DEF SameGraph
  <2>9. QED
    BY <2>1, <2>2, <2>4, <2>5, <2>7, <2>8
<1>14. QED
  BY <1>7, <1>8, <1>9, <1>10, <1>11, <1>12, <1>13 DEF Editing

LEMMA ComposingDrafts ==
  ASSUME WellKept, NEW id \in DOMAIN stored, Composing(id)
  PROVE  \E C : Drafted(id, C)
<1>1. Editable(id)
  BY DEF Composing, InsertSubprocess, ConvertActivity, SetBinding
<1>2. PICK S : S = stored[id]
  OBVIOUS
<1>3. PICK m : m = next
  OBVIOUS
<1>4. Draft(S) /\ K2(S) /\ m \in Nat /\ Woven(S, m)
  BY <1>1, <1>2, <1>3, IsDraft DEF WellKept
<1>5. \E T, n : \E k \in Nat : Draft(T) /\ Woven(T, m + k) /\ Bind(id, T, n, k)
  <2>1. CASE InsertSubprocess(id)
    <3>1. PICK a, T : /\ a \in Anchors(S) /\ T = Spliced(S, a, <<"sub", m>>, "SUBPROCESS")
                      /\ Bind(id, T, <<"sub", m>>, 1)
      BY <1>2, <1>3, <2>1 DEF InsertSubprocess
    <3>2. Draft(T) /\ Woven(T, m + 1)
      BY <1>4, <3>1, SplicedWoven
    <3>3. QED
      BY <3>1, <3>2
  <2>2. CASE ConvertActivity(id)
    <3>1. PICK n \in NodesOfKind(S, "ACTIVITY") :
            Bind(id, [Stripped(S, n) EXCEPT !.kind[n] = "SUBPROCESS"], n, 0)
      BY <1>2, <2>2 DEF ConvertActivity
    <3>2. PICK T : T = Stripped(S, n)
      OBVIOUS
    <3>3. Draft(T) /\ SameGraph(T, S)
      BY <1>4, <3>2, StrippedDraft
    <3>4. PICK kind : kind = [S.kind EXCEPT ![n] = "SUBPROCESS"]
      OBVIOUS
    <3>5. PICK C : C = [T EXCEPT !.kind = kind]
      OBVIOUS
    <3>6. Keeps(C, T) /\ Redrawn(C, T, kind, T.edges)
      BY <3>3, <3>5, FieldsAre DEF Draft, Shaped, Fields, Keeps, SameTimes, Redrawn
    <3>7. Draft(C)
      BY <3>3, <3>4, <3>6, DraftIf DEF Draft, Shaped, Redrawn, SameGraph
    <3>8. PICK K : K = DOMAIN S.kind
      OBVIOUS
    <3>9. S.kind \in [K -> Kinds]
      BY <1>4, <3>8 DEF Woven, NestedBy
    <3>10. kind \in [K -> Kinds] /\ \A i \in K : kind[i] = S.kind[i] \/ (i = n /\ kind[i] = "SUBPROCESS")
      BY <3>4, <3>8, <3>9 DEF Kinds
    <3>11. S.kind[n] = "ACTIVITY"
      BY <3>1 DEF NodesOfKind
    <3>12. SameFlow(S, C)
      BY <3>3, <3>6, <3>8, <3>10, <3>11 DEF SameFlow, Redrawn, SameGraph
    <3>13. m + 0 \in Nat /\ m + 0 >= m
      BY <1>4
    <3>14. Woven(C, m + 0)
      BY <1>4, <3>3, <3>6, <3>12, <3>13, FlowWoven DEF Redrawn, SameGraph
    <3>15. Bind(id, C, n, 0)
      BY <3>1, <3>2, <3>3, <3>4, <3>5 DEF SameGraph
    <3>16. QED
      BY <3>7, <3>14, <3>15
  <2>3. CASE SetBinding(id)
    <3>1. m + 0 = m
      BY <1>4
    <3>2. QED
      BY <1>2, <1>4, <2>3, <3>1 DEF SetBinding
  <2>4. QED
    BY <2>1, <2>2, <2>3 DEF Composing
<1>6. PICK T, n, k : k \in Nat /\ Draft(T) /\ Woven(T, m + k) /\ Bind(id, T, n, k)
  BY <1>5
<1>7. PICK t, outs : Commit(id, Bound(T, n, t, stored[t].version, outs), k)
  BY <1>6 DEF Bind
<1>8. PICK C : C = Bound(T, n, t, stored[t].version, outs)
  OBVIOUS
<1>9. Draft(C) /\ SameGraph(C, T)
  BY <1>6, <1>8, BoundDraft
<1>10. m + k \in Nat /\ m + k >= m + k
  BY <1>4, <1>6
<1>11. Woven(C, m + k)
  BY <1>6, <1>9, <1>10, WovenSame
<1>12. QED
  BY <1>1, <1>3, <1>6, <1>7, <1>8, <1>9, <1>11, CommitDraft

(* The requests that declare and attach change a field of the draft.       *)
Sets(id, k, v) == Change(id, [stored[id] EXCEPT ![k] = v])

LEMMA SetsDraft ==
  ASSUME WellKept, NEW id \in DOMAIN stored, NEW k \in Fields \ (Graph \cup {"state"}), NEW v,
         Sets(id, k, v), Shaped(stored[id]) => Shaped([stored[id] EXCEPT ![k] = v])
  PROVE  \E C : Drafted(id, C)
<1>1. PICK S : S = stored[id]
  OBVIOUS
<1>2. PICK C : C = [S EXCEPT ![k] = v]
  OBVIOUS
<1>3. Editable(id) /\ Commit(id, C, 0)
  BY <1>1, <1>2 DEF Sets, Change
<1>4. Draft(S)
  BY <1>1, <1>3, IsDraft
<1>5. Shaped(C)
  BY <1>1, <1>2, <1>4 DEF Draft
<1>6. C.state = "ENTWURF" /\ SameGraph(C, S)
  BY <1>2, <1>4, FieldsAre DEF Draft, Shaped, Fields, Graph, SameGraph
<1>7. QED
  BY <1>1, <1>3, <1>5, <1>6, CommitSame DEF Draft

LEMMA SetsPlain ==
  ASSUME WellKept, NEW id \in DOMAIN stored, NEW k \in Plain, NEW v, Sets(id, k, v)
  PROVE  \E C : Drafted(id, C)
<1>1. Draft(stored[id]) => Draft([stored[id] EXCEPT ![k] = v])
  BY OneField
<1>2. Draft(stored[id])
  BY IsDraft DEF Sets, Change
<1>3. Shaped([stored[id] EXCEPT ![k] = v])
  BY <1>1, <1>2 DEF Draft
<1>4. k \in Fields \ (Graph \cup {"state"})
  BY DEF Plain
<1>5. QED
  BY <1>3, <1>4, SetsDraft

LEMMA SameStores ==
  ASSUME WellKept, NEW id \in DOMAIN stored, NEW C, Shaped(C), SameGraph(C, stored[id]),
         Commit(id, C, 0)
  PROVE  Stores(id, C)
<1>1. next \in Nat /\ next >= next /\ Woven(stored[id], next)
  BY DEF WellKept
<1>2. Woven(C, next)
  BY <1>1, WovenSame
<1>3. next' = next
  BY DEF Commit, WellKept
<1>4. QED
  BY <1>2, <1>3 DEF Commit, Stores, WellKept

LEMMA AskedShape ==
  ASSUME WellKept, NEW id \in DOMAIN stored, Asked(id)
  PROVE  \E C : Drafted(id, C) \/ Shelved(id, C)
<1>0. {"elems", "times", "deadline"} \subseteq Fields \ (Graph \cup {"state"})
  BY FieldsAre DEF Graph
<1>1. \A k \in Plain : \A v : Sets(id, k, v) => \E C : Drafted(id, C)
  BY SetsPlain
<1>2. {"conns", "query", "tmpls", "services", "staffed", "notes", "links"} \subseteq Plain
  BY FieldsAre DEF Plain, Graph
<1>3. CASE AddDataElement(id)
  <2>1. PICK x : Change(id, [stored[id] EXCEPT !.elems = @ \cup {x}])
    BY <1>3 DEF AddDataElement
  <2>2. PICK v : v = stored[id].elems \cup {x}
    OBVIOUS
  <2>3. Sets(id, "elems", v)
    BY <2>1, <2>2 DEF Sets
  <2>4. ASSUME NEW S, S = stored[id], Shaped(S) PROVE Shaped([S EXCEPT !["elems"] = v])
    <3>1. PICK C : C = [S EXCEPT !["elems"] = v]
      OBVIOUS
    <3>2. C.elems = v /\ IsFiniteSet(v) /\ SameTimes(C, S)
      BY <2>2, <2>4, <3>1, FieldsAre, FS_AddElement DEF Shaped, Fields, SameTimes
    <3>3. Timed(C)
      BY <2>4, <3>2, TimedSame DEF Shaped
    <3>4. QED
      BY <2>4, <3>1, <3>2, <3>3, FieldsAre DEF Shaped, Fields
  <2>5. QED
    BY <1>0, <2>3, <2>4, SetsDraft
<1>4. CASE RegisterConnector(id)
  <2>1. \E v : Sets(id, "conns", v)
    BY <1>4 DEF RegisterConnector, Sets
  <2>2. QED
    BY <1>1, <1>2, <2>1
<1>5. CASE BindExternalData(id) \/ BindSqlSelect(id) \/ BindSqlWrite(id)
  <2>1. PICK x, kind, c, from : Change(id, Queried(stored[id], x, kind, c, from))
    BY <1>5 DEF BindExternalData, BindSqlSelect, BindSqlWrite
  <2>2. \E v : Sets(id, "query", v)
    BY <2>1 DEF Queried, Sets
  <2>3. QED
    BY <1>1, <1>2, <2>2
<1>6. CASE AddActivityTemplate(id)
  <2>1. \E v : Sets(id, "tmpls", v)
    BY <1>6 DEF AddActivityTemplate, Sets
  <2>2. QED
    BY <1>1, <1>2, <2>1
<1>7. CASE AssignService(id)
  <2>1. \E v : Sets(id, "services", v)
    BY <1>7 DEF AssignService, Sets
  <2>2. QED
    BY <1>1, <1>2, <2>1
<1>8. CASE SetAutomation(id)
  <2>1. PICK n, b : Change(id, [stored[id] EXCEPT !.services[n] = b])
    BY <1>8 DEF SetAutomation
  <2>2. PICK S : S = stored[id]
    OBVIOUS
  <2>3. PICK v : v = [S.services EXCEPT ![n] = b]
    OBVIOUS
  <2>4. Shaped(S) /\ "services" \in Fields
    BY <1>2, <2>2 DEF WellKept, Plain
  <2>5. [S EXCEPT !.services[n] = b] = [S EXCEPT !["services"] = v]
    BY <2>3, <2>4 DEF Shaped, Fields
  <2>6. Sets(id, "services", v)
    BY <2>1, <2>2, <2>5 DEF Sets
  <2>7. QED
    BY <1>1, <1>2, <2>6
<1>9. CASE AssignStaffRule(id)
  <2>1. \E v : Sets(id, "staffed", v)
    BY <1>9 DEF AssignStaffRule, Sets
  <2>2. QED
    BY <1>1, <1>2, <2>1
<1>10. CASE SetTimeConstraint(id)
  <2>1. PICK S : S = stored[id]
    OBVIOUS
  <2>2. PICK n, v : /\ Sets(id, "times", v)
                    /\ \/ \E d \in Durations : v = With(S.times, n, d)
                       \/ v = [m \in DOMAIN S.times \ {n} |-> S.times[m]]
    BY <1>10, <2>1 DEF SetTimeConstraint, Sets
  <2>3. ASSUME Shaped(S) PROVE Shaped([S EXCEPT !["times"] = v])
    <3>1. PICK C : C = [S EXCEPT !["times"] = v]
      OBVIOUS
    <3>2. \A m \in DOMAIN v : v[m] \in Nat
      <4>1. \A m \in DOMAIN S.times : S.times[m] \in Nat
        BY <2>3 DEF Shaped, Timed
      <4>2. Durations \subseteq Nat
        BY AnnotationAssumption
      <4>3. QED
        BY <2>2, <4>1, <4>2 DEF With
    <3>3. C.times = v /\ C.deadline = S.deadline
      BY <2>3, <3>1, FieldsAre DEF Shaped, Fields
    <3>4. Timed(C)
      BY <2>3, <3>2, <3>3 DEF Shaped, Timed
    <3>5. QED
      BY <2>3, <3>1, <3>4, FieldsAre DEF Shaped, Fields
  <2>4. QED
    BY <1>0, <2>1, <2>2, <2>3, SetsDraft
<1>11. CASE SetDeadline(id)
  <2>1. PICK S : S = stored[id]
    OBVIOUS
  <2>2. PICK d \in Deadlines : Sets(id, "deadline", d)
    BY <1>11 DEF SetDeadline, Sets
  <2>3. ASSUME Shaped(S) PROVE Shaped([S EXCEPT !["deadline"] = d])
    <3>1. PICK C : C = [S EXCEPT !["deadline"] = d]
      OBVIOUS
    <3>2. C.times = S.times /\ C.deadline = d
      BY <2>3, <3>1, FieldsAre DEF Shaped, Fields
    <3>3. Timed(C)
      BY <2>3, <3>2, AnnotationAssumption DEF Shaped, Timed
    <3>4. QED
      BY <2>3, <3>1, <3>3, FieldsAre DEF Shaped, Fields
  <2>4. QED
    BY <1>0, <2>1, <2>2, <2>3, SetsDraft
<1>12. CASE SetNote(id)
  <2>1. \E v : Sets(id, "notes", v)
    BY <1>12 DEF SetNote, Sets
  <2>2. QED
    BY <1>1, <1>2, <2>1
<1>13. CASE LinkFollowUp(id)
  <2>1. PICK t, version :
          LET C == [stored[id] EXCEPT !.links = With(@, next, [target |-> t, version |-> version])]
          IN Editable(id) /\ Commit(id, C, 1)
    BY <1>13 DEF LinkFollowUp
  <2>2. PICK v : v = With(stored[id].links, next, [target |-> t, version |-> version])
    OBVIOUS
  <2>3. PICK C : C = [stored[id] EXCEPT !["links"] = v]
    OBVIOUS
  <2>4. Editable(id) /\ Commit(id, C, 1)
    BY <2>1, <2>2, <2>3
  <2>5. Draft(C) /\ SameGraph(C, stored[id])
    BY <1>2, <2>3, <2>4, IsDraft, OneField
  <2>6. QED
    BY <2>4, <2>5, CommitSame
<1>14. CASE UnlinkFollowUp(id)
  <2>1. \E v : Sets(id, "links", v)
    BY <1>14 DEF UnlinkFollowUp, Sets
  <2>2. QED
    BY <1>1, <1>2, <2>1
<1>15. CASE SetLibrary(id)
  <2>1. PICK flag : Commit(id, [stored[id] EXCEPT !.library = flag], 0)
    BY <1>15 DEF SetLibrary
  <2>2. PICK S : S = stored[id]
    OBVIOUS
  <2>3. PICK C : C = [S EXCEPT !.library = flag]
    OBVIOUS
  <2>4. Shaped(S)
    BY <2>2 DEF WellKept
  <2>5. Keeps(C, S) /\ SameGraph(C, S) /\ C.library = flag
    BY <2>3, <2>4, FieldsAre DEF Shaped, Fields, Keeps, SameGraph, SameTimes
  <2>6. Shaped(C)
    <3>1. Timed(C)
      BY <2>4, <2>5, TimedSame DEF Shaped, Keeps
    <3>2. QED
      BY <2>4, <2>5, <3>1 DEF Shaped, Keeps, Fields, SameGraph
  <2>7. Stores(id, C)
    BY <2>1, <2>2, <2>3, <2>5, <2>6, SameStores
  <2>8. QED
    BY <2>2, <2>3, <2>5, <2>7 DEF Shelved
<1>16. QED
  BY <1>3, <1>4, <1>5, <1>6, <1>7, <1>8, <1>9, <1>10, <1>11, <1>12, <1>13, <1>14, <1>15 DEF Asked

LEMMA LifecycleShape ==
  ASSUME WellKept, NEW id \in DOMAIN stored, Release(id) \/ NewRevision(id)
  PROVE  \E new, C : Drafted(new, C) \/ Released(new, C)
<1>1. PICK S : S = stored[id]
  OBVIOUS
<1>2. Shaped(S)
  BY <1>1 DEF WellKept
<1>3. CASE Release(id)
  <2>1. PICK C : C = [S EXCEPT !.state = "RELEASED"]
    OBVIOUS
  <2>2. Editable(id) /\ TargetsOK(id, S) /\ Commit(id, C, 0)
    BY <1>1, <1>3, <2>1 DEF Release
  <2>3. /\ C = [f \in Fields |-> C[f]] /\ C.state = "RELEASED"
        /\ SameGraph(C, S) /\ C.elems = S.elems /\ SameTimes(C, S)
    BY <1>2, <2>1, FieldsAre DEF Shaped, Fields, SameGraph, SameTimes
  <2>4. Shaped(C)
    <3>1. Timed(C)
      BY <1>2, <2>3, TimedSame DEF Shaped
    <3>2. QED
      BY <1>2, <2>3, <3>1 DEF Shaped, Fields, SameGraph
  <2>5. Stores(id, C)
    BY <1>1, <2>2, <2>3, <2>4, SameStores
  <2>6. QED
    BY <1>1, <2>1, <2>2, <2>5 DEF Released
<1>4. CASE NewRevision(id)
  <2>1. PICK C : C = [S EXCEPT !.state = "ENTWURF", !.version = @ + 1]
    OBVIOUS
  <2>2. Commit(next, C, 1)
    BY <1>1, <1>4, <2>1 DEF NewRevision, Revision
  <2>3. /\ C = [f \in Fields |-> C[f]] /\ C.state = "ENTWURF"
        /\ SameGraph(C, S) /\ C.elems = S.elems /\ SameTimes(C, S)
    BY <1>2, <2>1, FieldsAre DEF Shaped, Fields, SameGraph, SameTimes
  <2>4. Draft(C)
    <3>1. Timed(C)
      BY <1>2, <2>3, TimedSame DEF Shaped
    <3>2. QED
      BY <1>2, <2>3, <3>1 DEF Draft, Shaped, Fields, SameGraph
  <2>5. next \in Nat /\ next + 1 \in Nat /\ next + 1 >= next /\ Woven(S, next)
    BY <1>1 DEF WellKept
  <2>6. Woven(C, next + 1)
    BY <2>3, <2>5, WovenSame
  <2>7. QED
    BY <2>2, <2>4, <2>6, CommitNew
<1>5. QED
  BY <1>3, <1>4

(* So every request does: those of module SchemaOps alone mark nothing for *)
(* the library.                                                            *)
LEMMA NextShape ==
  ASSUME WellKept, Next
  PROVE  \E id, C : Drafted(id, C) \/ Released(id, C)
BY CreateDrafts, EditingDrafts, ComposingDrafts, LifecycleShape DEF Next

LEMMA AnnNextShape ==
  ASSUME WellKept, AnnNext
  PROVE  \E id, C : Drafted(id, C) \/ Released(id, C) \/ Shelved(id, C)
<1>1. ASSUME NEW id \in DOMAIN stored, Around(id)
      PROVE  Editing(id) \/ Composing(id) \/ Release(id) \/ NewRevision(id)
  BY <1>1 DEF Around, Editing, Composing
<1>2. QED
  BY <1>1, CreateDrafts, EditingDrafts, ComposingDrafts, LifecycleShape, AskedShape DEF AnnNext

-----------------------------------------------------------------------------
(* Releases are ordered: what a released schema calls or starts has been   *)
(* released before it, and resolves still.  The number of requests left    *)
(* when a schema is released goes down from one release to the next.       *)
Order(store, rank, bound) ==
  /\ rank \in [DOMAIN store -> Nat]
  /\ \A id \in DOMAIN store : store[id].state = "RELEASED" =>
       /\ rank[id] >= bound
       /\ \A b \in Bindings(store[id]) \cup Links(store[id]) :
            /\ ResolvesIn(store, b) /\ store[b.target].state = "RELEASED"
            /\ rank[b.target] > rank[id]

StoreInv ==
  /\ WellKept
  /\ \A id \in DOMAIN stored : id \in Nat /\ id < next
  /\ \E rank : Order(stored, rank, left)

LEMMA Stored ==
  ASSUME NEW id, NEW C, Stores(id, C)
  PROVE  /\ DOMAIN stored' = DOMAIN stored \cup {id} /\ stored'[id] = C
         /\ \A x \in DOMAIN stored : x # id => stored'[x] = stored[x]
BY DEF Stores, With

LEMMA StartsInOrder == Init => StoreInv
<1> SUFFICES ASSUME NEW s \in Starts, stored = s.stored, next = s.next, left = s.left
             PROVE  StoreInv
  BY DEF Init
<1>1. PICK D : D = DOMAIN stored
  OBVIOUS
<1>2. /\ next \in Nat /\ left \in Nat
      /\ \A id \in D : id \in Nat /\ id < next /\ Shaped(stored[id]) /\ Correct(stored[id])
      /\ \A id \in D : Founded(stored[id]) /\ Drew(stored[id], next) /\ BlocksNest(stored[id])
      /\ \E age \in [D -> 0 .. Cardinality(D)] :
           \A id \in D : stored[id].state = "RELEASED" => Relies(stored, age, id)
  BY <1>1, StartsAssumption
<1>3. PICK age \in [D -> 0 .. Cardinality(D)] :
        \A id \in D : stored[id].state = "RELEASED" => Relies(stored, age, id)
  BY <1>2
<1>4. Cardinality(D) \in Nat
  <2>1. D \subseteq 0 .. next
    BY <1>2
  <2>2. next \in Int /\ 0 \in Int
    BY <1>2
  <2>3. IsFiniteSet(0 .. next)
    BY <2>2, FS_Interval
  <2>4. QED
    BY <2>1, <2>3, FS_Subset, FS_CardinalityType
<1>5. \A id \in D : age[id] \in Nat
  BY <1>3, <1>4
<1>6. PICK rank : rank = [id \in D |-> age[id] + left]
  OBVIOUS
<1>7. rank \in [D -> Nat] /\ \A id \in D : rank[id] = age[id] + left
  BY <1>2, <1>5, <1>6
<1>8. ASSUME NEW id \in D, stored[id].state = "RELEASED",
             NEW b \in Bindings(stored[id]) \cup Links(stored[id])
      PROVE  /\ ResolvesIn(stored, b) /\ stored[b.target].state = "RELEASED"
             /\ rank[b.target] > rank[id]
  <2>1. /\ ResolvesIn(stored, b) /\ stored[b.target].state = "RELEASED"
        /\ age[b.target] > age[id]
    BY <1>3, <1>8 DEF Relies
  <2>2. b.target \in D
    BY <1>1, <2>1 DEF ResolvesIn
  <2>3. QED
    BY <1>2, <1>5, <1>7, <2>1, <2>2
<1>9. Order(stored, rank, left)
  BY <1>1, <1>2, <1>5, <1>7, <1>8 DEF Order
<1>10. \A id \in D : Woven(stored[id], next)
  BY <1>2 DEF Woven, BlocksNest
<1>11. QED
  BY <1>1, <1>2, <1>9, <1>10 DEF StoreInv, WellKept

(* What is released and referred to does not change under a request.       *)
LEMMA DraftedInOrder ==
  ASSUME StoreInv, NEW id, NEW C, Drafted(id, C)
  PROVE  \E rank : Order(stored', rank, left')
<1>1. PICK old : Order(stored, old, left)
  BY DEF StoreInv
<1>2. /\ DOMAIN stored' = DOMAIN stored \cup {id} /\ stored'[id] = C
      /\ \A x \in DOMAIN stored : x # id => stored'[x] = stored[x]
  BY Stored DEF Drafted
<1>3. ASSUME NEW x \in DOMAIN stored, stored[x].state = "RELEASED"
      PROVE  x # id /\ stored'[x] = stored[x]
  <2>1. x # id
    <3>1. x # next
      BY DEF StoreInv, WellKept
    <3>2. QED
      BY <1>3, <3>1 DEF Drafted, Editable
  <2>2. QED
    BY <1>2, <2>1
<1>4. PICK rank : rank = [x \in DOMAIN stored' |-> IF x \in DOMAIN stored THEN old[x] ELSE 0]
  OBVIOUS
<1>5. rank \in [DOMAIN stored' -> Nat] /\ \A x \in DOMAIN stored : rank[x] = old[x]
  BY <1>1, <1>2, <1>4 DEF Order
<1>6. ASSUME NEW x \in DOMAIN stored', stored'[x].state = "RELEASED"
      PROVE  /\ rank[x] >= left'
             /\ \A b \in Bindings(stored'[x]) \cup Links(stored'[x]) :
                  /\ ResolvesIn(stored', b) /\ stored'[b.target].state = "RELEASED"
                  /\ rank[b.target] > rank[x]
  <2>1. x # id
    BY <1>2, <1>6 DEF Drafted
  <2>2. x \in DOMAIN stored /\ stored'[x] = stored[x]
    BY <1>2, <2>1
  <2>3. old[x] >= left /\ \A b \in Bindings(stored[x]) \cup Links(stored[x]) :
          ResolvesIn(stored, b) /\ stored[b.target].state = "RELEASED" /\ old[b.target] > old[x]
    BY <1>1, <1>6, <2>2 DEF Order
  <2>4. rank[x] >= left'
    BY <1>1, <1>5, <2>2, <2>3 DEF Order, Drafted, Stores, StoreInv, WellKept
  <2>5. ASSUME NEW b \in Bindings(stored'[x]) \cup Links(stored'[x])
        PROVE  /\ ResolvesIn(stored', b) /\ stored'[b.target].state = "RELEASED"
               /\ rank[b.target] > rank[x]
    <3>1. ResolvesIn(stored, b) /\ stored[b.target].state = "RELEASED" /\ old[b.target] > old[x]
      BY <2>2, <2>3, <2>5
    <3>2. b.target \in DOMAIN stored
      BY <3>1 DEF ResolvesIn
    <3>3. stored'[b.target] = stored[b.target] /\ b.target \in DOMAIN stored'
      BY <1>2, <1>3, <3>1, <3>2
    <3>4. QED
      BY <1>5, <2>2, <3>1, <3>2, <3>3 DEF ResolvesIn
  <2>6. QED
    BY <2>4, <2>5
<1>7. QED
  BY <1>5, <1>6 DEF Order

LEMMA ReleasedInOrder ==
  ASSUME StoreInv, NEW id, NEW C, Released(id, C)
  PROVE  \E rank : Order(stored', rank, left')
<1>1. PICK old : Order(stored, old, left)
  BY DEF StoreInv
<1>2. /\ DOMAIN stored' = DOMAIN stored /\ stored'[id] = C /\ id \in DOMAIN stored
      /\ \A x \in DOMAIN stored : x # id => stored'[x] = stored[x]
  BY Stored DEF Released
<1>3. PICK S : S = stored[id]
  OBVIOUS
<1>4. S.state = "ENTWURF" /\ TargetsOK(id, S)
  BY <1>3 DEF Released, Editable
<1>5. Shaped(S) /\ C = [S EXCEPT !.state = "RELEASED"]
  BY <1>2, <1>3 DEF StoreInv, WellKept, Released
<1>6. C.bind = S.bind /\ C.links = S.links
  BY <1>5, FieldsAre DEF Shaped, Fields
<1>7. Bindings(C) = Bindings(S) /\ Links(C) = Links(S)
  BY <1>6 DEF Bindings, Links
<1>8. PICK rank : rank = [old EXCEPT ![id] = left']
  OBVIOUS
<1>9. left \in Nat /\ left' \in Nat /\ left' < left
  BY DEF StoreInv, WellKept, Released, Stores
<1>10. /\ rank \in [DOMAIN stored' -> Nat] /\ rank[id] = left'
       /\ \A x \in DOMAIN stored : x # id => rank[x] = old[x]
  BY <1>1, <1>2, <1>8, <1>9 DEF Order
<1>11. \A x \in DOMAIN stored : old[x] \in Nat
  BY <1>1 DEF Order
<1>12. ASSUME NEW b, ResolvesIn(stored, b), stored[b.target].state = "RELEASED"
       PROVE  /\ ResolvesIn(stored', b) /\ stored'[b.target].state = "RELEASED"
              /\ rank[b.target] = old[b.target] /\ old[b.target] >= left /\ old[b.target] \in Nat
  <2>1. b.target \in DOMAIN stored /\ b.target # id
    BY <1>3, <1>4, <1>12 DEF ResolvesIn
  <2>2. stored'[b.target] = stored[b.target]
    BY <1>2, <2>1
  <2>3. old[b.target] >= left
    BY <1>1, <1>12, <2>1 DEF Order
  <2>4. QED
    BY <1>2, <1>10, <1>11, <1>12, <2>1, <2>2, <2>3 DEF ResolvesIn
<1>13. ASSUME NEW x \in DOMAIN stored', stored'[x].state = "RELEASED"
       PROVE  /\ rank[x] >= left'
              /\ \A b \in Bindings(stored'[x]) \cup Links(stored'[x]) :
                   /\ ResolvesIn(stored', b) /\ stored'[b.target].state = "RELEASED"
                   /\ rank[b.target] > rank[x]
  <2>1. CASE x = id
    <3>1. \A b \in Bindings(C) \cup Links(C) :
            ResolvesIn(stored, b) /\ stored[b.target].state = "RELEASED"
      BY <1>4, <1>7 DEF TargetsOK, Resolves
    <3>2. stored'[x] = C /\ rank[x] = left'
      BY <1>2, <1>10, <2>1
    <3>3. QED
      BY <1>9, <1>12, <3>1, <3>2
  <2>2. CASE x # id
    <3>1. x \in DOMAIN stored /\ stored'[x] = stored[x] /\ rank[x] = old[x]
      BY <1>2, <1>10, <2>2
    <3>2. old[x] >= left /\ \A b \in Bindings(stored[x]) \cup Links(stored[x]) :
            ResolvesIn(stored, b) /\ stored[b.target].state = "RELEASED" /\ old[b.target] > old[x]
      BY <1>1, <1>13, <3>1 DEF Order
    <3>3. rank[x] >= left'
      BY <1>9, <1>11, <3>1, <3>2
    <3>4. QED
      BY <1>12, <3>1, <3>2, <3>3
  <2>3. QED
    BY <2>1, <2>2
<1>14. QED
  BY <1>10, <1>13 DEF Order

LEMMA ShelvedInOrder ==
  ASSUME StoreInv, NEW id, NEW C, Shelved(id, C)
  PROVE  \E rank : Order(stored', rank, left')
<1>1. PICK rank : Order(stored, rank, left)
  BY DEF StoreInv
<1>2. /\ DOMAIN stored' = DOMAIN stored /\ stored'[id] = C /\ id \in DOMAIN stored
      /\ \A x \in DOMAIN stored : x # id => stored'[x] = stored[x]
  <2>1. Stores(id, C) /\ id \in DOMAIN stored
    BY DEF Shelved
  <2>2. QED
    BY <2>1, Stored
<1>3. PICK S : S = stored[id]
  OBVIOUS
<1>4. Shaped(S) /\ C = [S EXCEPT !.library = C.library]
  BY <1>2, <1>3 DEF StoreInv, WellKept, Shelved
<1>5. C.bind = S.bind /\ C.links = S.links /\ C.state = S.state /\ C.version = S.version
  BY <1>4, FieldsAre DEF Shaped, Fields
<1>6. \A x \in DOMAIN stored : stored'[x].bind = stored[x].bind /\ stored'[x].links = stored[x].links
        /\ stored'[x].state = stored[x].state /\ stored'[x].version = stored[x].version
  BY <1>2, <1>3, <1>5
<1>7. \A x \in DOMAIN stored : Bindings(stored'[x]) = Bindings(stored[x])
                               /\ Links(stored'[x]) = Links(stored[x])
  BY <1>6 DEF Bindings, Links
<1>8. \A b : ResolvesIn(stored, b) => ResolvesIn(stored', b) /\ b.target \in DOMAIN stored
  BY <1>2, <1>6 DEF ResolvesIn
<1>9. left \in Nat /\ left' \in Nat /\ left' < left
  BY DEF StoreInv, WellKept, Shelved, Stores
<1>10. rank \in [DOMAIN stored' -> Nat]
  BY <1>1, <1>2 DEF Order
<1>11. ASSUME NEW x \in DOMAIN stored', stored'[x].state = "RELEASED"
       PROVE  /\ rank[x] >= left'
              /\ \A b \in Bindings(stored'[x]) \cup Links(stored'[x]) :
                   /\ ResolvesIn(stored', b) /\ stored'[b.target].state = "RELEASED"
                   /\ rank[b.target] > rank[x]
  <2>1. x \in DOMAIN stored /\ stored[x].state = "RELEASED"
    BY <1>2, <1>6, <1>11
  <2>2. rank[x] >= left /\ \A b \in Bindings(stored[x]) \cup Links(stored[x]) :
          ResolvesIn(stored, b) /\ stored[b.target].state = "RELEASED" /\ rank[b.target] > rank[x]
    BY <1>1, <2>1 DEF Order
  <2>3. rank[x] >= left'
    BY <1>2, <1>9, <1>10, <2>1, <2>2
  <2>4. QED
    BY <1>6, <1>7, <1>8, <2>1, <2>2, <2>3
<1>12. QED
  BY <1>10, <1>11 DEF Order

LEMMA RequestsInOrder ==
  ASSUME StoreInv, NEW id, NEW C, Drafted(id, C) \/ Released(id, C) \/ Shelved(id, C)
  PROVE  StoreInv'
<1>1. Stores(id, C)
  BY DEF Drafted, Released, Shelved
<1>2. /\ DOMAIN stored' = DOMAIN stored \cup {id} /\ stored'[id] = C
      /\ \A x \in DOMAIN stored : x # id => stored'[x] = stored[x]
  BY <1>1, Stored
<1>3. id \in Nat /\ id < next'
  BY <1>1 DEF Drafted, Released, Shelved, StoreInv, WellKept, Stores
<1>4. \A x \in DOMAIN stored' : /\ x \in Nat /\ x < next'
                                /\ Shaped(stored'[x]) /\ Correct(stored'[x])
  BY <1>1, <1>2, <1>3 DEF StoreInv, WellKept, Stores
<1>5. next \in Nat /\ next' \in Nat /\ next' >= next /\ left' \in Nat
  BY <1>1 DEF StoreInv, WellKept, Stores
<1>6. ASSUME NEW x \in DOMAIN stored' PROVE Woven(stored'[x], next')
  <2>1. CASE x = id
    BY <1>1, <1>2, <2>1 DEF Stores
  <2>2. CASE x # id
    <3>1. stored'[x] = stored[x] /\ Woven(stored[x], next)
      BY <1>2, <2>2 DEF StoreInv, WellKept
    <3>2. QED
      BY <1>5, <3>1, WovenSame DEF SameGraph
  <2>3. QED
    BY <2>1, <2>2
<1>7. \E rank : Order(stored', rank, left')
  BY DraftedInOrder, ReleasedInOrder, ShelvedInOrder
<1>8. QED
  BY <1>4, <1>5, <1>6, <1>7 DEF StoreInv, WellKept

-----------------------------------------------------------------------------
LEMMA OrderedStarts ==
  ASSUME StoreInv, [Next]_vars \/ [AnnNext]_<<vars, topic>>
  PROVE  StoreInv'
<1>1. CASE UNCHANGED vars
  BY <1>1 DEF StoreInv, WellKept, Correct, Resolves, vars
<1>2. CASE Next \/ AnnNext
  <2>1. WellKept
    BY DEF StoreInv
  <2>2. PICK id, C : Drafted(id, C) \/ Released(id, C) \/ Shelved(id, C)
    BY <1>2, <2>1, NextShape, AnnNextShape
  <2>3. QED
    BY <2>2, RequestsInOrder
<1>3. QED
  BY <1>1, <1>2

LEMMA KeptReleased ==
  ASSUME StoreInv, [Next]_vars \/ [AnnNext]_<<vars, topic>>,
         NEW id \in DOMAIN stored, stored[id].state = "RELEASED"
  PROVE  stored'[id] = [stored[id] EXCEPT !.library = stored'[id].library]
<1>1. PICK S : S = stored[id]
  OBVIOUS
<1>2. Shaped(S)
  BY <1>1 DEF StoreInv, WellKept
<1>3. S = [S EXCEPT !.library = S.library]
  BY <1>2, FieldsAre DEF Shaped, Fields
<1>4. CASE stored'[id] = stored[id]
  BY <1>1, <1>3, <1>4
<1>5. CASE Next \/ AnnNext
  <2>1. WellKept
    BY DEF StoreInv
  <2>2. PICK x, C : Drafted(x, C) \/ Released(x, C) \/ Shelved(x, C)
    BY <1>5, <2>1, NextShape, AnnNextShape
  <2>3. stored'[x] = C /\ \A y \in DOMAIN stored : y # x => stored'[y] = stored[y]
    BY <2>2, Stored DEF Drafted, Released, Shelved
  <2>4. CASE x # id
    BY <1>4, <2>3, <2>4
  <2>5. CASE x = id
    <3>1. x # next /\ ~Editable(x)
      BY <2>5 DEF StoreInv, WellKept, Editable
    <3>2. Shelved(x, C)
      BY <2>2, <3>1 DEF Drafted, Released
    <3>3. C = [S EXCEPT !.library = C.library]
      BY <1>1, <2>5, <3>2 DEF Shelved
    <3>4. QED
      BY <1>1, <2>3, <2>5, <3>3
  <2>6. QED
    BY <2>4, <2>5
<1>6. CASE UNCHANGED vars
  BY <1>4, <1>6 DEF vars
<1>7. QED
  BY <1>5, <1>6

(* Whatever is requested, the numbers of schemas stay behind the counter,  *)
(* each schema stays correct, and what a released one refers to has been   *)
(* released before it: with all requests of module Annotations ...         *)
THEOREM AnnInOrder == AnnSpec => []StoreInv
<1>1. AnnInit => StoreInv
  BY StartsInOrder DEF AnnInit
<1>2. StoreInv /\ [AnnNext]_<<vars, topic>> => StoreInv'
  BY OrderedStarts
<1>3. QED
  BY <1>1, <1>2, PTL DEF AnnSpec

(* ... and with those of module SchemaOps alone.                           *)
THEOREM InOrder == Spec => []StoreInv
<1>1. Init => StoreInv
  BY StartsInOrder
<1>2. StoreInv /\ [Next]_vars => StoreInv'
  BY OrderedStarts
<1>3. QED
  BY <1>1, <1>2, PTL DEF Spec

(* A released schema stays as it is, whatever is edited around it: no      *)
(* request that names an existing schema finds it editable, and none that  *)
(* makes a schema draws the number of another.                             *)
THEOREM Immutable == AnnSpec => ReleasedImmutable
<1>1. StoreInv /\ [AnnNext]_<<vars, topic>> =>
        [\A id \in DOMAIN stored : stored[id].state = "RELEASED" =>
           stored'[id] = [stored[id] EXCEPT !.library = stored'[id].library]]_vars
  BY KeptReleased
<1>2. QED
  BY <1>1, AnnInOrder, PTL DEF AnnSpec, ReleasedImmutable

(* The same with the requests of module SchemaOps alone.                   *)
THEOREM SpecImmutable == Spec => ReleasedImmutable
<1>1. StoreInv /\ [Next]_vars =>
        [\A id \in DOMAIN stored : stored[id].state = "RELEASED" =>
           stored'[id] = [stored[id] EXCEPT !.library = stored'[id].library]]_vars
  BY KeptReleased
<1>2. QED
  BY <1>1, InOrder, PTL DEF Spec, ReleasedImmutable

-----------------------------------------------------------------------------
(* Chains of starts.                                                       *)
Onward(t) == Starting(t) \cap DOMAIN stored

LEMMA OnwardCloses ==
  ASSUME IsFiniteSet(DOMAIN stored), NEW id
  PROVE  Closes(Closure(Onward, Onward(id), Cardinality(DOMAIN stored)), DOMAIN stored,
                [t \in DOMAIN stored |-> Onward(t)], Onward(id))
<1> DEFINE IsSearch(r) ==
      r = [k \in Nat |->
             IF k = 0 THEN [seen |-> Onward(id), front |-> Onward(id)]
             ELSE LET q == r[k - 1]
                      new == (UNION {Onward(t) : t \in q.front}) \ q.seen
                  IN [seen |-> q.seen \cup new, front |-> new]]
<1>1. PICK N : N = DOMAIN stored
  OBVIOUS
<1>2. PICK step : step = [t \in N |-> Onward(t)]
  OBVIOUS
<1>3. PICK from : from = Onward(id)
  OBVIOUS
<1>4. step \in [N -> SUBSET N] /\ from \in SUBSET N
  BY <1>1, <1>2, <1>3 DEF Onward
<1>5. ASSUME NEW q, q.front \subseteq N
      PROVE  (UNION {Onward(t) : t \in q.front}) \ q.seen = News(step, q)
  BY <1>2, <1>5 DEF News
<1>6. \E r : IsSearch(r)
  <2>1. PICK r \in [Nat -> [seen : SUBSET N, front : SUBSET N]] : Fronts(r, N, step, from)
    BY <1>4, FrontsExist
  <2>2. ASSUME NEW k \in Nat, k # 0
        PROVE  LET q == r[k - 1]
                   new == (UNION {Onward(t) : t \in q.front}) \ q.seen
               IN r[k] = [seen |-> q.seen \cup new, front |-> new]
    <3>1. PICK q : q = r[k - 1]
      OBVIOUS
    <3>2. k - 1 \in Nat /\ (k - 1) + 1 = k
      BY <2>2
    <3>3. q.front \subseteq N
      BY <2>1, <3>1, <3>2
    <3>4. r[k] = [seen |-> q.seen \cup News(step, q), front |-> News(step, q)]
      BY <2>1, <3>1, <3>2, <3>3 DEF Fronts
    <3>5. QED
      BY <1>5, <3>1, <3>3, <3>4
  <2>3. r[0] = [seen |-> Onward(id), front |-> Onward(id)]
    BY <1>3, <2>1 DEF Fronts
  <2>4. r = [k \in Nat |-> r[k]]
    BY <2>1
  <2>5. IsSearch(r)
    BY <2>2, <2>3, <2>4
  <2>6. QED
    BY <2>5
<1> DEFINE r == CHOOSE r : IsSearch(r)
<1>7. IsSearch(r)
  BY <1>6
<1>8. Closure(Onward, Onward(id), Cardinality(DOMAIN stored)) = r[Cardinality(N)].seen
  BY <1>1 DEF Closure
<1> HIDE DEF r
<1>9. Fronts(r, N, step, from)
  <2>1. r[0] = [seen |-> from, front |-> from]
    BY <1>3, <1>7
  <2>2. ASSUME NEW k \in Nat, r[k].front \subseteq N
        PROVE  r[k + 1] = [seen |-> r[k].seen \cup News(step, r[k]), front |-> News(step, r[k])]
    <3>1. PICK q : q = r[k]
      OBVIOUS
    <3>2. k + 1 \in Nat /\ (k + 1) - 1 = k /\ k + 1 # 0
      OBVIOUS
    <3>3. PICK new : new = (UNION {Onward(t) : t \in q.front}) \ q.seen
      OBVIOUS
    <3>4. r[k + 1] = [seen |-> q.seen \cup new, front |-> new]
      BY <1>7, <3>1, <3>2, <3>3
    <3>5. QED
      BY <1>5, <2>2, <3>1, <3>3, <3>4
  <2>3. QED
    BY <2>1, <2>2 DEF Fronts
<1>10. PICK A : A = Closure(Onward, Onward(id), Cardinality(DOMAIN stored))
  OBVIOUS
<1>11. Closes(A, N, step, from)
  BY <1>1, <1>4, <1>8, <1>9, <1>10, FrontsClosed
<1>12. QED
  BY <1>1, <1>2, <1>3, <1>10, <1>11

LEMMA FiniteStore ==
  ASSUME StoreInv
  PROVE  IsFiniteSet(DOMAIN stored)
<1>1. DOMAIN stored \subseteq 0 .. next /\ next \in Int /\ 0 \in Int
  BY DEF StoreInv, WellKept
<1>2. IsFiniteSet(0 .. next)
  BY <1>1, FS_Interval
<1>3. QED
  BY <1>1, <1>2, FS_Subset

LEMMA NoWayBack ==
  ASSUME StoreInv, NEW id \in DOMAIN stored, stored[id].state = "RELEASED"
  PROVE  id \notin Closure(Onward, Onward(id), Cardinality(DOMAIN stored))
<1>1. PICK rank : Order(stored, rank, left)
  BY DEF StoreInv
<1>2. PICK N : N = DOMAIN stored
  OBVIOUS
<1>3. PICK step : step = [t \in N |-> Onward(t)]
  OBVIOUS
<1>4. PICK from : from = Onward(id)
  OBVIOUS
<1>5. PICK A : A = Closure(Onward, Onward(id), Cardinality(DOMAIN stored))
  OBVIOUS
<1>6. Closes(A, N, step, from)
  BY <1>2, <1>3, <1>4, <1>5, FiniteStore, OnwardCloses
<1>7. PICK Z : Z = {t \in N : stored[t].state = "RELEASED" /\ rank[t] > rank[id]}
  OBVIOUS
<1>8. ASSUME NEW t \in N, stored[t].state = "RELEASED", NEW u \in Onward(t)
      PROVE  u \in N /\ stored[u].state = "RELEASED" /\ rank[u] > rank[t]
  <2>1. PICK b \in Bindings(stored[t]) \cup Links(stored[t]) : u = b.target
    BY <1>8 DEF Onward, Starting
  <2>2. QED
    BY <1>1, <1>2, <1>8, <2>1 DEF Order, ResolvesIn
<1>9. \A t \in N : rank[t] \in Nat
  BY <1>1, <1>2 DEF Order
<1>10. from \subseteq Z
  BY <1>2, <1>4, <1>7, <1>8
<1>11. \A t \in Z \cap N : step[t] \subseteq Z
  BY <1>2, <1>3, <1>7, <1>8, <1>9
<1>12. A \subseteq Z
  BY <1>6, <1>10, <1>11 DEF Closes
<1>13. ~ (rank[id] > rank[id])
  BY <1>2, <1>9
<1>14. id \notin Z
  BY <1>7, <1>13
<1>15. QED
  BY <1>5, <1>12, <1>14

(* No chain of calls and follow-ups, however long, leads from a released   *)
(* schema back to it.  The rules never look at follow-ups for cycles: that *)
(* a target must have been released before is what excludes them.          *)
THEOREM ChainsEnd == AnnSpec => []StartsEnd
<1>1. StoreInv => StartsEnd
  BY NoWayBack DEF StartsEnd, Onward
<1>2. QED
  BY <1>1, AnnInOrder, PTL

-----------------------------------------------------------------------------
(* Blocks stay nested, and where they are, routes are sound.               *)
LEMMA StoredNest ==
  ASSUME StoreInv, NEW id \in DOMAIN stored
  PROVE  \E rank, path, open : Nest(stored[id], rank, path, open)
<1>1. Shaped(stored[id]) /\ K2(stored[id]) /\ Woven(stored[id], next)
  BY DEF StoreInv, WellKept, Correct, Valid
<1>2. QED
  BY <1>1, WovenNest

LEMMA FlowIsSound ==
  ASSUME StoreInv
  PROVE  SoundFlow
<1>1. SUFFICES
        ASSUME NEW id \in DOMAIN stored, NEW S, S = stored[id], NEW c \in Routes(S),
               NEW ran, ran = Ran(S, c)
        PROVE  /\ END \in ran
               /\ \A n \in NodesOfKind(S, "AND_JOIN") :
                    {e \in Into(S, n) : e[1] \in ran /\ Taken(S, c, e)} \in {{}, Into(S, n)}
               /\ \A n \in NodesOfKind(S, "XOR_JOIN") :
                    Cardinality({e \in Into(S, n) : e[1] \in ran /\ Taken(S, c, e)}) <= 1
  BY DEF SoundFlow
<1>2. PICK rank, path, open : Nest(S, rank, path, open)
  BY <1>1, StoredNest
<1>3. END \in NodesOfKind(S, "END")
  BY <1>1 DEF StoreInv, WellKept, Woven, Founded
<1>4. QED
  BY <1>1, <1>2, <1>3, NestedIsSound

LEMMA WritersAgree ==
  ASSUME StoreInv
  PROVE  NoRaces
<1>1. SUFFICES
        ASSUME NEW id \in DOMAIN stored, NEW S, S = stored[id], NEW c \in Routes(S),
               NEW v \in S.writes, NEW w \in S.writes, v[2] = w[2], v[1] # w[1],
               v[1] \in Ran(S, c), w[1] \in Ran(S, c)
        PROVE  v[1] \in Reachable(S, w[1]) \/ w[1] \in Reachable(S, v[1])
  BY DEF NoRaces
<1>2. PICK rank, path, open : Nest(S, rank, path, open)
  BY <1>1, StoredNest
<1>3. D2(S)
  BY <1>1 DEF StoreInv, WellKept, Correct, Valid
<1>4. QED
  BY <1>1, <1>2, <1>3, D2IsEnough

(* Whatever is inserted, deleted, converted and copied, every route        *)
(* through every stored schema leads to END, takes all edges into an       *)
(* AND_JOIN or none and at most one of those into an XOR_JOIN.  No rule    *)
(* says so: blocks stay nested, of which K1 counts the ends.               *)
THEOREM RoutesSound == Spec => []SoundFlow
<1>1. StoreInv => SoundFlow
  BY FlowIsSound
<1>2. QED
  BY <1>1, InOrder, PTL

(* No order of completions decides what a later step sees: the nested      *)
(* blocks are what makes D2, which looks at the innermost split in front   *)
(* of two writers, find every two that may run at once.                    *)
THEOREM WritersOrdered == Spec => []NoRaces
<1>1. StoreInv => NoRaces
  BY WritersAgree
<1>2. QED
  BY <1>1, InOrder, PTL

(* Both with all that is declared and attached around the edits.           *)
THEOREM AnnRoutesSound == AnnSpec => [](SoundFlow /\ NoRaces)
<1>1. StoreInv => SoundFlow /\ NoRaces
  BY FlowIsSound, WritersAgree
<1>2. QED
  BY <1>1, AnnInOrder, PTL

-----------------------------------------------------------------------------
(* Where every route is sound, the must-analysis says what has been        *)
(* written.                                                                *)
LEMMA RootedSchema ==
  ASSUME NEW S, Shaped(S), K2(S)
  PROVE  Rooted(S)
<1>1. ASSUME NEW n \in NodesOfKind(S, "START") PROVE Preds(S, n) = {}
  <2>1. n \in DOMAIN S.kind /\ Cardinality(Into(S, n)) = 0
    BY <1>1 DEF K2, DegreesOK, NodesOfKind
  <2>2. IsFiniteSet(Into(S, n))
    BY FS_Subset DEF Shaped, Into
  <2>3. Into(S, n) = {}
    BY <2>1, <2>2, FS_EmptySet
  <2>4. QED
    BY <2>3 DEF Preds
<1>2. QED
  BY <1>1 DEF Rooted

LEMMA SoundIsWhole ==
  ASSUME SoundFlow, NEW id \in DOMAIN stored, Shaped(stored[id]), NEW c \in Routes(stored[id])
  PROVE  Whole(stored[id], c) /\ END \in Ran(stored[id], c)
<1>1. PICK S : S = stored[id]
  OBVIOUS
<1>2. PICK ran : ran = Ran(S, c)
  OBVIOUS
<1> DEFINE fired(n) == {e \in Into(S, n) : e[1] \in ran /\ Taken(S, c, e)}
<1>3. END \in ran /\ \A n \in NodesOfKind(S, "AND_JOIN") : fired(n) \in {{}, Into(S, n)}
  BY <1>1, <1>2 DEF SoundFlow
<1>4. IsFiniteSet(DOMAIN S.kind)
  BY <1>1 DEF Shaped
<1>5. Closes(ran, DOMAIN S.kind, [m \in DOMAIN S.kind |-> Following(S, c, m)],
             NodesOfKind(S, "START"))
  BY <1>2, <1>4, RanCloses
<1>6. ASSUME NEW n \in ran, S.kind[n] = "AND_JOIN" PROVE Preds(S, n) \subseteq ran
  <2>1. n \in NodesOfKind(S, "AND_JOIN") /\ n \notin NodesOfKind(S, "START")
    BY <1>5, <1>6 DEF Closes, NodesOfKind
  <2>2. PICK m \in ran : n \in Following(S, c, m)
    BY <1>5, <2>1 DEF Closes
  <2>3. fired(n) # {}
    <3>1. PICK e \in OutOf(S, m) : Taken(S, c, e) /\ n = e[2]
      BY <2>2 DEF Following
    <3>2. e \in Into(S, n) /\ e[1] = m
      BY <3>1 DEF OutOf, Into
    <3>3. QED
      BY <2>2, <3>1, <3>2
  <2>4. fired(n) = Into(S, n)
    BY <1>3, <2>1, <2>3
  <2>5. \A e \in Into(S, n) : e[1] \in ran
    BY <2>4
  <2>6. QED
    BY <2>5 DEF Preds
<1>7. QED
  BY <1>1, <1>2, <1>3, <1>6 DEF Whole

LEMMA WrittenOnRoute ==
  ASSUME StoreInv, NEW id \in DOMAIN stored, NEW c \in Routes(stored[id]),
         NEW n \in Ran(stored[id], c), NEW x \in MustWrittenBefore(stored[id])[n]
  PROVE  \E w \in stored[id].writes : /\ w[2] = x /\ w[1] \in Ran(stored[id], c)
                                      /\ n \in Reachable(stored[id], w[1])
<1>1. Shaped(stored[id]) /\ Correct(stored[id])
  BY DEF StoreInv, WellKept
<1>2. IsFiniteSet(DOMAIN stored[id].kind) /\ Rooted(stored[id])
  BY <1>1, RootedSchema DEF Shaped, Correct, Valid
<1>3. Whole(stored[id], c)
  BY <1>1, FlowIsSound, SoundIsWhole
<1>4. QED
  BY <1>2, <1>3, WrittenBefore

LEMMA SuppliedThen ==
  ASSUME StoreInv
  PROVE  Supplied
<1>1. ASSUME NEW id \in DOMAIN stored, NEW c \in Routes(stored[id]),
             NEW r \in stored[id].reads \cup {<<x, stored[id].disc[x]>> : x \in DOMAIN stored[id].disc}
      PROVE  r[2] \in MustWrittenBefore(stored[id])[r[1]]
  <2>1. D1(stored[id]) /\ K7(stored[id], Values)
    BY DEF StoreInv, WellKept, Correct, Valid
  <2>2. CASE r \in stored[id].reads
    BY <2>1, <2>2 DEF D1
  <2>3. CASE r \in {<<x, stored[id].disc[x]>> : x \in DOMAIN stored[id].disc}
    BY <2>1, <2>3 DEF K7
  <2>4. QED
    BY <1>1, <2>2, <2>3
<1>2. QED
  BY <1>1, WrittenOnRoute DEF Supplied

LEMMA FiltersThen ==
  ASSUME StoreInv
  PROVE  FiltersSupplied
<1>1. SUFFICES
        ASSUME NEW id \in DOMAIN stored, NEW S, S = stored[id],
               NEW x \in DOMAIN S.query, S.query[x].kind # "record", NEW c \in Routes(S),
               NEW n \in NodesOfKind(S, "ACTIVITY"), NEW y \in S.query[x].from, n \in Ran(S, c),
               <<n, x>> \in IF S.query[x].kind = "select" THEN S.reads \cup S.mayread
                           ELSE S.writes \cup S.maywrite
        PROVE  /\ y \notin DOMAIN S.query
               /\ \E w \in S.writes : w[2] = y /\ w[1] \in Ran(S, c) /\ n \in Reachable(S, w[1])
  BY DEF FiltersSupplied
<1>2. SourcesOK(S) /\ FiltersBefore(S)
  BY <1>1 DEF StoreInv, WellKept, Correct, AttachedOK
<1>3. y \notin DOMAIN S.query
  BY <1>1, <1>2 DEF SourcesOK, Instance
<1>4. n \in Touching(S, x)
  BY <1>1 DEF Touching
<1>5. y \in MustWrittenBefore(S)[n]
  BY <1>1, <1>2, <1>4 DEF FiltersBefore
<1>6. QED
  BY <1>1, <1>3, <1>5, WrittenOnRoute

(* Whatever is read has been written before on the route taken: the rules  *)
(* D1 and K7 hold of everything stored, and their analysis errs on no      *)
(* route, since routes are sound.                                          *)
THEOREM ReadsSupplied == Spec => []Supplied
<1>1. StoreInv => Supplied
  BY SuppliedThen
<1>2. QED
  BY <1>1, InOrder, PTL

(* The same of the filters of every query, with all that is declared and   *)
(* attached around it.                                                     *)
THEOREM QueriesSupplied == AnnSpec => []FiltersSupplied
<1>1. StoreInv => FiltersSupplied
  BY FiltersThen
<1>2. QED
  BY <1>1, AnnInOrder, PTL

-----------------------------------------------------------------------------
(* Calls.                                                                  *)
Delivering(id, store) ==
  store[id].state = "RELEASED" =>
    \A b \in Bindings(store[id]) : b.outs \subseteq MustWrittenBefore(store[b.target])[END]

CallInv == StoreInv /\ \A id \in DOMAIN stored : Delivering(id, stored)

LEMMA StartsDeliver == Init => CallInv
<1> SUFFICES ASSUME Init, NEW s \in Starts, stored = s.stored
             PROVE  \A id \in DOMAIN stored : Delivering(id, stored)
  BY StartsInOrder DEF CallInv, Init
<1>1. \A id \in DOMAIN stored : stored[id].state = "RELEASED" => \E age : Relies(stored, age, id)
  BY StartsAssumption
<1>2. QED
  BY <1>1 DEF Relies, Delivering

LEMMA RequestsDeliver ==
  ASSUME CallInv, NEW new, NEW C, Drafted(new, C) \/ Released(new, C)
  PROVE  \A id \in DOMAIN stored' : Delivering(id, stored')
<1>1. Stores(new, C) /\ StoreInv
  BY DEF Drafted, Released, CallInv
<1>2. /\ DOMAIN stored' = DOMAIN stored \cup {new} /\ stored'[new] = C
      /\ \A x \in DOMAIN stored : x # new => stored'[x] = stored[x]
  BY <1>1, Stored
<1>3. PICK rank : Order(stored, rank, left)
  BY <1>1 DEF StoreInv
<1>4. \A t \in DOMAIN stored : stored[t].state = "RELEASED" => t # new
  BY <1>1 DEF Drafted, Released, Editable, StoreInv, WellKept
<1>5. ASSUME NEW id \in DOMAIN stored', stored'[id].state = "RELEASED",
             NEW b \in Bindings(stored'[id])
      PROVE  b.outs \subseteq MustWrittenBefore(stored'[b.target])[END]
  <2>1. /\ b.target \in DOMAIN stored /\ stored[b.target].state = "RELEASED"
        /\ b.outs \subseteq MustWrittenBefore(stored[b.target])[END]
    <3>1. CASE id = new
      <4>1. Released(new, C) /\ new \in DOMAIN stored
        BY <1>2, <1>5, <3>1 DEF Drafted, Released
      <4>2. PICK S : S = stored[new]
        OBVIOUS
      <4>3. Shaped(S) /\ C = [S EXCEPT !.state = "RELEASED"] /\ TargetsOK(new, S)
        BY <1>1, <4>1, <4>2 DEF Released, StoreInv, WellKept
      <4>4. C.bind = S.bind
        BY <4>3, FieldsAre DEF Shaped, Fields
      <4>5. b \in Bindings(S)
        BY <1>2, <1>5, <3>1, <4>4 DEF Bindings
      <4>6. QED
        BY <4>3, <4>5 DEF TargetsOK, Resolves, ResolvesIn
    <3>2. CASE id # new
      <4>1. id \in DOMAIN stored /\ stored'[id] = stored[id]
        BY <1>2, <3>2
      <4>2. QED
        BY <1>3, <1>5, <4>1 DEF CallInv, Delivering, Order, ResolvesIn
    <3>3. QED
      BY <3>1, <3>2
  <2>2. stored'[b.target] = stored[b.target]
    BY <1>2, <1>4, <2>1
  <2>3. QED
    BY <2>1, <2>2
<1>6. QED
  BY <1>5 DEF Delivering

LEMMA CallsKept ==
  ASSUME CallInv, [Next]_vars
  PROVE  CallInv'
<1>1. StoreInv'
  BY OrderedStarts DEF CallInv
<1>2. CASE UNCHANGED vars
  BY <1>1, <1>2 DEF CallInv, vars
<1>3. CASE Next
  <2>1. WellKept
    BY DEF CallInv, StoreInv
  <2>2. PICK id, C : Drafted(id, C) \/ Released(id, C)
    BY <1>3, <2>1, NextShape
  <2>3. QED
    BY <1>1, <2>2, RequestsDeliver DEF CallInv
<1>4. QED
  BY <1>2, <1>3

(* The set of bindings that Calls searches holds only bindings to schemas  *)
(* released before the schema it starts from.                              *)
LEMMA NoCallBack ==
  ASSUME StoreInv, NEW id \in DOMAIN stored, stored[id].state = "RELEASED"
  PROVE  id \notin Calls(stored[id])
<1>1. PICK rank : Order(stored, rank, left)
  BY DEF StoreInv
<1>2. PICK N : N = DOMAIN stored
  OBVIOUS
<1> DEFINE more(q) == UNION {Bindings(stored[b.target]) : b \in {b \in q : Resolves(b)}}
           IsSearch(r) == r = [k \in Nat |-> IF k = 0 THEN Bindings(stored[id])
                                             ELSE LET q == r[k - 1] IN q \cup more(q)]
<1>3. \E r : IsSearch(r)
  <2>1. PICK T : T = SUBSET UNION {Bindings(stored[t]) : t \in N}
    OBVIOUS
  <2>2. PICK g : g = [q \in T |-> q \cup more(q)]
    OBVIOUS
  <2>3. Bindings(stored[id]) \in T
    BY <1>2, <2>1
  <2>4. ASSUME NEW q \in T PROVE q \cup more(q) \in T
    <3>1. more(q) \subseteq UNION {Bindings(stored[t]) : t \in N}
      BY <1>2 DEF Resolves, ResolvesIn
    <3>2. QED
      BY <2>1, <3>1
  <2>5. g \in [T -> T]
    BY <2>2, <2>4
  <2>6. PICK a : a = Bindings(stored[id])
    OBVIOUS
  <2>7. PICK r : Iterates(r, T, a, g)
    BY <2>3, <2>5, <2>6, Iteration
  <2>8. r \in [Nat -> T] /\ r[0] = a /\ \A k \in Nat : r[k + 1] = r[k] \cup more(r[k])
    BY <2>2, <2>7 DEF Iterates
  <2>9. ASSUME NEW k \in Nat, k # 0 PROVE r[k] = r[k - 1] \cup more(r[k - 1])
    <3>1. k - 1 \in Nat /\ (k - 1) + 1 = k
      BY <2>9
    <3> HIDE DEF more
    <3>2. QED
      BY <2>8, <3>1
  <2>10. r = [k \in Nat |-> r[k]]
    BY <2>8
  <2> HIDE DEF more
  <2>11. IsSearch(r)
    BY <2>6, <2>8, <2>9, <2>10
  <2>12. QED
    BY <2>11
<1> DEFINE r == CHOOSE r : IsSearch(r)
<1>4. IsSearch(r)
  BY <1>3
<1>5. Calls(stored[id]) = {b.target : b \in r[Cardinality(N)]}
  BY <1>2 DEF Calls
<1> HIDE DEF r
<1> DEFINE Later(b) == b.target \in N /\ stored[b.target].state = "RELEASED"
                       /\ rank[b.target] > rank[id]
           Good == {k \in Nat : \A b \in r[k] : Later(b)}
<1>6. \A t \in N : rank[t] \in Nat
  BY <1>1, <1>2 DEF Order
<1>7. ASSUME NEW t \in N, stored[t].state = "RELEASED", NEW b \in Bindings(stored[t])
      PROVE  /\ b.target \in N /\ stored[b.target].state = "RELEASED"
             /\ rank[b.target] > rank[t]
  BY <1>1, <1>2, <1>7 DEF Order, ResolvesIn
<1>8. 0 \in Good
  <2>1. r[0] = Bindings(stored[id])
    BY <1>4
  <2>2. QED
    BY <1>2, <1>7, <2>1
<1>9. ASSUME NEW k \in Nat, k \in Good PROVE k + 1 \in Good
  <2>1. k + 1 \in Nat /\ (k + 1) - 1 = k /\ k + 1 # 0
    OBVIOUS
  <2>2. r[k + 1] = r[k] \cup more(r[k])
    <3> HIDE DEF more
    <3>1. QED
      BY <1>4, <2>1
  <2>3. ASSUME NEW b \in more(r[k]) PROVE Later(b)
    <3>1. PICK a \in r[k] : b \in Bindings(stored[a.target])
      BY <2>3
    <3>2. Later(a)
      BY <1>9, <3>1
    <3>3. b.target \in N /\ stored[b.target].state = "RELEASED" /\ rank[b.target] > rank[a.target]
      BY <1>7, <3>1, <3>2
    <3>4. QED
      BY <1>2, <1>6, <3>2, <3>3
  <2> HIDE DEF Later, more
  <2>4. QED
    BY <1>9, <2>1, <2>2, <2>3
<1>10. Nat \subseteq Good
  <2> HIDE DEF Good
  <2>1. QED
    BY <1>8, <1>9, AllNumbers
<1>11. Cardinality(N) \in Nat
  BY <1>2, FiniteStore, FS_CardinalityType
<1>12. \A t \in Calls(stored[id]) : rank[t] > rank[id]
  BY <1>5, <1>10, <1>11
<1>13. ~ (rank[id] > rank[id])
  BY <1>2, <1>6
<1>14. QED
  BY <1>12, <1>13

LEMMA CallsDeliverThen ==
  ASSUME CallInv
  PROVE  CallsDeliver
<1>1. PICK rank : Order(stored, rank, left)
  BY DEF CallInv, StoreInv
<1>2. ASSUME NEW id \in DOMAIN stored, stored[id].state = "RELEASED",
             NEW b \in Bindings(stored[id])
      PROVE  /\ Resolves(b) /\ stored[b.target].state = "RELEASED"
             /\ b.target \in DOMAIN stored
             /\ b.outs \subseteq MustWrittenBefore(stored[b.target])[END]
  BY <1>1, <1>2 DEF Order, Resolves, ResolvesIn, CallInv, Delivering
<1>3. ASSUME NEW t \in DOMAIN stored, NEW c \in Routes(stored[t]),
             NEW x \in MustWrittenBefore(stored[t])[END]
      PROVE  \E w \in stored[t].writes : w[2] = x /\ w[1] \in Ran(stored[t], c)
  <2>1. END \in Ran(stored[t], c)
    BY FlowIsSound, SoundIsWhole DEF CallInv, StoreInv, WellKept
  <2>2. QED
    BY <1>3, <2>1, WrittenOnRoute DEF CallInv
<1>4. \A id \in DOMAIN stored : stored[id].state = "RELEASED" => id \notin Calls(stored[id])
  BY NoCallBack DEF CallInv
<1>5. QED
  BY <1>2, <1>3, <1>4 DEF CallsDeliver

(* A released schema only calls released ones, never itself through them,  *)
(* and each call brings back all that is mapped from it, whichever way the *)
(* child went.                                                             *)
THEOREM CallsSupply == Spec => []CallsDeliver
<1>1. CallInv /\ [Next]_vars => CallInv'
  BY CallsKept
<1>2. CallInv => CallsDeliver
  BY CallsDeliverThen
<1>3. QED
  BY <1>1, <1>2, StartsDeliver, PTL DEF Spec

-----------------------------------------------------------------------------
(* The longest way through a finite graph whose edges follow an order.     *)
LEMMA MaxIs ==
  ASSUME NEW T \in SUBSET Nat, IsFiniteSet(T), T # {}
  PROVE  Max(T) \in T /\ \A y \in T : y <= Max(T)
<1> DEFINE Topped(A) == \E x \in A : \A y \in A : x >= y
           Good == {k \in Nat : \A A \in SUBSET Nat :
                      IsFiniteSet(A) /\ Cardinality(A) = k /\ A # {} => Topped(A)}
<1>1. 0 \in Good
  BY FS_EmptySet
<1>2. ASSUME NEW k \in Nat, k \in Good PROVE k + 1 \in Good
  <2>1. ASSUME NEW A \in SUBSET Nat, IsFiniteSet(A), Cardinality(A) = k + 1, A # {}
        PROVE  Topped(A)
    <3>1. PICK a : a \in A
      BY <2>1
    <3>2. IsFiniteSet(A \ {a}) /\ Cardinality(A \ {a}) = k
      <4>1. IsFiniteSet(A \ {a}) /\ Cardinality(A \ {a}) = Cardinality(A) - 1
        BY <2>1, <3>1, FS_RemoveElement
      <4>2. QED
        BY <2>1, <4>1
    <3>3. CASE A \ {a} = {}
      BY <3>1, <3>3
    <3>4. CASE A \ {a} # {}
      <4>1. Topped(A \ {a})
        BY <1>2, <3>2, <3>4
      <4>2. PICK b \in A \ {a} : \A y \in A \ {a} : b >= y
        BY <4>1
      <4>3. CASE a >= b
        BY <3>1, <4>2, <4>3
      <4>4. CASE ~ (a >= b)
        BY <3>1, <4>2, <4>4
      <4>5. QED
        BY <4>3, <4>4
    <3>5. QED
      BY <3>3, <3>4
  <2>2. QED
    BY <2>1
<1>3. Nat \subseteq Good
  <2> HIDE DEF Good
  <2>1. QED
    BY <1>1, <1>2, AllNumbers
<1>4. Cardinality(T) \in Nat
  BY FS_CardinalityType
<1>5. Topped(T)
  BY <1>3, <1>4
<1>6. Max(T) \in T /\ \A y \in T : Max(T) >= y
  BY <1>5 DEF Max
<1>7. QED
  BY <1>6

(* A node is done its own time w after the last of those, P, it waits for. *)
Last(f, A) == Max({0} \cup {f[p] : p \in A})
Longest(f, N, P, w) == f = [n \in N |-> w[n] + Last(f, P[n])]
Waits(N, P, rank) ==
  /\ IsFiniteSet(N) /\ rank \in [N -> Nat] /\ P \in [N -> SUBSET N]
  /\ \A n \in N : \A p \in P[n] : rank[p] < rank[n]

LEMMA LastIs ==
  ASSUME NEW A, IsFiniteSet(A), NEW f, \A p \in A : f[p] \in Nat
  PROVE  /\ Last(f, A) \in {0} \cup {f[p] : p \in A}
         /\ Last(f, A) \in Nat
         /\ \A p \in A : f[p] <= Last(f, A)
<1>1. PICK T : T = {f[p] : p \in A}
  OBVIOUS
<1>2. IsFiniteSet(T)
  BY <1>1, FiniteImage
<1>3. IsFiniteSet({0} \cup T)
  <2>1. {0} \cup T = T \cup {0}
    OBVIOUS
  <2>2. QED
    BY <1>2, <2>1, FS_AddElement
<1>4. {0} \cup T \in SUBSET Nat /\ {0} \cup T # {}
  BY <1>1
<1>5. PICK m : m = Max({0} \cup T)
  OBVIOUS
<1>6. m \in {0} \cup T /\ \A y \in {0} \cup T : y <= m
  BY <1>3, <1>4, <1>5, MaxIs
<1>7. Last(f, A) = m
  BY <1>1, <1>5 DEF Last
<1>8. QED
  BY <1>1, <1>4, <1>6, <1>7

LEMMA LastLocal ==
  ASSUME NEW A, NEW f, NEW g, \A p \in A : f[p] = g[p]
  PROVE  Last(f, A) = Last(g, A)
<1>1. {f[p] : p \in A} = {g[p] : p \in A}
  OBVIOUS
<1>2. QED
  BY <1>1 DEF Last

LEMMA LongestExists ==
  ASSUME NEW N, NEW P, NEW rank, Waits(N, P, rank), NEW w \in [N -> Nat]
  PROVE  \E f : Longest(f, N, P, w)
<1>1. PICK T : T = [N -> Nat]
  OBVIOUS
<1>2. PICK g : g = [f \in T |-> [n \in N |-> w[n] + Last(f, P[n])]]
  OBVIOUS
<1>3. ASSUME NEW n \in N PROVE P[n] \subseteq N /\ IsFiniteSet(P[n])
  BY FS_Subset DEF Waits
<1>4. g \in [T -> T]
  <2>1. ASSUME NEW f \in T, NEW n \in N PROVE w[n] + Last(f, P[n]) \in Nat
    <3>1. Last(f, P[n]) \in Nat
      BY <1>1, <1>3, LastIs
    <3>2. QED
      BY <3>1
  <2>2. QED
    BY <1>1, <1>2, <2>1
<1>5. PICK a : a = [n \in N |-> 0]
  OBVIOUS
<1>6. a \in T
  BY <1>1, <1>5
<1>7. PICK B : Iterates(B, T, a, g)
  BY <1>4, <1>6, Iteration
<1>8. B \in [Nat -> T] /\ \A k \in Nat : \A n \in N : B[k + 1][n] = w[n] + Last(B[k], P[n])
  BY <1>2, <1>7 DEF Iterates
<1> DEFINE Stable == {k \in Nat : \A n \in N : rank[n] < k => B[k + 1][n] = B[k][n]}
<1>9. 0 \in Stable
  BY DEF Waits
<1>10. ASSUME NEW k \in Nat, k \in Stable PROVE k + 1 \in Stable
  <2>1. ASSUME NEW n \in N, rank[n] < k + 1 PROVE B[(k + 1) + 1][n] = B[k + 1][n]
    <3>1. \A p \in P[n] : p \in N /\ rank[p] < k
      BY <1>3, <2>1 DEF Waits
    <3>2. Last(B[k + 1], P[n]) = Last(B[k], P[n])
      BY <1>10, <3>1, LastLocal
    <3>3. B[(k + 1) + 1][n] = w[n] + Last(B[k + 1], P[n]) /\ B[k + 1][n] = w[n] + Last(B[k], P[n])
      BY <1>8, <2>1
    <3>4. QED
      BY <3>2, <3>3
  <2>2. QED
    BY <2>1
<1>11. Nat \subseteq Stable
  <2> HIDE DEF Stable
  <2>1. QED
    BY <1>9, <1>10, AllNumbers
<1>12. PICK f : f = [n \in N |-> B[rank[n] + 1][n]]
  OBVIOUS
<1>13. ASSUME NEW n \in N PROVE \A k \in Nat : rank[n] < k => B[k][n] = f[n]
  <2> DEFINE Same == {k \in Nat : rank[n] < k => B[k][n] = f[n]}
  <2>1. rank[n] \in Nat
    BY DEF Waits
  <2>2. 0 \in Same
    BY <2>1
  <2>3. ASSUME NEW k \in Nat, k \in Same PROVE k + 1 \in Same
    <3>1. CASE rank[n] < k
      BY <1>11, <2>3, <3>1
    <3>2. CASE rank[n] = k
      BY <1>12, <3>2
    <3>3. QED
      BY <2>1, <3>1, <3>2
  <2>4. Nat \subseteq Same
    <3> HIDE DEF Same
    <3>1. QED
      BY <2>2, <2>3, AllNumbers
  <2>5. QED
    BY <2>4
<1>14. ASSUME NEW n \in N PROVE f[n] = w[n] + Last(f, P[n])
  <2>1. PICK k \in Nat : k = rank[n]
    BY DEF Waits
  <2>2. f[n] = w[n] + Last(B[k], P[n])
    BY <1>8, <1>12, <2>1
  <2>3. \A p \in P[n] : B[k][p] = f[p]
    BY <1>3, <1>13, <2>1 DEF Waits
  <2>4. QED
    BY <2>2, <2>3, LastLocal
<1>15. f = [n \in N |-> w[n] + Last(f, P[n])]
  BY <1>12, <1>14
<1>16. QED
  BY <1>15 DEF Longest

LEMMA LongestTyped ==
  ASSUME NEW N, NEW P, NEW rank, Waits(N, P, rank), NEW w \in [N -> Nat],
         NEW f, Longest(f, N, P, w)
  PROVE  f \in [N -> Nat]
<1>1. PICK G : G = {n \in N : f[n] \in Nat}
  OBVIOUS
<1>2. ASSUME NEW n \in N, \A m \in N : rank[m] < rank[n] => m \in G PROVE n \in G
  <2>1. IsFiniteSet(P[n]) /\ \A p \in P[n] : f[p] \in Nat
    BY <1>1, <1>2, FS_Subset DEF Waits
  <2>2. Last(f, P[n]) \in Nat
    BY <2>1, LastIs
  <2>3. f[n] = w[n] + Last(f, P[n])
    BY DEF Longest
  <2>4. QED
    BY <1>1, <2>2, <2>3
<1>3. N \subseteq G
  BY <1>2, ByRank DEF Waits
<1>4. QED
  BY <1>1, <1>3 DEF Longest

(* Who waits for less is done no later.                                    *)
LEMMA WaitsLess ==
  ASSUME NEW N, NEW P, NEW rank, Waits(N, P, rank), NEW w \in [N -> Nat],
         NEW f, Longest(f, N, P, w),
         NEW R \in SUBSET N, NEW Q \in [R -> SUBSET R], \A n \in R : Q[n] \subseteq P[n],
         NEW v \in [R -> Nat], \A n \in R : v[n] = w[n],
         NEW g, Longest(g, R, Q, v)
  PROVE  \A n \in R : g[n] \in Nat /\ f[n] \in Nat /\ g[n] <= f[n]
<1>1. PICK q : q = [n \in R |-> rank[n]]
  OBVIOUS
<1>2. Waits(R, Q, q) /\ q \in [R -> Nat]
  BY <1>1, FS_Subset DEF Waits
<1>3. f \in [N -> Nat] /\ g \in [R -> Nat]
  BY <1>2, LongestTyped
<1>4. PICK G : G = {n \in R : g[n] <= f[n]}
  OBVIOUS
<1>5. ASSUME NEW n \in R, \A m \in R : q[m] < q[n] => m \in G PROVE n \in G
  <2>1. IsFiniteSet(P[n]) /\ IsFiniteSet(Q[n]) /\ P[n] \subseteq N /\ Q[n] \subseteq R
    BY <1>2, FS_Subset DEF Waits
  <2>2. PICK a, b : a = Last(f, P[n]) /\ b = Last(g, Q[n])
    OBVIOUS
  <2>3. a \in Nat /\ \A p \in P[n] : f[p] <= a
    BY <1>3, <2>1, <2>2, LastIs
  <2>4. b \in Nat /\ b \in {0} \cup {g[p] : p \in Q[n]}
    BY <1>3, <2>1, <2>2, LastIs
  <2>5. b <= a
    <3>1. CASE b = 0
      BY <2>3, <3>1
    <3>2. CASE b # 0
      <4>1. PICK p \in Q[n] : b = g[p]
        BY <2>4, <3>2
      <4>2. p \in R /\ p \in P[n] /\ q[p] < q[n]
        BY <1>2, <2>1, <4>1 DEF Waits
      <4>3. g[p] <= f[p] /\ f[p] <= a /\ f[p] \in Nat
        BY <1>3, <1>4, <1>5, <2>3, <4>2
      <4>4. QED
        BY <2>3, <2>4, <4>1, <4>3
    <3>3. QED
      BY <3>1, <3>2
  <2>6. f[n] = w[n] + a /\ g[n] = v[n] + b /\ v[n] = w[n] /\ w[n] \in Nat
    BY <2>2 DEF Longest
  <2>7. QED
    BY <1>4, <2>3, <2>4, <2>5, <2>6
<1>6. R \subseteq G
  BY <1>2, <1>5, ByRank
<1>7. QED
  BY <1>3, <1>4, <1>6

(* In a graph without cycles every node has its place in the topological   *)
(* order, so T2 always looks at the longest way.                           *)
LEMMA AllOrdered ==
  ASSUME NEW S, NEW rank, Drawn(S, rank)
  PROVE  Ordered(S) = DOMAIN S.kind
<1>1. PICK N : N = DOMAIN S.kind
  OBVIOUS
<1>2. IsFiniteSet(N) /\ rank \in [N -> Nat]
  BY <1>1 DEF Drawn, Ranked
<1>3. PICK lv : Levels(lv, S) /\ Ordered(S) = lv[Cardinality(N)]
  BY <1>1, <1>2, OrderedLevels
<1>4. \A n \in N : \A p \in Preds(S, n) : p \in N /\ rank[p] < rank[n]
  BY <1>1 DEF Preds, Into, Drawn, Ranked
<1> DEFINE Placed == {k \in Nat : \A n \in N : Below(N, rank, n) < k => n \in lv[k]}
<1>5. ASSUME NEW n \in N PROVE Below(N, rank, n) \in Nat /\ Below(N, rank, n) < Cardinality(N)
  <2>1. PICK A : A = {m \in N : rank[m] < rank[n]}
    OBVIOUS
  <2>2. A \in SUBSET N /\ n \notin A
    BY <1>2, <2>1
  <2>3. QED
    BY <1>2, <2>1, <2>2, StrictlyFewer DEF Below
<1>6. 0 \in Placed
  BY <1>5
<1>7. ASSUME NEW k \in Nat, k \in Placed PROVE k + 1 \in Placed
  <2>1. ASSUME NEW n \in N, Below(N, rank, n) < k + 1 PROVE n \in lv[k + 1]
    <3>1. ASSUME NEW p \in Preds(S, n) PROVE p \in lv[k]
      <4>1. p \in N /\ rank[p] < rank[n]
        BY <1>4, <3>1
      <4>2. Below(N, rank, p) < Below(N, rank, n)
        BY <1>2, <4>1, BelowGrows
      <4>3. Below(N, rank, p) < k
        BY <1>5, <2>1, <4>1, <4>2
      <4>4. QED
        BY <1>7, <4>1, <4>3
    <3>2. QED
      BY <1>1, <1>3, <3>1 DEF Levels
  <2>2. QED
    BY <2>1
<1>8. Nat \subseteq Placed
  <2> HIDE DEF Placed
  <2>1. QED
    BY <1>6, <1>7, AllNumbers
<1>9. Cardinality(N) \in Nat
  BY <1>2, FS_CardinalityType
<1>10. N \subseteq lv[Cardinality(N)]
  BY <1>5, <1>8, <1>9
<1>11. lv[Cardinality(N)] \subseteq N
  BY <1>1, <1>3, <1>9 DEF Levels
<1>12. QED
  BY <1>1, <1>3, <1>10, <1>11

(* The two computations, over all predecessors and along a route.          *)
Times(S) == [n \in DOMAIN S.kind |-> Duration(S, n)]
Before(S) == [n \in DOMAIN S.kind |-> Preds(S, n)]
RanBefore(S, c, n) == {e[1] : e \in {e \in Into(S, n) : e[1] \in Ran(S, c) /\ Taken(S, c, e)}}

LEMMA WaitsInGraph ==
  ASSUME NEW S, NEW rank, Drawn(S, rank)
  PROVE  Waits(DOMAIN S.kind, Before(S), rank)
BY DEF Waits, Before, Preds, Into, Drawn, Ranked

LEMMA TimesTyped ==
  ASSUME NEW S, Timed(S)
  PROVE  Times(S) \in [DOMAIN S.kind -> Nat]
BY DEF Times, Duration, Timed

LEMMA CriticalIsLongest ==
  ASSUME NEW S, NEW rank, Drawn(S, rank), Timed(S)
  PROVE  \E f : /\ Longest(f, DOMAIN S.kind, Before(S), Times(S))
                /\ CriticalPath(S) = Max({f[n] : n \in DOMAIN S.kind})
<1> DEFINE IsCritical(f) ==
      f = [n \in DOMAIN S.kind |-> Duration(S, n) + Max({0} \cup {f[p] : p \in Preds(S, n)})]
<1>1. \A f : IsCritical(f) <=> Longest(f, DOMAIN S.kind, Before(S), Times(S))
  BY DEF Longest, Last, Before, Times
<1>2. \E f : IsCritical(f)
  <2>1. PICK f : Longest(f, DOMAIN S.kind, Before(S), Times(S))
    BY WaitsInGraph, TimesTyped, LongestExists
  <2> HIDE DEF IsCritical
  <2>2. QED
    BY <1>1, <2>1
<1> DEFINE f == CHOOSE f : IsCritical(f)
<1>3. IsCritical(f)
  BY <1>2
<1>4. CriticalPath(S) = Max({f[n] : n \in DOMAIN S.kind})
  BY DEF CriticalPath
<1> HIDE DEF f
<1>5. QED
  BY <1>1, <1>3, <1>4

LEMMA DoneIsLongest ==
  ASSUME NEW S, NEW rank, Drawn(S, rank), Timed(S), NEW c, Ran(S, c) \subseteq DOMAIN S.kind
  PROVE  Longest(DoneAt(S, c), Ran(S, c), [n \in Ran(S, c) |-> RanBefore(S, c, n)],
                 [n \in Ran(S, c) |-> Duration(S, n)])
<1>1. PICK R, Q, v : /\ R = Ran(S, c) /\ Q = [n \in R |-> RanBefore(S, c, n)]
                     /\ v = [n \in R |-> Duration(S, n)]
  OBVIOUS
<1> DEFINE Fed(f, n) == {f[e[1]] : e \in {e \in Into(S, n) : e[1] \in R /\ Taken(S, c, e)}}
           IsDone(f) == f = [n \in R |-> Duration(S, n) + Max({0} \cup Fed(f, n))]
<1>2. \A f, n : Fed(f, n) = {f[p] : p \in RanBefore(S, c, n)}
  BY <1>1 DEF RanBefore
<1>3. \A f : IsDone(f) <=> Longest(f, R, Q, v)
  <2>1. ASSUME NEW f
        PROVE  [n \in R |-> Duration(S, n) + Max({0} \cup Fed(f, n))] = [n \in R |-> v[n] + Last(f, Q[n])]
    <3>1. ASSUME NEW n \in R
          PROVE  Duration(S, n) + Max({0} \cup Fed(f, n)) = v[n] + Last(f, Q[n])
      BY <1>1, <1>2 DEF Last
    <3> HIDE DEF Fed
    <3>2. QED
      BY <3>1
  <2>2. QED
    BY <2>1 DEF Longest
<1>4. \E f : IsDone(f)
  <2>1. PICK r : r = [n \in R |-> rank[n]]
    OBVIOUS
  <2>2. Waits(R, Q, r)
    <3>1. IsFiniteSet(R) /\ r \in [R -> Nat]
      BY <1>1, <2>1, FS_Subset DEF Drawn, Ranked
    <3>2. \A n \in R : Q[n] \subseteq R /\ \A p \in Q[n] : rank[p] < rank[n]
      BY <1>1 DEF RanBefore, Into, Drawn, Ranked
    <3>3. QED
      BY <1>1, <2>1, <3>1, <3>2 DEF Waits
  <2>3. v \in [R -> Nat]
    BY <1>1, TimesTyped DEF Times
  <2>4. PICK f : Longest(f, R, Q, v)
    BY <2>2, <2>3, LongestExists
  <2> HIDE DEF IsDone
  <2>5. QED
    BY <1>3, <2>4
<1> DEFINE f == CHOOSE f : IsDone(f)
<1>5. IsDone(f)
  BY <1>4
<1>6. DoneAt(S, c) = f
  BY <1>1 DEF DoneAt
<1> HIDE DEF f, IsDone
<1>7. QED
  BY <1>1, <1>3, <1>5, <1>6

LEMMA DeadlinesThen ==
  ASSUME StoreInv
  PROVE  DeadlineHolds
<1>1. SUFFICES ASSUME NEW id \in DOMAIN stored, NEW S, S = stored[id], S.deadline # NoDeadline,
                      NEW c \in Routes(S)
               PROVE  DoneAt(S, c)[END] <= S.deadline
  BY DEF DeadlineHolds
<1>2. PICK rank, path, open : Nest(S, rank, path, open)
  BY <1>1, StoredNest
<1>3. Drawn(S, rank)
  BY <1>2 DEF Nest
<1>4. Timed(S) /\ TimesOK(S) /\ S.deadline \in Nat
  BY <1>1 DEF StoreInv, WellKept, Shaped, Timed, Correct, AttachedOK
<1>5. PICK N, R : N = DOMAIN S.kind /\ R = Ran(S, c)
  OBVIOUS
<1>6. R \subseteq N /\ IsFiniteSet(N)
  BY <1>3, <1>5, RanCloses DEF Closes, Drawn
<1>7. END \in R
  BY <1>1, <1>5, FlowIsSound DEF SoundFlow
<1>8. PICK f : Longest(f, N, Before(S), Times(S)) /\ CriticalPath(S) = Max({f[n] : n \in N})
  BY <1>3, <1>4, <1>5, CriticalIsLongest
<1>9. CriticalPath(S) <= S.deadline
  BY <1>1, <1>3, <1>4, AllOrdered DEF TimesOK
<1>10. Waits(N, Before(S), rank) /\ Times(S) \in [N -> Nat]
  BY <1>3, <1>4, <1>5, WaitsInGraph, TimesTyped
<1>11. PICK Q, v, g : /\ Q = [n \in R |-> RanBefore(S, c, n)] /\ v = [n \in R |-> Duration(S, n)]
                      /\ g = DoneAt(S, c)
  OBVIOUS
<1>12. Longest(g, R, Q, v)
  BY <1>3, <1>4, <1>5, <1>6, <1>11, DoneIsLongest
<1>13. Q \in [R -> SUBSET R] /\ \A n \in R : Q[n] \subseteq Before(S)[n]
  BY <1>5, <1>6, <1>11 DEF RanBefore, Before, Preds
<1>14. v \in [R -> Nat] /\ \A n \in R : v[n] = Times(S)[n]
  BY <1>5, <1>6, <1>10, <1>11 DEF Times
<1>15. g[END] \in Nat /\ f[END] \in Nat /\ g[END] <= f[END]
  BY <1>6, <1>7, <1>8, <1>10, <1>12, <1>13, <1>14, WaitsLess
<1>16. f[END] <= CriticalPath(S) /\ CriticalPath(S) \in Nat
  <2>1. PICK T : T = {f[n] : n \in N}
    OBVIOUS
  <2>2. f \in [N -> Nat]
    BY <1>8, <1>10, LongestTyped
  <2>3. T \in SUBSET Nat /\ IsFiniteSet(T) /\ f[END] \in T
    BY <1>6, <1>7, <2>1, <2>2, FiniteImage
  <2>4. QED
    BY <1>8, <2>1, <2>3, MaxIs
<1>17. QED
  BY <1>4, <1>9, <1>11, <1>15, <1>16

(* A stored schema keeps its deadline on every route: the critical path of *)
(* T2 bounds them all, and edits that lengthen it are checked against it.  *)
THEOREM DeadlinesKept == AnnSpec => []DeadlineHolds
<1>1. StoreInv => DeadlineHolds
  BY DeadlinesThen
<1>2. QED
  BY <1>1, AnnInOrder, PTL

-----------------------------------------------------------------------------
(* What the engine assumes of its schema is what the editor stores.  Edges *)
(* that differ in their number only are one to the engine; of the lanes of *)
(* a node it looks at those of XOR blocks.                                 *)
Arc(e) == <<e[1], e[2]>>
Arcs(S) == {Arc(e) : e \in S.edges}
Branching(S, A) == {Arc(l) : l \in {l \in A : S.kind[l[1]] = "XOR_SPLIT"}}

Run(S, rank, ctx, open) ==
  INSTANCE ProcessGraph WITH
    Nodes <- DOMAIN S.kind, Start <- START, End <- END, Kind <- S.kind, Edges <- Arcs(S),
    Rank <- rank, MaxRank <- Cardinality(DOMAIN S.kind), Ctx <- ctx, Match <- open,
    Values <- Values, Branch <- S.branch, NoNode <- NoNode

Runs(S) ==
  \E rank, ctx, open :
    /\ Run(S, rank, ctx, open)!GraphOK
    /\ Run(S, rank, ctx, open)!BlockOK
    /\ Run(S, rank, ctx, open)!BranchesOK

LEMMA OnlyEnds ==
  ASSUME NEW S, NEW rank, Drawn(S, rank), Founded(S), NEW n \in DOMAIN S.kind
  PROVE  (S.kind[n] = "START" <=> n = START) /\ (S.kind[n] = "END" <=> n = END)
<1>1. PICK A : A = NodesOfKind(S, "START")
  OBVIOUS
<1>2. PICK Z : Z = NodesOfKind(S, "END")
  OBVIOUS
<1>3. IsFiniteSet(A) /\ IsFiniteSet(Z)
  BY <1>1, <1>2, FS_Subset DEF Drawn, NodesOfKind
<1>4. Cardinality(A) = 1 /\ Cardinality(Z) = 1
  BY <1>1, <1>2 DEF Drawn, K2
<1>5. (\A x, y \in A : x = y) /\ (\A x, y \in Z : x = y)
  BY <1>3, <1>4, OnlyOne
<1>6. START \in A /\ END \in Z
  BY <1>1, <1>2 DEF Founded
<1>7. QED
  BY <1>1, <1>2, <1>5, <1>6 DEF NodesOfKind

LEMMA ArcsAt ==
  ASSUME NEW S, NEW n
  PROVE  /\ {a \in Arcs(S) : a[2] = n} = {Arc(e) : e \in Into(S, n)}
         /\ {a \in Arcs(S) : a[1] = n} = {Arc(e) : e \in OutOf(S, n)}
<1>1. \A e \in S.edges : Arc(e)[1] = e[1] /\ Arc(e)[2] = e[2]
  BY DEF Arc
<1>2. QED
  BY <1>1 DEF Arcs, Into, OutOf

LEMMA RankedRuns ==
  ASSUME NEW S, NEW rank, NEW path, NEW open, Nest(S, rank, path, open), Founded(S),
         NEW low, low = [n \in DOMAIN S.kind |-> Below(DOMAIN S.kind, rank, n)], NEW ctx
  PROVE  Run(S, low, ctx, open)!GraphOK
<1>1. PICK N : N = DOMAIN S.kind
  OBVIOUS
<1>2. Drawn(S, rank) /\ IsFiniteSet(N) /\ rank \in [N -> Nat]
  BY <1>1 DEF Nest, Drawn, Ranked
<1>3. \A e \in S.edges : e[1] \in N /\ e[2] \in N /\ rank[e[1]] < rank[e[2]]
  BY <1>1, <1>2 DEF Drawn, Ranked
<1>4. START \in N /\ END \in N
  BY <1>1 DEF Founded, NodesOfKind
<1>5. S.kind \in [N -> Kinds]
  BY <1>1, <1>2 DEF Drawn
<1>6. \A n \in N : (S.kind[n] = "START" <=> n = START) /\ (S.kind[n] = "END" <=> n = END)
  BY <1>1, <1>2, OnlyEnds
<1>7. Cardinality(N) \in Nat
  BY <1>2, FS_CardinalityType
<1>8. \A n \in N : low[n] \in Nat /\ low[n] <= Cardinality(N)
  <2>1. SUFFICES ASSUME NEW n \in N
                 PROVE  Below(N, rank, n) \in Nat /\ Below(N, rank, n) <= Cardinality(N)
    BY <1>1
  <2>2. PICK B : B = {m \in N : rank[m] < rank[n]}
    OBVIOUS
  <2>3. IsFiniteSet(B) /\ Cardinality(B) <= Cardinality(N)
    BY <1>2, <2>2, FS_Subset
  <2>4. QED
    BY <2>2, <2>3, FS_CardinalityType DEF Below
<1>9. low \in [N -> 0 .. Cardinality(N)]
  BY <1>1, <1>7, <1>8
<1>10. \A a \in Arcs(S) : a \in N \X N /\ low[a[1]] < low[a[2]]
  <2>1. SUFFICES ASSUME NEW e \in S.edges
                 PROVE  /\ Arc(e) \in N \X N
                        /\ Below(N, rank, e[1]) < Below(N, rank, e[2])
    BY <1>1, <1>3 DEF Arcs, Arc
  <2>2. QED
    BY <1>2, <1>3, BelowGrows DEF Arc
<1>11. ASSUME NEW n \in N
       PROVE  /\ {a \in Arcs(S) : a[2] = n} = {} <=> n = START
              /\ {a \in Arcs(S) : a[1] = n} = {} <=> n = END
  <2>1. Into(S, n) = {} <=> S.kind[n] = "START"
    BY <1>1, <1>2, <1>11, Degrees
  <2>2. OutOf(S, n) = {} <=> S.kind[n] = "END"
    BY <1>1, <1>2, <1>11, Degrees
  <2>3. {a \in Arcs(S) : a[2] = n} = {Arc(e) : e \in Into(S, n)}
    BY ArcsAt
  <2>4. {a \in Arcs(S) : a[1] = n} = {Arc(e) : e \in OutOf(S, n)}
    BY ArcsAt
  <2>5. QED
    BY <1>6, <1>11, <2>1, <2>2, <2>3, <2>4
<1>12. Kinds = Run(S, low, ctx, open)!NodeTypes
  BY DEF Kinds, Splits, Joins, Run!NodeTypes
<1>13. Arcs(S) \subseteq N \X N
  BY <1>10
<1>14. QED
  BY <1>1, <1>4, <1>5, <1>6, <1>7, <1>9, <1>10, <1>11, <1>12, <1>13
     DEF Run!GraphOK, Run!Incoming, Run!Outgoing

LEMMA BranchingJoins ==
  ASSUME NEW S, NEW A, NEW B
  PROVE  Branching(S, A \cup B) = Branching(S, A) \cup Branching(S, B)
BY DEF Branching

LEMMA BranchingOne ==
  ASSUME NEW S, NEW l
  PROVE  Branching(S, {l}) = IF S.kind[l[1]] = "XOR_SPLIT" THEN {Arc(l)} ELSE {}
BY DEF Branching

(* The branches an arc runs in are those of the lanes of its edges.        *)
LEMMA ArcBranches ==
  ASSUME NEW S, NEW rank, NEW path, NEW open, Nest(S, rank, path, open),
         NEW low, NEW ctx, ctx = [n \in DOMAIN S.kind |-> Branching(S, path[n])],
         NEW e \in S.edges
  PROVE  Run(S, low, ctx, open)!EdgeCtx(Arc(e)) = Branching(S, Along(S, path, e))
<1>1. e[1] \in DOMAIN S.kind /\ Arc(e)[1] = e[1]
  BY DEF Nest, Drawn, Ranked, Arc
<1>2. Run(S, low, ctx, open)!EdgeCtx(Arc(e))
        = Branching(S, path[e[1]]) \cup (IF S.kind[e[1]] = "XOR_SPLIT" THEN {Arc(e)} ELSE {})
  BY <1>1 DEF Run!EdgeCtx, Run!XorSplits
<1>3. Branching(S, {e} \cap LaneEdges(S)) = IF S.kind[e[1]] = "XOR_SPLIT" THEN {Arc(e)} ELSE {}
  <2>1. CASE S.kind[e[1]] = "XOR_SPLIT"
    <3>1. {e} \cap LaneEdges(S) = {e}
      BY <2>1 DEF LaneEdges, Splits
    <3>2. QED
      BY <2>1, <3>1, BranchingOne
  <2>2. CASE S.kind[e[1]] # "XOR_SPLIT"
    BY <2>2 DEF Branching
  <2>3. QED
    BY <2>1, <2>2
<1>4. QED
  BY <1>2, <1>3, BranchingJoins DEF Along

(* Of an XOR block each edge into the join closes one branch, and no       *)
(* branch of it is open around it.                                         *)
LEMMA BranchesClose ==
  ASSUME NEW S, NEW rank, NEW path, NEW open, Nest(S, rank, path, open),
         NEW j \in OfKinds(S, Joins)
  PROVE  /\ S.kind[j] = "XOR_JOIN" <=> S.kind[open[j]] = "XOR_SPLIT"
         /\ \A e \in Into(S, j) : \E l \in OutOf(S, open[j]) :
              Along(S, path, e) = path[j] \cup {l}
         /\ \A l \in OutOf(S, open[j]) : \E e \in Into(S, j) :
              Along(S, path, e) = path[j] \cup {l}
         /\ \A e, f \in Into(S, j) : Along(S, path, e) = Along(S, path, f) => e = f
         /\ \A l \in OutOf(S, open[j]) : Arc(l) \notin Branching(S, path[j])
<1>1. NestedBy(S, rank, path, open) /\ Closing(S, path, j, open[j])
  BY DEF Nest, NestedBy, Paired
<1>2. S.kind[j] \in Joins /\ S.kind[open[j]] \in Splits
  BY OpensBelow
<1>3. S.kind[j] = "XOR_JOIN" <=> S.kind[open[j]] = "XOR_SPLIT"
  BY <1>1, <1>2 DEF Closing, Joins, Splits
<1>4. {Along(S, path, e) : e \in Into(S, j)} = {path[j] \cup {l} : l \in OutOf(S, open[j])}
  BY <1>1 DEF Closing
<1>5. ASSUME NEW e \in Into(S, j)
      PROVE  \E l \in OutOf(S, open[j]) : Along(S, path, e) = path[j] \cup {l}
  BY <1>4
<1>6. ASSUME NEW l \in OutOf(S, open[j])
      PROVE  \E e \in Into(S, j) : Along(S, path, e) = path[j] \cup {l}
  BY <1>4
<1>7. \A e, f \in Into(S, j) : Along(S, path, e) = Along(S, path, f) => e = f
  BY <1>1 DEF Closing
<1>8. ASSUME NEW l \in OutOf(S, open[j]), Arc(l) \in Branching(S, path[j])
      PROVE  FALSE
  <2>1. PICK k \in path[j] : Arc(k) = Arc(l)
    BY <1>8 DEF Branching
  <2>2. k[1] = open[j]
    BY <1>8, <2>1 DEF Arc, OutOf
  <2>3. path[open[j]] = path[j] /\ open[j] \in DOMAIN S.kind
    BY OpensBelow
  <2>4. rank[k[1]] < rank[open[j]]
    BY <2>1, <2>3, LanesBelow
  <2>5. rank[open[j]] \in Nat
    BY <2>3 DEF Nest, Drawn, Ranked
  <2>6. QED
    BY <2>2, <2>4, <2>5
<1>9. QED
  BY <1>3, <1>5, <1>6, <1>7, <1>8

(* Join j closes split x, of the edges in I and O.                         *)
Shuts(S, low, ctx, open, j, x, I, O) ==
  /\ x \in Run(S, low, ctx, open)!XorSplits /\ ctx[j] = ctx[x] /\ low[x] < low[j]
  /\ \A a \in I : \E o \in O : Run(S, low, ctx, open)!EdgeCtx(a) = ctx[x] \cup {o}
  /\ \A o \in O : \E a \in I : Run(S, low, ctx, open)!EdgeCtx(a) = ctx[x] \cup {o}
  /\ \A a, b \in I : Run(S, low, ctx, open)!EdgeCtx(a)
                      = Run(S, low, ctx, open)!EdgeCtx(b) => a = b

LEMMA NestedRuns ==
  ASSUME NEW S, NEW rank, NEW path, NEW open, Nest(S, rank, path, open), Founded(S),
         NEW low, low = [n \in DOMAIN S.kind |-> Below(DOMAIN S.kind, rank, n)],
         NEW ctx, ctx = [n \in DOMAIN S.kind |-> Branching(S, path[n])]
  PROVE  Run(S, low, ctx, open)!BlockOK
<1>1. PICK N : N = DOMAIN S.kind
  OBVIOUS
<1>2. Drawn(S, rank) /\ NestedBy(S, rank, path, open) /\ IsFiniteSet(N) /\ rank \in [N -> Nat]
  BY <1>1 DEF Nest, Drawn, Ranked
<1>3. \A e \in S.edges : e[1] \in N /\ e[2] \in N
  BY <1>1, <1>2 DEF Drawn, Ranked
<1>4. \A n \in N : path[n] \subseteq S.edges
  BY <1>1, <1>2 DEF NestedBy, Laned, LaneEdges
<1>5. ctx \in [N -> SUBSET Arcs(S)]
  BY <1>1, <1>4 DEF Branching, Arcs
<1>6. ctx[START] = {} /\ ctx[END] = {}
  <2>1. START \in OfKinds(S, {"START", "END"}) /\ END \in OfKinds(S, {"START", "END"})
    BY DEF Founded, NodesOfKind, OfKinds
  <2>2. path[START] = {} /\ path[END] = {}
    BY <1>2, <2>1 DEF NestedBy, Laned
  <2>3. START \in N /\ END \in N
    BY <1>1, <2>1 DEF OfKinds
  <2>4. QED
    BY <1>1, <2>2, <2>3 DEF Branching
<1>7. ASSUME NEW n \in N, NEW a \in ctx[n]
      PROVE  a[1] \in N /\ S.kind[a[1]] = "XOR_SPLIT" /\ ctx[a[1]] \subseteq ctx[n]
  <2>1. PICK l \in path[n] : a = Arc(l) /\ S.kind[l[1]] = "XOR_SPLIT"
    BY <1>1, <1>7 DEF Branching
  <2>2. a[1] = l[1] /\ l[1] \in N
    BY <1>3, <1>4, <1>7, <2>1 DEF Arc
  <2>3. path[l[1]] \subseteq path[n]
    BY <1>1, <2>1, LanesNest
  <2>4. Branching(S, path[l[1]]) \subseteq Branching(S, path[n])
    BY <2>3 DEF Branching
  <2>5. QED
    BY <1>1, <2>1, <2>2, <2>4
<1>8. ASSUME NEW e \in S.edges, S.kind[e[2]] # "XOR_JOIN"
      PROVE  Branching(S, Along(S, path, e)) = ctx[e[2]]
  <2>1. CASE S.kind[e[2]] \notin Joins
    <3>1. path[e[2]] = Along(S, path, e)
      BY <1>2, <2>1 DEF NestedBy, Laned
    <3>2. QED
      BY <1>1, <1>3, <3>1
  <2>2. CASE S.kind[e[2]] \in Joins
    <3>1. e[2] \in OfKinds(S, Joins) /\ e \in Into(S, e[2])
      BY <1>1, <1>3, <2>2 DEF OfKinds, Into
    <3>2. PICK l \in OutOf(S, open[e[2]]) : Along(S, path, e) = path[e[2]] \cup {l}
      BY <3>1, BranchesClose
    <3>3. S.kind[l[1]] # "XOR_SPLIT"
      BY <1>8, <3>1, <3>2, BranchesClose DEF OutOf
    <3>4. Branching(S, {l}) = {}
      BY <3>3, BranchingOne
    <3>5. Branching(S, Along(S, path, e)) = Branching(S, path[e[2]]) \cup Branching(S, {l})
      BY <3>2, BranchingJoins
    <3>6. QED
      BY <1>1, <1>3, <3>4, <3>5
  <2>3. QED
    BY <2>1, <2>2
<1>9. ASSUME NEW j \in N, S.kind[j] = "XOR_JOIN", NEW x, x = open[j]
      PROVE  /\ x \in N /\ S.kind[x] = "XOR_SPLIT" /\ ctx[j] = ctx[x] /\ low[x] < low[j]
             /\ \A e \in Into(S, j) : \E o \in OutOf(S, x) :
                  Branching(S, Along(S, path, e)) = ctx[x] \cup {Arc(o)}
             /\ \A o \in OutOf(S, x) : \E e \in Into(S, j) :
                  Branching(S, Along(S, path, e)) = ctx[x] \cup {Arc(o)}
             /\ \A e, f \in Into(S, j) :
                  Branching(S, Along(S, path, e)) = Branching(S, Along(S, path, f)) => e = f
  <2>1. x = open[j]
    BY <1>9
  <2>2. j \in OfKinds(S, Joins)
    BY <1>1, <1>9 DEF OfKinds, Joins
  <2>3. x \in N /\ path[x] = path[j] /\ rank[x] < rank[j]
    BY <1>1, <2>1, <2>2, OpensBelow
  <2>4. S.kind[x] = "XOR_SPLIT"
    BY <1>9, <2>1, <2>2, BranchesClose
  <2>5. low[x] < low[j]
    BY <1>1, <1>2, <1>9, <2>3, BelowGrows
  <2>6. ctx[j] = ctx[x] /\ ctx[j] = Branching(S, path[j])
    BY <1>1, <1>9, <2>3
  <2>7. \A l \in OutOf(S, x) : Branching(S, path[j] \cup {l}) = ctx[x] \cup {Arc(l)}
    <3>1. SUFFICES ASSUME NEW l \in OutOf(S, x)
                   PROVE  Branching(S, path[j] \cup {l}) = ctx[x] \cup {Arc(l)}
      OBVIOUS
    <3>2. S.kind[l[1]] = "XOR_SPLIT"
      BY <2>4, <3>1 DEF OutOf
    <3>3. Branching(S, {l}) = {Arc(l)}
      BY <3>2, BranchingOne
    <3>4. QED
      BY <2>6, <3>3, BranchingJoins
  <2>8. \A e \in Into(S, j) : \E o \in OutOf(S, x) : Branching(S, Along(S, path, e)) = ctx[x] \cup {Arc(o)}
    <3> TAKE e \in Into(S, j)
    <3>1. PICK o \in OutOf(S, x) : Along(S, path, e) = path[j] \cup {o}
      BY <2>1, <2>2, BranchesClose
    <3>2. QED
      BY <2>7, <3>1
  <2>9. \A o \in OutOf(S, x) : \E e \in Into(S, j) : Branching(S, Along(S, path, e)) = ctx[x] \cup {Arc(o)}
    <3> TAKE o \in OutOf(S, x)
    <3>1. PICK e \in Into(S, j) : Along(S, path, e) = path[j] \cup {o}
      BY <2>1, <2>2, BranchesClose
    <3>2. QED
      BY <2>7, <3>1
  <2>10. ASSUME NEW e \in Into(S, j), NEW f \in Into(S, j),
                Branching(S, Along(S, path, e)) = Branching(S, Along(S, path, f))
         PROVE  e = f
    <3>1. PICK o \in OutOf(S, x) : Along(S, path, e) = path[j] \cup {o}
      BY <2>1, <2>2, <2>10, BranchesClose
    <3>2. PICK p \in OutOf(S, x) : Along(S, path, f) = path[j] \cup {p}
      BY <2>1, <2>2, <2>10, BranchesClose
    <3>3. ctx[x] \cup {Arc(o)} = ctx[x] \cup {Arc(p)}
      BY <2>7, <2>10, <3>1, <3>2
    <3>4. Arc(o) \notin ctx[x]
      BY <2>1, <2>2, <2>6, <3>1, BranchesClose
    <3>5. Arc(o) = Arc(p)
      BY <3>3, <3>4
    <3>6. x \in NodesOfKind(S, "XOR_SPLIT") /\ o[2] = p[2]
      BY <1>1, <2>3, <2>4, <3>5 DEF NodesOfKind, Arc
    <3>7. o = p
      BY <1>2, <3>1, <3>2, <3>6 DEF NestedBy, Decisive
    <3>8. Along(S, path, e) = Along(S, path, f)
      BY <3>1, <3>2, <3>7
    <3>9. QED
      BY <2>2, <2>10, <3>8, BranchesClose
  <2>11. \A e, f \in Into(S, j) :
           Branching(S, Along(S, path, e)) = Branching(S, Along(S, path, f)) => e = f
    BY <2>10
  <2>12. QED
    BY <2>3, <2>4, <2>5, <2>6, <2>8, <2>9, <2>11
<1>10. \A a \in Arcs(S) : S.kind[a[2]] # "XOR_JOIN" =>
         Run(S, low, ctx, open)!EdgeCtx(a) = ctx[a[2]]
  <2>1. SUFFICES ASSUME NEW e \in S.edges, S.kind[Arc(e)[2]] # "XOR_JOIN"
                 PROVE  Run(S, low, ctx, open)!EdgeCtx(Arc(e)) = ctx[Arc(e)[2]]
    BY DEF Arcs
  <2>2. Arc(e)[2] = e[2]
    BY DEF Arc
  <2>3. Run(S, low, ctx, open)!EdgeCtx(Arc(e)) = Branching(S, Along(S, path, e))
    BY ArcBranches
  <2>4. Branching(S, Along(S, path, e)) = ctx[e[2]]
    BY <1>8, <2>1, <2>2
  <2>5. QED
    BY <2>2, <2>3, <2>4
<1>11. ASSUME NEW j \in N, S.kind[j] = "XOR_JOIN", NEW x, x = open[j],
              NEW I, I = Run(S, low, ctx, open)!Incoming(j),
              NEW O, O = Run(S, low, ctx, open)!Outgoing(x)
       PROVE  Shuts(S, low, ctx, open, j, x, I, O)
  <2>1. I = {Arc(e) : e \in Into(S, j)} /\ O = {Arc(e) : e \in OutOf(S, x)}
    <3>1. I = {Arc(e) : e \in Into(S, j)}
      BY <1>11, ArcsAt DEF Run!Incoming
    <3>2. O = {Arc(e) : e \in OutOf(S, x)}
      BY <1>11, ArcsAt DEF Run!Outgoing
    <3>3. QED
      BY <3>1, <3>2
  <2>2. \A e \in Into(S, j) :
          Run(S, low, ctx, open)!EdgeCtx(Arc(e)) = Branching(S, Along(S, path, e))
    BY ArcBranches DEF Into
  <2>3. x \in Run(S, low, ctx, open)!XorSplits /\ ctx[j] = ctx[x] /\ low[x] < low[j]
    BY <1>1, <1>9, <1>11 DEF Run!XorSplits
  <2>4. \A a \in I : \E o \in O : Run(S, low, ctx, open)!EdgeCtx(a) = ctx[x] \cup {o}
    <3>1. SUFFICES ASSUME NEW e \in Into(S, j)
                   PROVE  \E o \in OutOf(S, x) :
                            Run(S, low, ctx, open)!EdgeCtx(Arc(e)) = ctx[x] \cup {Arc(o)}
      BY <2>1
    <3>2. PICK o \in OutOf(S, x) : Branching(S, Along(S, path, e)) = ctx[x] \cup {Arc(o)}
      BY <1>9, <1>11
    <3>3. QED
      BY <2>2, <3>2
  <2>5. \A o \in O : \E a \in I : Run(S, low, ctx, open)!EdgeCtx(a) = ctx[x] \cup {o}
    <3>1. SUFFICES ASSUME NEW o \in OutOf(S, x)
                   PROVE  \E e \in Into(S, j) :
                            Run(S, low, ctx, open)!EdgeCtx(Arc(e)) = ctx[x] \cup {Arc(o)}
      BY <2>1
    <3>2. PICK e \in Into(S, j) : Branching(S, Along(S, path, e)) = ctx[x] \cup {Arc(o)}
      BY <1>9, <1>11
    <3>3. QED
      BY <2>2, <3>2
  <2>6. \A a, b \in I : Run(S, low, ctx, open)!EdgeCtx(a)
                         = Run(S, low, ctx, open)!EdgeCtx(b) => a = b
    <3>1. SUFFICES ASSUME NEW e \in Into(S, j), NEW f \in Into(S, j),
                          Run(S, low, ctx, open)!EdgeCtx(Arc(e))
                            = Run(S, low, ctx, open)!EdgeCtx(Arc(f))
                   PROVE  Arc(e) = Arc(f)
      BY <2>1
    <3>2. e = f
      BY <1>9, <1>11, <2>2, <3>1
    <3>3. QED
      BY <3>2
  <2>7. QED
    BY <2>3, <2>4, <2>5, <2>6 DEF Shuts
<1>12. \A n \in N : \A a \in ctx[n] :
         a[1] \in Run(S, low, ctx, open)!XorSplits /\ ctx[a[1]] \subseteq ctx[n]
  BY <1>1, <1>7 DEF Run!XorSplits
<1>13. ASSUME NEW j \in N, S.kind[j] = "XOR_JOIN"
       PROVE  Shuts(S, low, ctx, open, j, open[j], Run(S, low, ctx, open)!Incoming(j),
                    Run(S, low, ctx, open)!Outgoing(open[j]))
  BY <1>11, <1>13
<1>14. QED
  BY <1>1, <1>5, <1>6, <1>10, <1>12, <1>13, Zenon DEF Run!BlockOK, Shuts

(* Every value of the domain leads to a branch.                            *)
LEMMA ValuesLead ==
  ASSUME NEW S, K7(S, Values), NEW low, NEW ctx, NEW open
  PROVE  Run(S, low, ctx, open)!BranchesOK
<1>1. ASSUME NEW x \in NodesOfKind(S, "XOR_SPLIT"), NEW v \in Values
      PROVE  <<x, S.branch[x][v]>> \in Arcs(S)
  <2>1. S.branch[x][v] \in Succs(S, x)
    BY <1>1 DEF K7
  <2>2. PICK e \in S.edges : e[1] = x /\ e[2] = S.branch[x][v]
    BY <2>1 DEF Succs, OutOf
  <2>3. QED
    BY <2>2 DEF Arcs, Arc
<1>2. QED
  BY <1>1 DEF Run!BranchesOK, Run!XorSplits, NodesOfKind

(* Whatever edits, releases and copies have been accepted, what is stored  *)
(* is a schema as the engine needs it: without a cycle, every node but     *)
(* START entered and every node but END left, XOR blocks closed by their   *)
(* joins, and a branch for every value of a decision.  These are the       *)
(* assumptions of module Execution on its graph: what is proved of an      *)
(* instance there holds on every schema the editor lets through.           *)
THEOREM StoredRun == AnnSpec => [](\A id \in DOMAIN stored : Runs(stored[id]))
<1>1. ASSUME StoreInv, NEW id \in DOMAIN stored
      PROVE  Runs(stored[id])
  <2>1. PICK rank, path, open : Nest(stored[id], rank, path, open)
    BY <1>1, StoredNest
  <2>2. PICK S : S = stored[id]
    OBVIOUS
  <2>3. Founded(S) /\ K7(S, Values)
    BY <1>1, <2>2 DEF StoreInv, WellKept, Woven, Correct, Valid
  <2>4. PICK low : low = [n \in DOMAIN S.kind |-> Below(DOMAIN S.kind, rank, n)]
    OBVIOUS
  <2>5. PICK ctx : ctx = [n \in DOMAIN S.kind |-> Branching(S, path[n])]
    OBVIOUS
  <2>6. Run(S, low, ctx, open)!GraphOK
    BY <2>1, <2>2, <2>3, <2>4, RankedRuns
  <2>7. Run(S, low, ctx, open)!BlockOK
    BY <2>1, <2>2, <2>3, <2>4, <2>5, NestedRuns
  <2>8. Run(S, low, ctx, open)!BranchesOK
    BY <2>3, ValuesLead
  <2>9. QED
    BY <2>2, <2>6, <2>7, <2>8 DEF Runs
<1>2. StoreInv => \A id \in DOMAIN stored : Runs(stored[id])
  BY <1>1
<1>3. QED
  BY <1>2, AnnInOrder, PTL
=============================================================================
