------------------------------ MODULE SchemaOps ------------------------------
(***************************************************************************)
(* The modelling side: the change operations of operations.py on stored    *)
(* schemas, each a whole request -- read the schema, build a candidate,    *)
(* validate it, store it (_commit_or_422).  A refused request stores       *)
(* nothing; the ids it drew leave a gap in the numbering, which no rule    *)
(* looks at, so only accepted requests are steps.                          *)
(*                                                                         *)
(* A schema is a record of modules Validator and Rules with bind (the      *)
(* target, pinned version and mapped outputs of every SUBPROCESS node),    *)
(* links (the follow-ups, by number: target and version, 0 if not pinned), *)
(* notes (who carries a value class or a priority), library, state and     *)
(* version.                                                                *)
(* A node is <<prefix, number>>, as _new_id names it.  Edges carry an      *)
(* index, since two of them may join the same split and join.  Values are  *)
(* the cells of an ENUM domain; Otherwise is every value no branch lists.  *)
(* Here are the requests that change control flow, accesses, masks, calls  *)
(* and the lifecycle; module Annotations has those that attach the rest,   *)
(* which is carried along here.  Left out: labels and layout.              *)
(***************************************************************************)
EXTENDS Rules, Blocks

CONSTANTS
  Elems,          \* the data elements of every schema, all of one ENUM type
  Values, Otherwise,
  Partitions,     \* what clients ask for: [Values -> 1 .. n], onto
  Accesses,       \* the kinds of access clients ask for
  Widths,         \* the numbers of branches clients give an AND block
  RevisionIds,    \* schema ids a client may name for a revision
  Starts          \* stores reached by earlier requests: [stored, next, left]

ASSUME EditorAssumption ==
  /\ IsFiniteSet(Values) /\ Otherwise \in Values
  /\ \A p \in Partitions : DOMAIN p = Values
  /\ Accesses \subseteq {"reads", "writes", "mayread", "maywrite"}
  /\ Widths \subseteq Nat \ {0, 1}

VARIABLES
  stored,   \* the schema store: [schema id -> schema]
  next,     \* _counter: the next number _new_id hands out
  left      \* bound: the requests still to be accepted

vars == <<stored, next, left>>

START == <<"start", 0>>
END   == <<"end", 0>>
NoNode == <<"none", 0>>    \* no branch takes a value

-----------------------------------------------------------------------------
(* Building blocks of the operations.                                      *)

AddEdge(E, s, t) == E \cup {<<s, t, Cardinality({e \in E : e[1] = s /\ e[2] = t})>>}

Without(E, R) == {e \in E : e[1] \notin R /\ e[2] \notin R}

OnlyOf(T) == CHOOSE x \in T : TRUE
Pred(S, n) == OnlyOf({e[1] : e \in Into(S, n)})
Succ(S, n) == OnlyOf({e[2] : e \in OutOf(S, n)})

(* create_empty_schema.                                                    *)
Empty ==
  [kind |-> [n \in {START, END} |-> IF n = START THEN "START" ELSE "END"],
   edges |-> {<<START, END, 0>>},
   disc |-> <<>>, branch |-> <<>>, bind |-> <<>>, forms |-> <<>>,
   reads |-> {}, writes |-> {}, mayread |-> {}, maywrite |-> {},
   elems |-> {}, conns |-> {}, tmpls |-> {}, query |-> <<>>,
   services |-> <<>>, staffed |-> {}, notes |-> {}, times |-> <<>>, deadline |-> NoDeadline,
   links |-> <<>>, library |-> FALSE, state |-> "ENTWURF", version |-> 1]

(* The nodes behind which something may be inserted.                       *)
Anchors(S) == {a \in DOMAIN S.kind : S.kind[a] # "END" /\ Cardinality(OutOf(S, a)) = 1}

(* serial_insert: node n of kind k between anchor a and its successor.     *)
Spliced(S, a, n, k) ==
  [S EXCEPT !.kind = With(@, n, k),
            !.edges = (@ \ OutOf(S, a)) \cup {<<a, n, 0>>, <<n, Succ(S, a), 0>>}]

(* _insert_block: a balanced block of split, join and one activity per     *)
(* branch; ids are drawn in this order from number i on.                   *)
Block(S, a, i, type, width) ==
  LET split == <<"split", i>> join == <<"join", i + 1>>
      body(b) == <<"act", i + 1 + b>>
  IN [S EXCEPT
       !.kind = [n \in DOMAIN @ \cup {split, join} \cup {body(b) : b \in 1 .. width} |->
                   CASE n = split -> type
                     [] n = join -> IF type = "AND_SPLIT" THEN "AND_JOIN" ELSE "XOR_JOIN"
                     [] n \in DOMAIN @ -> @[n]
                     [] OTHER -> "ACTIVITY"],
       !.edges = (@ \ OutOf(S, a)) \cup {<<a, split, 0>>, <<join, Succ(S, a), 0>>}
                 \cup {<<split, body(b), 0>> : b \in 1 .. width}
                 \cup {<<body(b), join, 0>> : b \in 1 .. width}]

Branches(p) == Cardinality({p[v] : v \in Values})

(* conditional_insert: an XOR block with the decision stored at its split. *)
Conditional(S, a, i, x, p) ==
  LET split == <<"split", i>> IN
  [Block(S, a, i, "XOR_SPLIT", Branches(p)) EXCEPT
     !.disc = With(@, split, x),
     !.branch = With(@, split, [v \in Values |-> <<"act", i + 1 + p[v]>>])]

(* The binding of a SUBPROCESS node; its mapped outputs replace whatever   *)
(* the node wrote before.                                                  *)
Bound(S, n, t, version, outs) ==
  [S EXCEPT !.bind = With(@, n, [target |-> t, version |-> version, outs |-> outs]),
            !.writes = {w \in @ : w[1] # n} \cup {<<n, x>> : x \in outs}]

(* The accesses of node n to the elements of xs are gone.                  *)
Unconnected(S, n, xs) ==
  LET gone == {n} \X xs
  IN [S EXCEPT !.reads = @ \ gone, !.writes = @ \ gone,
               !.mayread = @ \ gone, !.maywrite = @ \ gone]

(* set_form: mask f of node n takes over the accesses to its elements.     *)
Masked(S, n, f) ==
  LET fields(k) == {<<n, x>> : x \in {x \in DOMAIN f : f[x] = k}}
  IN [Unconnected(S, n, DOMAIN f) EXCEPT
        !.reads = @ \cup fields("reads"), !.writes = @ \cup fields("writes"),
        !.mayread = @ \cup fields("mayread"), !.maywrite = @ \cup fields("maywrite"),
        !.forms = With(@, n, f)]

(* What convert_activity_to_subprocess takes from a node: everything but   *)
(* its value class, which is an attribute of the node.                     *)
Stripped(S, n) ==
  LET rest(f) == [m \in DOMAIN f \ {n} |-> f[m]]
  IN [Unconnected(S, n, S.elems) EXCEPT
        !.forms = rest(@), !.services = rest(@), !.times = rest(@),
        !.staffed = @ \ {n}, !.notes = @ \ {<<n, "priority">>}]

-----------------------------------------------------------------------------
(* Deletion.                                                               *)

(* _drop_nodes: what depends on a removed node goes with it; a priority    *)
(* stays, and a time constraint, which T1 does not let pass.               *)
Dropped(S, R) ==
  LET rest(f) == [n \in DOMAIN f \ R |-> f[n]]
      others(A) == {a \in A : a[1] \notin R} IN
  [S EXCEPT !.kind = rest(@), !.disc = rest(@), !.branch = rest(@), !.bind = rest(@),
            !.forms = rest(@), !.services = rest(@), !.staffed = @ \ R,
            !.reads = others(@), !.writes = others(@),
            !.mayread = others(@), !.maywrite = others(@),
            !.notes = @ \ (R \X {"value"})]

(* _matching_block: the nodes behind a split with their nesting depth, up  *)
(* to the join at depth 0, which closes the block.                         *)
Walk(S, split) ==
  LET closing(p) == S.kind[p[1]] \in Joins /\ p[2] = 0
      depth(p) == IF S.kind[p[1]] \in Splits THEN p[2] + 1
                  ELSE IF S.kind[p[1]] \in Joins THEN p[2] - 1 ELSE p[2]
      r[k \in Nat] ==
        IF k = 0 THEN {<<t, 0>> : t \in Succs(S, split)}
        ELSE LET q == r[k - 1] IN
             q \cup UNION {{<<t, depth(p)>> : t \in Succs(S, p[1])} :
                 p \in {p \in q : ~closing(p)}}
  IN r[Cardinality(DOMAIN S.kind)]

MatchingJoin(S, split) == OnlyOf({p[1] : p \in {p \in Walk(S, split) :
                                    S.kind[p[1]] \in Joins /\ p[2] = 0}})
Inner(S, split) == {p[1] : p \in Walk(S, split)} \ {MatchingJoin(S, split)}

(* Removing R between p and s closes the gap.                              *)
Closed(S, R, p, s) ==
  [Dropped(S, R) EXCEPT !.edges = AddEdge(Without(@, R), p, s)]

(* _delete_single_node_branch: the branch goes, its values to the          *)
(* otherwise branch; with one branch left, the gateway is dissolved around *)
(* it.                                                                     *)
BranchDeleted(S, n, split, join) ==
  LET E == Without(S.edges, {n})
      remaining == {e \in E : e[1] = split}
      to(v) == IF S.branch[split][v] # n THEN S.branch[split][v]
               ELSE IF S.branch[split][Otherwise] # n THEN S.branch[split][Otherwise]
               ELSE NoNode
      tail == OnlyOf({e[1] : e \in {e \in E : e[2] = join}})
  IN IF Cardinality(remaining) >= 2
       THEN [Dropped(S, {n}) EXCEPT
               !.edges = E,
               !.branch = [x \in DOMAIN @ |->
                             IF x = split THEN [v \in Values |-> to(v)] ELSE @[x]]]
     ELSE [Dropped(S, {n, split, join}) EXCEPT
             !.edges = AddEdge(AddEdge(Without(E, {split, join}),
                                       Pred(S, split), OnlyOf(remaining)[2]),
                               tail, Succ(S, join))]

(* The node is the only one on its branch.                                 *)
SoleOfBranch(S, n) ==
  LET p == Pred(S, n) s == Succ(S, n) IN
  S.kind[p] \in Splits /\ S.kind[s] \in Joins /\ MatchingJoin(S, p) = s

(* delete_node: a split takes its whole block with it.                     *)
Deleted(S, n) ==
  IF S.kind[n] \in Splits
    THEN Closed(S, {n, MatchingJoin(S, n)} \cup Inner(S, n),
                Pred(S, n), Succ(S, MatchingJoin(S, n)))
  ELSE IF SoleOfBranch(S, n) THEN BranchDeleted(S, n, Pred(S, n), Succ(S, n))
  ELSE Closed(S, {n}, Pred(S, n), Succ(S, n))

-----------------------------------------------------------------------------
(* Composition rules H1-H3 and F1 over the store.                          *)

ResolvesIn(store, b) ==
  b.target \in DOMAIN store /\ (b.version = 0 \/ store[b.target].version = b.version)
Resolves(b) == ResolvesIn(stored, b)

Bindings(S) == {S.bind[n] : n \in DOMAIN S.bind}
Links(S) == {S.links[k] : k \in DOMAIN S.links}

(* _has_subprocess_cycle: all schemas a schema calls, directly or not.     *)
Calls(S) ==
  LET r[k \in Nat] ==
        IF k = 0 THEN Bindings(S)
        ELSE LET q == r[k - 1] IN
             q \cup UNION {Bindings(stored[b.target]) : b \in {b \in q : Resolves(b)}}
  IN {b.target : b \in r[Cardinality(DOMAIN stored)]}

(* Mutant: a draft may be called or follow.                                *)
TargetsOK_AnyState(id, S) ==
  /\ \A l \in Links(S) : Resolves(l)
  /\ \A b \in Bindings(S) :
       Resolves(b) /\ b.outs \subseteq MustWrittenBefore(stored[b.target])[END]
  /\ id \notin Calls(S)

TargetsOK(id, S) ==
  /\ \A b \in Bindings(S) \cup Links(S) :
       Resolves(b) /\ stored[b.target].state = "RELEASED"
  /\ \A b \in Bindings(S) :
       b.outs \subseteq MustWrittenBefore(stored[b.target])[END]
  /\ id \notin Calls(S)

Correct(S) ==
  /\ Valid(S, Values) /\ AttachedOK(S)
  /\ DOMAIN S.bind = NodesOfKind(S, "SUBPROCESS")
  /\ \A b \in Bindings(S) : b.outs \subseteq S.elems

(* A schema has the fields of a new one, and finitely many of each; its    *)
(* times are numbers.                                                      *)
Timed(S) ==
  S.deadline \in Nat \cup {NoDeadline} /\ \A n \in DOMAIN S.times : S.times[n] \in Nat
Shaped(S) ==
  /\ S = [f \in DOMAIN Empty |-> S[f]]
  /\ IsFiniteSet(DOMAIN S.kind) /\ IsFiniteSet(S.edges) /\ IsFiniteSet(S.elems)
  /\ S.state \in {"ENTWURF", "RELEASED"} /\ Timed(S)

(* What id relies on in a store: released schemas that deliver what is     *)
(* mapped from them and were released before, which orders by their age.   *)
Relies(store, age, id) ==
  LET S == store[id] IN
  /\ \A b \in Bindings(S) \cup Links(S) :
       /\ ResolvesIn(store, b) /\ store[b.target].state = "RELEASED"
       /\ age[b.target] > age[id]
  /\ \A b \in Bindings(S) : b.outs \subseteq MustWrittenBefore(store[b.target])[END]

(* Every schema keeps the START and END it was created with, and each      *)
(* decision its branches; the counter has passed the numbers of its nodes. *)
Founded(S) ==
  /\ START \in NodesOfKind(S, "START") /\ END \in NodesOfKind(S, "END")
  /\ DOMAIN S.branch = DOMAIN S.disc
Drew(S, n) == \A m \in DOMAIN S.kind : m[2] \in Nat /\ m[2] < n

(* The stores a behaviour starts with hold what earlier requests accepted, *)
(* under numbers the counter has passed, with their blocks nested.         *)
ASSUME StartsAssumption ==
  \A start \in Starts : LET store == start.stored D == DOMAIN store IN
    /\ start.next \in Nat /\ start.left \in Nat
    /\ \A id \in D : id \in Nat /\ id < start.next /\ Shaped(store[id]) /\ Correct(store[id])
    /\ \A id \in D : Founded(store[id]) /\ Drew(store[id], start.next) /\ BlocksNest(store[id])
    /\ \E age \in [D -> 0 .. Cardinality(D)] :
         \A id \in D : store[id].state = "RELEASED" => Relies(store, age, id)

-----------------------------------------------------------------------------
Init == \E s \in Starts : stored = s.stored /\ next = s.next /\ left = s.left

(* Mutant: a release is taken back by the next edit.                       *)
Editable_Always(id) == stored[id].state \in {"ENTWURF", "RELEASED"}

Editable(id) == stored[id].state = "ENTWURF"

(* raise_if_invalid and _persist_schema; the operation drew n ids.  (The   *)
(* singleton has TLC build the candidate once, the comparison keeps it from *)
(* taking the disjuncts of the rules for alternatives.)                    *)
Commit(id, candidate, n) ==
  \E C \in {candidate} :
    /\ left > 0
    /\ Correct(C) = TRUE
    /\ stored' = With(stored, id, C)
    /\ next' = next + n
    /\ left' = left - 1

(* A request on a draft that draws no id.                                  *)
Change(id, candidate) == Editable(id) /\ Commit(id, candidate, 0)

CreateSchema == Commit(next, Empty, 1)

SerialInsert(id) ==
  /\ Editable(id)
  /\ \E a \in Anchors(stored[id]) :
       Commit(id, Spliced(stored[id], a, <<"act", next>>, "ACTIVITY"), 1)

ParallelInsert(id) ==
  /\ Editable(id)
  /\ \E a \in Anchors(stored[id]), w \in Widths :
       Commit(id, Block(stored[id], a, next, "AND_SPLIT", w), w + 2)

ConditionalInsert(id) ==
  /\ Editable(id)
  /\ \E a \in Anchors(stored[id]), x \in stored[id].elems, p \in Partitions :
       Commit(id, Conditional(stored[id], a, next, x, p), Branches(p) + 2)

DeleteNode(id) ==
  /\ Editable(id)
  /\ \E n \in DOMAIN stored[id].kind :
       /\ stored[id].kind[n] \notin Joins \cup {"START", "END"}
       /\ Commit(id, Deleted(stored[id], n), 0)

ConnectData(id) ==
  /\ Editable(id)
  /\ \E n \in NodesOfKind(stored[id], "ACTIVITY"), x \in stored[id].elems, k \in Accesses :
       Commit(id, [stored[id] EXCEPT ![k] = @ \cup {<<n, x>>}], 0)

SetForm(id) ==
  /\ Editable(id)
  /\ \E n \in NodesOfKind(stored[id], "ACTIVITY"), xs \in (SUBSET stored[id].elems) \ {{}} :
     \E f \in [xs -> Accesses] :
       Commit(id, Masked(stored[id], n, f), Cardinality(xs))

(* delete_form takes every access to the elements of the mask along.       *)
DeleteForm(id) ==
  /\ Editable(id)
  /\ \E n \in DOMAIN stored[id].forms :
       LET S == stored[id] IN
       Commit(id, [Unconnected(S, n, DOMAIN S.forms[n]) EXCEPT
                     !.forms = [m \in DOMAIN @ \ {n} |-> @[m]]], 0)

(* A SUBPROCESS of S is bound to a stored schema and the whole checked     *)
(* with the resolver.                                                      *)
Bind(id, S, n, used) ==
  \E t \in DOMAIN stored, outs \in SUBSET S.elems :
    LET C == Bound(S, n, t, stored[t].version, outs)
    IN TargetsOK(id, C) = TRUE /\ Commit(id, C, used)

InsertSubprocess(id) ==
  /\ Editable(id)
  /\ \E a \in Anchors(stored[id]) :
       Bind(id, Spliced(stored[id], a, <<"sub", next>>, "SUBPROCESS"), <<"sub", next>>, 1)

ConvertActivity(id) ==
  /\ Editable(id)
  /\ \E n \in NodesOfKind(stored[id], "ACTIVITY") :
       Bind(id, [Stripped(stored[id], n) EXCEPT !.kind[n] = "SUBPROCESS"], n, 0)

(* set_subprocess_binding, and set_subprocess_mapping (the same target).   *)
SetBinding(id) ==
  /\ Editable(id)
  /\ \E n \in DOMAIN stored[id].bind : Bind(id, stored[id], n, 0)

Release(id) ==
  /\ Editable(id)
  /\ TargetsOK(id, stored[id]) = TRUE
  /\ Commit(id, [stored[id] EXCEPT !.state = "RELEASED"], 0)

(* new_revision: the copy keeps all node ids.                              *)
Revision(id) == [stored[id] EXCEPT !.state = "ENTWURF", !.version = @ + 1]

NewRevision(id) ==
  stored[id].state = "RELEASED" /\ Commit(next, Revision(id), 1)

(* The same with an id the client names; post_new_revision stores the copy *)
(* there without looking.                                                  *)
NamedRevision(id) ==
  /\ stored[id].state = "RELEASED"
  /\ \E new \in RevisionIds : Commit(new, Revision(id), 0)

(* The requests of the modeller, of composition and of the lifecycle.      *)
Editing(id) ==
  \/ SerialInsert(id) \/ ParallelInsert(id) \/ ConditionalInsert(id)
  \/ DeleteNode(id) \/ ConnectData(id) \/ SetForm(id) \/ DeleteForm(id)
Composing(id) == InsertSubprocess(id) \/ ConvertActivity(id) \/ SetBinding(id)

Next ==
  \/ CreateSchema
  \/ \E id \in DOMAIN stored :
       Editing(id) \/ Composing(id) \/ Release(id) \/ NewRevision(id)

Spec == Init /\ [][Next]_vars

(* Clients that name ids.                                                  *)
NamingSpec == Init /\ [][Next \/ \E id \in DOMAIN stored : NamedRevision(id)]_vars

-----------------------------------------------------------------------------
(* Whatever edits made a schema, every choice of branches leads it to END, *)
(* with all or none of the edges into an AND_JOIN taken and at most one of *)
(* those into an XOR_JOIN: what K1 only counts, and what module Execution  *)
(* assumes of a schema's blocks, holds of every schema the editor stores.  *)
SoundFlow ==
  \A id \in DOMAIN stored : LET S == stored[id] IN \A c \in Routes(S) :
    LET ran == Ran(S, c) fired(n) == {e \in Into(S, n) : e[1] \in ran /\ Taken(S, c, e)} IN
    /\ END \in ran
    /\ \A n \in NodesOfKind(S, "AND_JOIN") : fired(n) \in {{}, Into(S, n)}
    /\ \A n \in NodesOfKind(S, "XOR_JOIN") : Cardinality(fired(n)) <= 1

(* Whatever is read, also by a split to decide, an activity or child that  *)
(* ran before has written, whichever branches were taken: the must-analysis*)
(* of D1 and K7 is right, and no deletion or conversion takes a supply.    *)
Supplied ==
  \A id \in DOMAIN stored : LET S == stored[id] IN \A c \in Routes(S) :
    LET ran == Ran(S, c) IN
    \A r \in S.reads \cup {<<x, S.disc[x]>> : x \in DOMAIN S.disc} :
      r[1] \in ran => \E w \in S.writes :
                     w[2] = r[2] /\ w[1] \in ran /\ r[1] \in Reachable(S, w[1])

(* Two nodes that write one element and both run do so one after the other *)
(* (D2), so that no order of completions decides what a later split sees.  *)
NoRaces ==
  \A id \in DOMAIN stored : LET S == stored[id] IN \A c \in Routes(S) :
    LET ran == Ran(S, c) IN
    \A v, w \in S.writes :
      v[2] = w[2] /\ v[1] # w[1] /\ v[1] \in ran /\ w[1] \in ran =>
        v[1] \in Reachable(S, w[1]) \/ w[1] \in Reachable(S, v[1])

(* A released schema calls released schemas that deliver, on every way to  *)
(* their END, each output mapped from them; and it never calls itself      *)
(* through them, in however many steps (H1-H3), while drafts and revisions *)
(* change around it.                                                       *)
CallsDeliver ==
  \A id \in DOMAIN stored : stored[id].state = "RELEASED" =>
    /\ id \notin Calls(stored[id])
    /\ \A b \in Bindings(stored[id]) :
         /\ Resolves(b) /\ stored[b.target].state = "RELEASED"
         /\ LET T == stored[b.target] IN \A c \in Routes(T), x \in b.outs :
              \E w \in T.writes : w[2] = x /\ w[1] \in Ran(T, c)

(* A released schema stays as it is, whatever is done to it or to others:  *)
(* release calls it "immutable for further edits", and running instances   *)
(* and callers rely on it.  Only its mark for the library may change.      *)
ReleasedImmutable ==
  [][\A id \in DOMAIN stored : stored[id].state = "RELEASED" =>
       stored'[id] = [stored[id] EXCEPT !.library = stored'[id].library]]_vars

=============================================================================
