--------------------------- MODULE EvolutionProofs ---------------------------
(***************************************************************************)
(* Proofs about the loop of module Engine with the changes of Evolution.   *)
(***************************************************************************)
EXTENDS Evolution, ValidatorProofs, SequenceTheorems

-----------------------------------------------------------------------------
(* Sequences, whatever they hold.                                          *)
IsSeq(s) == s \in Seq({s[k] : k \in DOMAIN s})

LEMMA SeqOf ==
  ASSUME NEW n \in Nat, NEW s, DOMAIN s = 1 .. n, s = [k \in 1 .. n |-> s[k]]
  PROVE  IsSeq(s) /\ Len(s) = n
<1> DEFINE T == {s[k] : k \in DOMAIN s}
<1>1. \A k \in 1 .. n : s[k] \in T
  OBVIOUS
<1> HIDE DEF T
<1>2. s \in [1 .. n -> T]
  BY <1>1
<1>3. s \in Seq(T) /\ Len(s) = n
  BY <1>2
<1>4. QED
  BY <1>3 DEF IsSeq, T

LEMMA SeqDomain ==
  ASSUME NEW s, IsSeq(s)
  PROVE  Len(s) \in Nat /\ DOMAIN s = 1 .. Len(s)
BY DEF IsSeq

LEMMA SeqAppend ==
  ASSUME NEW s, IsSeq(s), NEW x
  PROVE  /\ IsSeq(Append(s, x)) /\ Len(Append(s, x)) = Len(s) + 1
         /\ DOMAIN Append(s, x) = DOMAIN s \cup {Len(s) + 1}
         /\ \A k \in DOMAIN s : Append(s, x)[k] = s[k]
         /\ Append(s, x)[Len(s) + 1] = x
<1> DEFINE T == {s[k] : k \in DOMAIN s} \cup {x}
           t == Append(s, x)
<1>1. s \in Seq(T)
  BY DEF IsSeq
<1>2. t \in Seq(T) /\ Len(t) = Len(s) + 1 /\ DOMAIN t = 1 .. Len(s) + 1
  BY <1>1
<1>3. DOMAIN s = 1 .. Len(s) /\ Len(s) \in Nat
  BY <1>1
<1>4. (\A k \in DOMAIN s : t[k] = s[k]) /\ t[Len(s) + 1] = x
  BY <1>1, <1>3
<1>5. IsSeq(t)
  <2> HIDE DEF t, T
  <2>1. t \in [1 .. Len(t) -> T]
    BY <1>2
  <2>2. t = [k \in 1 .. Len(s) + 1 |-> t[k]] /\ Len(s) + 1 \in Nat
    BY <1>2, <1>3, <2>1
  <2>3. QED
    BY <1>2, <2>2, SeqOf
<1>6. QED
  BY <1>2, <1>3, <1>4, <1>5

LEMMA SeqFront ==
  ASSUME NEW s, IsSeq(s), s # <<>>
  PROVE  /\ Len(s) \in Nat \ {0}
         /\ IsSeq(SubSeq(s, 1, Len(s) - 1)) /\ Len(SubSeq(s, 1, Len(s) - 1)) = Len(s) - 1
         /\ DOMAIN SubSeq(s, 1, Len(s) - 1) = DOMAIN s \ {Len(s)}
         /\ \A k \in DOMAIN s \ {Len(s)} : SubSeq(s, 1, Len(s) - 1)[k] = s[k]
<1> DEFINE T == {s[k] : k \in DOMAIN s}
           t == SubSeq(s, 1, Len(s) - 1)
<1>1. s \in Seq(T) /\ Len(s) \in Nat \ {0} /\ DOMAIN s = 1 .. Len(s)
  BY DEF IsSeq
<1>2. t = [k \in 1 .. Len(s) - 1 |-> s[k]]
  BY <1>1
<1>3. Len(t) = Len(s) - 1 /\ DOMAIN t = 1 .. Len(s) - 1
  BY <1>1, <1>2
<1>4. IsSeq(t)
  <2>1. Len(s) - 1 \in Nat /\ t = [k \in 1 .. Len(s) - 1 |-> t[k]]
    BY <1>1, <1>2
  <2> HIDE DEF t
  <2>2. QED
    BY <1>3, <2>1, SeqOf
<1>5. QED
  BY <1>1, <1>2, <1>3, <1>4

LEMMA SeqAlike ==
  ASSUME NEW s, IsSeq(s), NEW t, t = [k \in DOMAIN s |-> t[k]]
  PROVE  IsSeq(t) /\ Len(t) = Len(s)
BY SeqDomain, SeqOf

LEMMA SeqEmpty == IsSeq(<<>>) /\ DOMAIN <<>> = {} /\ Len(<<>>) = 0
BY DEF IsSeq

-----------------------------------------------------------------------------
(* What the engine does to an instance: it marks a node, and signals the   *)
(* edges out of it when it is finished.                                    *)
Fields == {"id", "schema", "state", "ns", "es", "dec", "data", "parent", "pnode",
           "children", "followups", "own"}
Signs == {"TRUE_SIGNALED", "FALSE_SIGNALED"}

Kin(I, J) ==
  /\ DOMAIN I = Fields /\ DOMAIN J = Fields
  /\ J.id = I.id /\ J.schema = I.schema /\ J.parent = I.parent /\ J.pnode = I.pnode
  /\ J.own = I.own
Signed(S, es, after, n) ==
  /\ DOMAIN after = DOMAIN es \cup OutOf(S, n)
  /\ \A e \in OutOf(S, n) : after[e] \in Signs
  /\ \A e \in DOMAIN es \ OutOf(S, n) : after[e] = es[e]
Marked(S, I, J, n, s) ==
  /\ J.ns = [I.ns EXCEPT ![n] = s]
  /\ IF s \in Terminal THEN Signed(S, I.es, J.es, n) ELSE J.es = I.es
Moved(S, I, J, n, s) == Kin(I, J) /\ Marked(S, I, J, n, s)
Family(I, J) == J.children = I.children /\ J.followups = I.followups

LEMMA SignalledIs ==
  ASSUME NEW S, NEW es, NEW n, NEW chosen
  PROVE  Signed(S, es, Signalled(S, es, n, chosen), n)
<1> DEFINE after == Signalled(S, es, n, chosen)
<1>1. after = [e \in DOMAIN es \cup OutOf(S, n) |->
                 IF e[1] # n \/ e \notin S.edges THEN es[e]
                 ELSE IF e[2] \in chosen THEN "TRUE_SIGNALED" ELSE "FALSE_SIGNALED"]
  BY DEF Signalled
<1>2. \A e : e \in OutOf(S, n) <=> e \in S.edges /\ e[1] = n
  BY DEF OutOf
<1>3. DOMAIN after = DOMAIN es \cup OutOf(S, n)
  BY <1>1
<1>4. \A e \in OutOf(S, n) : after[e] \in Signs
  BY <1>1, <1>2 DEF Signs
<1>5. \A e \in DOMAIN es \ OutOf(S, n) : after[e] = es[e]
  BY <1>1, <1>2
<1>6. QED
  BY <1>3, <1>4, <1>5 DEF Signed

LEMMA CompleteNodeIs ==
  ASSUME NEW S, NEW I, DOMAIN I = Fields, NEW n, NEW t
  PROVE  LET J == CompleteNode(S, I, n, t) IN
         /\ Moved(S, I, J, n, "COMPLETED") /\ Family(I, J)
         /\ J.state = I.state /\ J.data = I.data
<1> DEFINE X == IF S.kind[n] = "XOR_SPLIT" THEN {t} ELSE NodesOf(S)
           J == CompleteNode(S, I, n, t)
<1>1. J = [I EXCEPT !.ns = [I.ns EXCEPT ![n] = "COMPLETED"], !.es = Signalled(S, I.es, n, X)]
  BY DEF CompleteNode
<1>2. PICK es2 : es2 = Signalled(S, I.es, n, X)
  OBVIOUS
<1>3. Signed(S, I.es, es2, n)
  BY <1>2, SignalledIs
<1>4. J = [I EXCEPT !.ns = [I.ns EXCEPT ![n] = "COMPLETED"], !.es = es2]
  BY <1>1, <1>2
<1> HIDE DEF J
<1>5. DOMAIN J = Fields /\ J.ns = [I.ns EXCEPT ![n] = "COMPLETED"] /\ J.es = es2
  BY <1>4 DEF Fields
<1>6. Kin(I, J) /\ Family(I, J) /\ J.state = I.state /\ J.data = I.data
  BY <1>4 DEF Fields, Kin, Family
<1>7. QED
  BY <1>3, <1>5, <1>6 DEF Moved, Marked, Terminal, J

LEMMA SkipNodeIs ==
  ASSUME NEW S, NEW I, DOMAIN I = Fields, NEW n
  PROVE  LET J == SkipNode(S, I, n) IN
         /\ Moved(S, I, J, n, "SKIPPED") /\ Family(I, J)
         /\ J.state = I.state /\ J.data = I.data
<1> DEFINE J == SkipNode(S, I, n)
<1>1. J = [I EXCEPT !.ns = [I.ns EXCEPT ![n] = "SKIPPED"], !.es = Signalled(S, I.es, n, {})]
  BY DEF SkipNode
<1>2. PICK es2 : es2 = Signalled(S, I.es, n, {})
  OBVIOUS
<1>3. Signed(S, I.es, es2, n)
  BY <1>2, SignalledIs
<1>4. J = [I EXCEPT !.ns = [I.ns EXCEPT ![n] = "SKIPPED"], !.es = es2]
  BY <1>1, <1>2
<1> HIDE DEF J
<1>5. DOMAIN J = Fields /\ J.ns = [I.ns EXCEPT ![n] = "SKIPPED"] /\ J.es = es2
  BY <1>4 DEF Fields
<1>6. Kin(I, J) /\ Family(I, J) /\ J.state = I.state /\ J.data = I.data
  BY <1>4 DEF Fields, Kin, Family
<1>7. QED
  BY <1>3, <1>5, <1>6 DEF Moved, Marked, Terminal, J

LEMMA JoinNodeIs ==
  ASSUME NEW S, NEW I, DOMAIN I = Fields, NEW n, NEW C
  PROVE  LET J == JoinNode(S, I, n, C) IN
         /\ Moved(S, I, J, n, "COMPLETED") /\ Family(I, J) /\ J.state = I.state
<1> DEFINE d == Overlay(I.data, Mapped(Turned(S.bind[n].outp), C.data))
<1>1. PICK K : K = [I EXCEPT !.data = d]
  OBVIOUS
<1>2. Kin(I, K) /\ Family(I, K) /\ K.state = I.state /\ K.ns = I.ns /\ K.es = I.es
  BY <1>1 DEF Fields, Kin, Family
<1>3. PICK J : J = CompleteNode(S, K, n, NoNode)
  OBVIOUS
<1>4. Moved(S, K, J, n, "COMPLETED") /\ Family(K, J) /\ J.state = K.state
  BY <1>2, <1>3, CompleteNodeIs DEF Kin
<1>5. J = JoinNode(S, I, n, C)
  BY <1>1, <1>3 DEF JoinNode
<1>6. Moved(S, I, J, n, "COMPLETED") /\ Family(I, J) /\ J.state = I.state
  BY <1>2, <1>4 DEF Moved, Marked, Kin, Family
<1>7. QED
  BY <1>5, <1>6

LEMMA EvaluatedIs ==
  ASSUME NEW S, NEW I, DOMAIN I = Fields, NEW n
  PROVE  LET J == Evaluated(S, I, n) IN
         /\ \E s \in {"ACTIVATED", "SKIPPED"} : Moved(S, I, J, n, s)
         /\ Family(I, J) /\ J.state = I.state
<1>1. PICK J : J = Evaluated(S, I, n)
  OBVIOUS
<1>2. CASE J = SkipNode(S, I, n)
  BY <1>1, <1>2, SkipNodeIs
<1>3. CASE J = [I EXCEPT !.ns[n] = "ACTIVATED"]
  <2>1. Kin(I, J) /\ Family(I, J) /\ J.state = I.state
    BY <1>3 DEF Kin, Fields, Family
  <2>2. J.ns = [I.ns EXCEPT ![n] = "ACTIVATED"] /\ J.es = I.es
    BY <1>3 DEF Fields
  <2>3. Moved(S, I, J, n, "ACTIVATED")
    BY <2>1, <2>2 DEF Moved, Marked, Terminal
  <2>4. QED
    BY <1>1, <2>1, <2>3
<1>4. J = SkipNode(S, I, n) \/ J = [I EXCEPT !.ns[n] = "ACTIVATED"]
  BY <1>1 DEF Evaluated
<1>5. QED
  BY <1>2, <1>3, <1>4

LEMMA VisitedIs ==
  ASSUME NEW S, NEW I, DOMAIN I = Fields, NEW n, S.kind[n] = "END" => OutOf(S, n) = {},
         NEW J, J = Visited(S, I, n)
  PROVE  /\ Moved(S, I, J, n, "COMPLETED") /\ Family(I, J)
         /\ J.state = IF S.kind[n] = "END" THEN "COMPLETED" ELSE I.state
<1>1. J = Visited(S, I, n)
  OBVIOUS
<1>2. CASE S.kind[n] = "END"
  <2>1. J = [I EXCEPT !.ns = [I.ns EXCEPT ![n] = "COMPLETED"], !.state = "COMPLETED"]
    BY <1>1, <1>2 DEF Visited
  <2>2. Kin(I, J) /\ Family(I, J) /\ J.state = "COMPLETED"
    BY <2>1 DEF Kin, Fields, Family
  <2>3. J.ns = [I.ns EXCEPT ![n] = "COMPLETED"] /\ J.es = I.es
    BY <2>1 DEF Fields
  <2>4. Signed(S, I.es, J.es, n)
    BY <1>2, <2>3 DEF Signed
  <2>5. QED
    BY <1>1, <1>2, <2>2, <2>3, <2>4 DEF Moved, Marked
<1>3. CASE S.kind[n] = "XOR_SPLIT"
  <2>1. PICK K : K = [I EXCEPT !.dec[n] = XorTarget(S, I, n)]
    OBVIOUS
  <2>2. Kin(I, K) /\ Family(I, K) /\ K.state = I.state /\ K.ns = I.ns /\ K.es = I.es
    BY <2>1 DEF Fields, Kin, Family
  <2>3. J = CompleteNode(S, K, n, XorTarget(S, I, n))
    BY <1>1, <1>3, <2>1 DEF Visited
  <2>4. Moved(S, K, J, n, "COMPLETED") /\ Family(K, J) /\ J.state = K.state
    BY <2>2, <2>3, CompleteNodeIs DEF Kin
  <2>5. Moved(S, I, J, n, "COMPLETED") /\ Family(I, J) /\ J.state = I.state
    BY <2>2, <2>4 DEF Moved, Marked, Kin, Family
  <2>6. QED
    BY <1>1, <1>3, <2>5
<1>4. CASE S.kind[n] \notin {"END", "XOR_SPLIT"}
  <2>1. J = CompleteNode(S, I, n, NoNode)
    BY <1>1, <1>4 DEF Visited
  <2>2. Moved(S, I, J, n, "COMPLETED") /\ Family(I, J) /\ J.state = I.state
    BY <2>1, CompleteNodeIs
  <2>3. QED
    BY <1>1, <1>4, <2>2
<1>5. QED
  BY <1>2, <1>3, <1>4

(* A parent that takes up a child: the node waits for it, or is done.      *)
Adopts(S, I, J, n, C) ==
  /\ Moved(S, I, J, n, IF C.state = "COMPLETED" THEN "COMPLETED" ELSE "RUNNING")
  /\ J.children = [I.children EXCEPT ![n] = C.id]
  /\ J.followups = I.followups /\ J.state = I.state

LEMMA AdoptIs ==
  ASSUME NEW S, NEW I, DOMAIN I = Fields, NEW n, NEW C, NEW J, J = Adopt(S, I, n, C)
  PROVE  Adopts(S, I, J, n, C)
<1>1. PICK K : K = [I EXCEPT !.ns[n] = "RUNNING", !.children[n] = C.id]
  OBVIOUS
<1>2. /\ Kin(I, K) /\ K.children = [I.children EXCEPT ![n] = C.id]
      /\ K.followups = I.followups /\ K.state = I.state
  BY <1>1 DEF Kin, Fields
<1>3. K.ns = [I.ns EXCEPT ![n] = "RUNNING"] /\ K.es = I.es
  BY <1>1 DEF Fields
<1>4. CASE C.state = "COMPLETED"
  <2>1. J = JoinNode(S, K, n, C)
    BY <1>1, <1>4 DEF Adopt
  <2>2. Moved(S, K, J, n, "COMPLETED") /\ Family(K, J) /\ J.state = K.state
    BY <1>2, <2>1, JoinNodeIs DEF Kin
  <2>3. J.ns = [I.ns EXCEPT ![n] = "COMPLETED"] /\ Signed(S, I.es, J.es, n)
    BY <1>3, <2>2 DEF Moved, Marked, Terminal
  <2>4. /\ Kin(I, J) /\ J.children = [I.children EXCEPT ![n] = C.id]
        /\ J.followups = I.followups /\ J.state = I.state
    BY <1>2, <2>2 DEF Moved, Kin, Family
  <2>5. QED
    BY <1>4, <2>3, <2>4 DEF Moved, Marked, Terminal, Adopts
<1>5. CASE C.state # "COMPLETED"
  <2>1. J = K
    BY <1>1, <1>5 DEF Adopt
  <2>2. QED
    BY <1>2, <1>3, <1>5, <2>1 DEF Moved, Marked, Terminal, Adopts
<1>6. QED
  BY <1>4, <1>5

LEMMA NewInstanceIs ==
  ASSUME NEW name, NEW id, NEW seed, NEW parent, NEW pnode
  PROVE  LET J == NewInstance(name, id, seed, parent, pnode)
             S == Schemas[name]
         IN /\ DOMAIN J = Fields /\ J.id = id /\ J.schema = name /\ J.state = "RUNNING"
            /\ J.ns = [n \in NodesOf(S) |-> IF S.kind[n] = "START" THEN "ACTIVATED" ELSE "NOT_ACTIVATED"]
            /\ J.es = [e \in S.edges |-> "NOT_SIGNALED"]
            /\ J.parent = parent /\ J.pnode = pnode /\ J.own = <<>>
            /\ J.children = [n \in NodesOf(S) |-> 0] /\ J.followups = <<>>
BY DEF NewInstance, Fields

-----------------------------------------------------------------------------
(* What the engine relies on in a schema, released or of one instance: its *)
(* nodes are listed once each, and what it calls or starts is released.    *)
Listed(order, nodes) ==
  /\ order \in Seq(nodes)
  /\ \A n \in nodes : \E j \in DOMAIN order : \A h \in DOMAIN order : order[h] = n <=> h = j

Drawn(S) ==
  /\ DOMAIN S = {"order", "kind", "edges", "disc", "branch", "bind", "reads", "writes", "links"}
  /\ Valid(S, Typed)
  /\ IsFiniteSet(NodesOf(S)) /\ NoNode \notin NodesOf(S)
  /\ \A n \in NodesOf(S) : S.kind[n] \in NodeTypes
  /\ S.edges \subseteq NodesOf(S) \X NodesOf(S)
  /\ Listed(S.order, NodesOf(S))
  /\ DOMAIN S.bind \subseteq NodesOfKind(S, "SUBPROCESS")
  /\ \A n \in DOMAIN S.bind : S.bind[n].target \in DOMAIN Schemas
  /\ S.links \in Seq({S.links[k] : k \in DOMAIN S.links})
  /\ \A k \in DOMAIN S.links : S.links[k].target \in DOMAIN Schemas

LEMMA SchemaDrawn ==
  ASSUME NEW name \in DOMAIN Schemas
  PROVE  Drawn(Schemas[name])
<1>1. SchemaOK(Schemas[name])
  BY SchemasAssumption
<1>2. QED
  BY <1>1 DEF SchemaOK, Drawn, Listed

-----------------------------------------------------------------------------
(* The shape of the state: instances stand at the place of their id, and a *)
(* function at work has a copy of a stored instance.                       *)
Inst(I) ==
  /\ DOMAIN I = Fields
  /\ I.id \in Nat /\ I.parent \in Nat /\ I.parent < I.id
  /\ I.pnode # NoNode => I.parent # 0
  /\ I.schema \in DOMAIN Schemas /\ Drawn(Effective(I))
  /\ NodesOf(Schemas[I.schema]) \subseteq DOMAIN I.children
  /\ NodesOfKind(Effective(I), "SUBPROCESS") \subseteq DOMAIN I.children

Tasks == {"create", "complete", "join"}
Places == {"visit", "evaluate", "follow"}
Frame(F, st) ==
  /\ DOMAIN F = {"task", "pc", "i", "k", "moved"}
  /\ F.task \in Tasks /\ F.pc \in Places /\ F.k \in Nat \ {0}
  /\ F.pc = "evaluate" /\ ~F.moved => F.k = 1
  /\ Inst(F.i) /\ F.i.id \in DOMAIN st /\ Kin(st[F.i.id], F.i)

(* A function that waits for an instance it has created stands at a        *)
(* SUBPROCESS node that has no child yet, or at a follow-up.               *)
At(F) == SchemaOf(F).order[F.k]
Waits(F) ==
  \/ /\ F.pc = "visit" /\ At(F) \in NodesOf(SchemaOf(F)) /\ Spawns(SchemaOf(F), At(F))
     /\ At(F) \in DOMAIN F.i.ns /\ F.i.ns[At(F)] = "ACTIVATED" /\ F.i.children[At(F)] = 0
  \/ F.pc = "follow"

(* The frame above F works on an instance made for F.                      *)
Above(cs, c, k) == IF k = Len(cs) THEN c ELSE cs[k + 1]
MadeFor(F, I) ==
  IF F.pc = "visit" THEN I.parent = F.i.id /\ I.pnode = At(F) ELSE I.pnode = NoNode

Stored(st) == IsSeq(st) /\ \A id \in DOMAIN st : Inst(st[id]) /\ st[id].id = id
Working(st, c, cs, size) ==
  /\ Frame(c, st) /\ (c.task = "create" <=> c.i.id > size)
  /\ cs # <<>> => c.task = "create"
  /\ \A k \in DOMAIN cs :
       /\ Frame(cs[k], st) /\ Waits(cs[k]) /\ (cs[k].task = "create" <=> cs[k].i.id > size)
       /\ cs[k].i.id < c.i.id
       /\ k > 1 => cs[k].task = "create"
       /\ \A j \in DOMAIN cs : j < k => cs[j].i.id < cs[k].i.id
       /\ MadeFor(cs[k], Above(cs, c, k).i)
Shape ==
  /\ Stored(store) /\ IsSeq(callers) /\ IsSeq(past) /\ Len(past) <= Len(store)
  /\ call = Idle => callers = <<>>
  /\ call # Idle => Working(store, call, callers, Len(past))

-----------------------------------------------------------------------------
(* What the steps of the engine do.                                        *)

(* A scan or a round ends, or a follow-up does not fire.                   *)
Passes(c, d) ==
  \E p, j, b :
    /\ p \in Places /\ j \in Nat \ {0}
    /\ d = [c EXCEPT !.pc = p, !.k = j, !.moved = b]
    /\ p = "follow" <=> c.pc = "follow"
    /\ p = "evaluate" => j = 1

(* Node n is visited, or evaluated.                                        *)
Visits(S, I, J, n) ==
  /\ n \in NodesOf(S) /\ n \in DOMAIN I.ns /\ I.ns[n] = "ACTIVATED"
  /\ S.kind[n] # "ACTIVITY" /\ ~Spawns(S, n)
  /\ Moved(S, I, J, n, "COMPLETED") /\ Family(I, J)
  /\ J.state = IF S.kind[n] = "END" THEN "COMPLETED" ELSE I.state
Evaluates(S, I, J, n) ==
  /\ n \in NodesOf(S) /\ n \in DOMAIN I.ns /\ I.ns[n] = "NOT_ACTIVATED"
  /\ Into(S, n) # {} /\ Into(S, n) \subseteq DOMAIN I.es /\ "NOT_SIGNALED" \notin Signals(S, I, n)
  /\ \E s \in {"ACTIVATED", "SKIPPED"} : Moved(S, I, J, n, s)
  /\ Family(I, J) /\ J.state = I.state
Works(c, d) ==
  \E n, J, j :
    /\ j \in Nat \ {0}
    /\ d = [c EXCEPT !.i = J, !.k = j, !.moved = TRUE]
    /\ \/ c.pc = "visit" /\ Visits(SchemaOf(c), c.i, J, n)
       \/ c.pc = "evaluate" /\ Evaluates(SchemaOf(c), c.i, J, n)

SpawnsChild(c, F, I) ==
  \E j :
    /\ j \in Nat \ {0} /\ F = [c EXCEPT !.k = j] /\ c.pc = "visit" /\ Waits(F)
    /\ I = Child(SchemaOf(c), c.i, At(F))

(* Nothing is left to evaluate.                                            *)
AtRest(c) == c.pc = "evaluate" /\ ToEvaluate(SchemaOf(c), c.i) = {}

LEMMA NothingFirst ==
  ASSUME NEW S, Drawn(S), NEW todo \in SUBSET NodesOf(S), First(S, 1, todo) = {}
  PROVE  todo = {}
<1>1. S.order \in Seq(NodesOf(S))
  BY DEF Drawn, Listed
<1>2. PICK m \in Nat : m = Len(S.order) /\ DOMAIN S.order = 1 .. m
  BY <1>1
<1> DEFINE found == {j \in 1 .. m : S.order[j] \in todo}
<1>3. SUFFICES ASSUME todo # {} PROVE FALSE
  OBVIOUS
<1>4. PICK n \in todo : TRUE
  BY <1>3
<1>5. \E j \in DOMAIN S.order : S.order[j] = n
  BY <1>4 DEF Drawn, Listed
<1>6. found # {} /\ found \in SUBSET Nat
  BY <1>2, <1>4, <1>5
<1> HIDE DEF found
<1>7. PICK j \in found : \A h \in found : j <= h
  BY <1>6, LeastNumber
<1>8. j \in 1 .. m /\ S.order[j] \in todo
  BY <1>7 DEF found
<1>9. \A h \in 1 .. j - 1 : S.order[h] \notin todo
  BY <1>2, <1>7, <1>8 DEF found
<1>10. j \in First(S, 1, todo)
  BY <1>2, <1>8, <1>9 DEF First
<1>11. QED
  BY <1>10

LEMMA FoundFirst ==
  ASSUME NEW S, Drawn(S), NEW k \in Nat \ {0}, NEW todo, NEW j \in First(S, k, todo)
  PROVE  S.order[j] \in todo /\ j \in Nat \ {0}
<1>1. Len(S.order) \in Nat
  BY DEF Drawn, Listed
<1>2. QED
  BY <1>1 DEF First

LEMMA SchemaOfDrawn ==
  ASSUME NEW F, Inst(F.i)
  PROVE  Drawn(SchemaOf(F))
BY SchemaDrawn DEF Inst, SchemaOf

LEMMA EndHasNoWayOut ==
  ASSUME NEW S, Drawn(S), NEW n \in NodesOf(S), S.kind[n] = "END"
  PROVE  OutOf(S, n) = {}
<1>1. Cardinality(OutOf(S, n)) = 0
  BY DEF Drawn, Valid, K2, DegreesOK, NodesOf
<1>2. IsFiniteSet(OutOf(S, n))
  <2>1. IsFiniteSet(NodesOf(S) \X NodesOf(S))
    BY FS_Product DEF Drawn
  <2>2. OutOf(S, n) \subseteq NodesOf(S) \X NodesOf(S)
    BY DEF Drawn, OutOf
  <2>3. QED
    BY <2>1, <2>2, FS_Subset
<1>3. QED
  BY <1>1, <1>2, FS_EmptySet

LEMMA PassesOf ==
  ASSUME NEW c, NEW p \in Places, NEW j \in Nat \ {0}, NEW b,
         p = "follow" <=> c.pc = "follow", p = "evaluate" => j = 1
  PROVE  Passes(c, [c EXCEPT !.pc = p, !.k = j, !.moved = b])
BY Zenon DEF Passes

LEMMA WorksOf ==
  ASSUME NEW c, NEW n, NEW J, NEW j \in Nat \ {0},
         \/ c.pc = "visit" /\ Visits(SchemaOf(c), c.i, J, n)
         \/ c.pc = "evaluate" /\ Evaluates(SchemaOf(c), c.i, J, n)
  PROVE  Works(c, [c EXCEPT !.i = J, !.k = j, !.moved = TRUE])
BY Zenon DEF Works

LEMMA StepIs ==
  ASSUME Shape, Visit \/ EvaluateTargets \/ TriggerFollowUps
  PROVE  /\ call # Idle
         /\ \/ Raise
            \/ \E d : (Passes(call, d) \/ Works(call, d)) /\ Goes(d)
            \/ \E F, I : SpawnsChild(call, F, I) /\ Create(F, I)
            \/ /\ call.pc = "follow" /\ call.k \in DOMAIN Links(call)
               /\ Create(call, FollowUp(Links(call)[call.k], call.i))
            \/ AtRest(call) /\ call.i.state = "COMPLETED" /\ Advanced(call)
            \/ AtRest(call) /\ call.i.state # "COMPLETED" /\ Return(call.i)
            \/ call.pc = "follow" /\ Followed(call)
<1> DEFINE S == SchemaOf(call)
           I == call.i
<1>1. call # Idle /\ Inst(I)
  <2>1. call # Idle
    BY DEF Visit, EvaluateTargets, TriggerFollowUps, Idle
  <2>2. QED
    BY <2>1 DEF Shape, Working, Frame
<1>2. Drawn(S) /\ DOMAIN I = Fields /\ call.k \in Nat \ {0}
  BY <1>1, SchemaOfDrawn DEF Inst, Shape, Working, Frame
<1>8. DOMAIN I = Fields
  BY <1>2
<1>7. 1 \in Nat \ {0} /\ call.k + 1 \in Nat \ {0}
  BY <1>2
<1>3. CASE Visit
  <2>1. call.pc = "visit"
    BY <1>3 DEF Visit
  <2>2. ASSUME NEW j \in First(S, call.k, ToVisit(S, I)), VisitNode(S, I, S.order[j], j)
        PROVE  \/ Raise
               \/ \E d : Works(call, d) /\ Goes(d)
               \/ \E F, C : SpawnsChild(call, F, C) /\ Create(F, C)
    <3>1. PICK n : n = S.order[j]
      OBVIOUS
    <3>2. n \in ToVisit(S, I) /\ j \in Nat \ {0} /\ j + 1 \in Nat \ {0}
      BY <1>2, <2>2, <3>1, FoundFirst
    <3>3. CASE VisitFails(S, I, n)
      BY <2>2, <3>1, <3>3 DEF VisitNode
    <3>4. CASE ~VisitFails(S, I, n) /\ Spawns(S, n)
      <4>1. Create([call EXCEPT !.k = j], Child(S, I, n))
        BY <2>2, <3>1, <3>4 DEF VisitNode
      <4>2. PICK F : F = [call EXCEPT !.k = j]
        OBVIOUS
      <4>3. F.i = I /\ F.k = j /\ F.pc = "visit" /\ F.task = call.task
        BY <4>2, <2>1, <1>1 DEF Shape, Working, Frame
      <4>4. SchemaOf(F) = S /\ At(F) = n
        BY <4>3, <3>1 DEF SchemaOf, At
      <4>5. Waits(F)
        BY <3>2, <3>4, <4>3, <4>4 DEF Waits, ToVisit, VisitFails, Spawns
      <4>6. SpawnsChild(call, F, Child(S, I, n))
        BY <2>1, <3>2, <4>2, <4>4, <4>5 DEF SpawnsChild
      <4>7. QED
        BY <4>1, <4>2, <4>6
    <3>5. CASE ~VisitFails(S, I, n) /\ ~Spawns(S, n)
      <4>1. Goes([call EXCEPT !.i = Visited(S, I, n), !.k = j + 1, !.moved = TRUE])
        BY <2>2, <3>1, <3>5 DEF VisitNode
      <4>2. n \in NodesOf(S) /\ n \in DOMAIN I.ns /\ I.ns[n] = "ACTIVATED" /\ S.kind[n] # "ACTIVITY"
        BY <3>2, <3>5 DEF ToVisit, VisitFails
      <4>3. S.kind[n] = "END" => OutOf(S, n) = {}
        BY <1>2, <4>2, EndHasNoWayOut
      <4>4. PICK J : J = Visited(S, I, n)
        OBVIOUS
      <4>5. /\ Moved(S, I, J, n, "COMPLETED") /\ Family(I, J)
            /\ J.state = IF S.kind[n] = "END" THEN "COMPLETED" ELSE I.state
        BY <1>8, <4>3, <4>4, VisitedIs
      <4>6. Visits(S, I, J, n)
        BY <3>5, <4>2, <4>5 DEF Visits
      <4>7. QED
        BY <2>1, <3>2, <4>1, <4>4, <4>6, WorksOf, Zenon
    <3>6. QED
      BY <3>3, <3>4, <3>5
  <2>3. CASE Goes([call EXCEPT !.pc = "evaluate", !.k = 1])
    <3>1. [call EXCEPT !.pc = "evaluate", !.k = 1]
            = [call EXCEPT !.pc = "evaluate", !.k = 1, !.moved = call.moved]
      BY <1>1 DEF Shape, Working, Frame
    <3>2. Passes(call, [call EXCEPT !.pc = "evaluate", !.k = 1, !.moved = call.moved])
      BY <2>1, <1>7, PassesOf, Zenon DEF Places
    <3>3. Passes(call, [call EXCEPT !.pc = "evaluate", !.k = 1])
      BY <3>1, <3>2, Zenon
    <3>4. QED
      BY <1>1, <2>3, <3>3
  <2>4. QED
    BY <1>1, <1>3, <2>2, <2>3 DEF Visit
<1>4. CASE EvaluateTargets
  <2>1. call.pc = "evaluate"
    BY <1>4 DEF EvaluateTargets
  <2>2. ASSUME NEW j \in First(S, call.k, ToEvaluate(S, I)), EvaluateNode(S, I, S.order[j], j)
        PROVE  Raise \/ \E d : Works(call, d) /\ Goes(d)
    <3>1. PICK n : n = S.order[j]
      OBVIOUS
    <3>2. n \in ToEvaluate(S, I) /\ j \in Nat \ {0} /\ j + 1 \in Nat \ {0}
      BY <1>2, <2>2, <3>1, FoundFirst
    <3>3. CASE Unmarked(S, I, n)
      BY <2>2, <3>1, <3>3 DEF EvaluateNode
    <3>4. CASE ~Unmarked(S, I, n)
      <4>1. Goes([call EXCEPT !.i = Evaluated(S, I, n), !.k = j + 1, !.moved = TRUE])
        BY <2>2, <3>1, <3>4 DEF EvaluateNode
      <4>2. /\ n \in NodesOf(S) /\ n \in DOMAIN I.ns /\ I.ns[n] = "NOT_ACTIVATED"
            /\ Into(S, n) # {} /\ Into(S, n) \subseteq DOMAIN I.es
            /\ "NOT_SIGNALED" \notin Signals(S, I, n)
        BY <3>2, <3>4 DEF ToEvaluate, Unmarked
      <4>3. PICK J : J = Evaluated(S, I, n)
        OBVIOUS
      <4>4. /\ \E s \in {"ACTIVATED", "SKIPPED"} : Moved(S, I, J, n, s)
            /\ Family(I, J) /\ J.state = I.state
        BY <1>2, <4>3, EvaluatedIs
      <4>5. Evaluates(S, I, J, n)
        BY <4>2, <4>4 DEF Evaluates
      <4>6. QED
        BY <2>1, <3>2, <4>1, <4>3, <4>5, WorksOf, Zenon
    <3>5. QED
      BY <3>3, <3>4
  <2>3. CASE Goes([call EXCEPT !.pc = "visit", !.k = 1, !.moved = FALSE])
    <3>1. Passes(call, [call EXCEPT !.pc = "visit", !.k = 1, !.moved = FALSE])
      BY <2>1, <1>7, PassesOf, Zenon DEF Places
    <3>2. QED
      BY <1>1, <2>3, <3>1
  <2>4. CASE First(S, call.k, ToEvaluate(S, I)) = {} /\ ~Again(call) /\ Advanced(call)
    <3>1. call.k = 1
      BY <1>1, <2>1, <2>4 DEF Shape, Working, Frame, Again
    <3>2. ToEvaluate(S, I) \in SUBSET NodesOf(S)
      BY DEF ToEvaluate
    <3>3. ToEvaluate(S, I) = {}
      BY <1>2, <2>4, <3>1, <3>2, NothingFirst
    <3>4. AtRest(call)
      BY <2>1, <3>3 DEF AtRest
    <3>5. QED
      BY <1>1, <2>4, <3>4 DEF Advanced
  <2>5. QED
    BY <1>1, <1>4, <2>2, <2>3, <2>4 DEF EvaluateTargets
<1>5. CASE TriggerFollowUps
  <2> DEFINE l == Links(call)[call.k]
  <2>1. call.pc = "follow"
    BY <1>5 DEF TriggerFollowUps
  <2>2. CASE Goes([call EXCEPT !.k = @ + 1])
    <3>1. [call EXCEPT !.k = @ + 1]
            = [call EXCEPT !.pc = "follow", !.k = call.k + 1, !.moved = call.moved]
      BY <1>1, <2>1 DEF Shape, Working, Frame
    <3>2. Passes(call, [call EXCEPT !.pc = "follow", !.k = call.k + 1, !.moved = call.moved])
      BY <2>1, <1>7, PassesOf, Zenon DEF Places
    <3>3. Passes(call, [call EXCEPT !.k = @ + 1])
      BY <3>1, <3>2, Zenon
    <3>4. QED
      BY <1>1, <2>2, <3>3
  <2>3. call.k <= Len(Links(call)) => call.k \in DOMAIN Links(call)
    BY <1>2 DEF Links, Drawn
  <2>4. QED
    BY <1>1, <1>5, <2>1, <2>2, <2>3 DEF TriggerFollowUps
<1>6. QED
  BY <1>3, <1>4, <1>5

-----------------------------------------------------------------------------
(* The shape is kept.                                                      *)
LEMMA EffectiveKin ==
  ASSUME NEW I, NEW J, Kin(I, J)
  PROVE  Effective(J) = Effective(I)
BY DEF Kin, Effective

LEMMA KinTransitive ==
  ASSUME NEW I, NEW J, NEW K, Kin(I, J), Kin(J, K)
  PROVE  Kin(I, K)
BY DEF Kin

LEMMA KinMeet ==
  ASSUME NEW I, NEW J, NEW K, Kin(I, J), Kin(I, K)
  PROVE  Kin(J, K)
BY DEF Kin

LEMMA InstKin ==
  ASSUME NEW I, NEW J, Inst(I), Kin(I, J), DOMAIN J.children = DOMAIN I.children
  PROVE  Inst(J)
BY EffectiveKin DEF Inst, Kin

LEMMA NewInst ==
  ASSUME NEW name \in DOMAIN Schemas, NEW id \in Nat, NEW seed, NEW parent \in Nat, parent < id,
         NEW pnode, pnode # NoNode => parent # 0
  PROVE  Inst(NewInstance(name, id, seed, parent, pnode))
<1>1. PICK J : J = NewInstance(name, id, seed, parent, pnode)
  OBVIOUS
<1>2. /\ DOMAIN J = Fields /\ J.id = id /\ J.schema = name /\ J.own = <<>>
      /\ J.parent = parent /\ J.pnode = pnode
      /\ DOMAIN J.children = NodesOf(Schemas[name])
  <2>1. /\ DOMAIN J = Fields /\ J.id = id /\ J.schema = name /\ J.own = <<>>
        /\ J.parent = parent /\ J.pnode = pnode
        /\ J.children = [n \in NodesOf(Schemas[name]) |-> 0]
    BY <1>1 DEF NewInstance, Fields
  <2>2. QED
    BY <2>1
<1>3. Effective(J) = Schemas[name] /\ Drawn(Schemas[name])
  BY <1>2, SchemaDrawn DEF Effective
<1>4. NodesOfKind(Effective(J), "SUBPROCESS") \subseteq NodesOf(Schemas[name])
  BY <1>3 DEF NodesOfKind, NodesOf
<1>5. Inst(J)
  BY <1>2, <1>3, <1>4 DEF Inst
<1>6. QED
  BY <1>1, <1>5

Grows(st, st2) == DOMAIN st \subseteq DOMAIN st2 /\ \A id \in DOMAIN st : Kin(st[id], st2[id])

LEMMA StoredSet ==
  ASSUME NEW st, Stored(st), NEW I, Inst(I), I.id \in DOMAIN st
  PROVE  /\ Stored(PutIn(st, I)) /\ Len(PutIn(st, I)) = Len(st)
         /\ DOMAIN PutIn(st, I) = DOMAIN st
         /\ PutIn(st, I)[I.id] = I /\ \A id \in DOMAIN st : id # I.id => PutIn(st, I)[id] = st[id]
<1>1. PICK t : t = PutIn(st, I)
  OBVIOUS
<1>2. /\ IsSeq(t) /\ DOMAIN t = DOMAIN st /\ Len(t) = Len(st)
      /\ t[I.id] = I /\ \A id \in DOMAIN st : id # I.id => t[id] = st[id]
  <2>1. t = [st EXCEPT ![I.id] = I] /\ IsSeq(st)
    BY <1>1 DEF Stored, PutIn
  <2>2. PICK i \in DOMAIN st : i = I.id
    OBVIOUS
  <2>3. t = [st EXCEPT ![i] = I]
    BY <2>1, <2>2
  <2>4. IsSeq(t) /\ DOMAIN t = DOMAIN st /\ Len(t) = Len(st)
    <3>1. t = [k \in DOMAIN st |-> t[k]] /\ DOMAIN t = DOMAIN st
      BY <2>3
    <3>2. IsSeq(t) /\ Len(t) = Len(st)
      <4>1. IsSeq(st) /\ t = [k \in DOMAIN st |-> t[k]]
        BY <2>1, <3>1
      <4>2. QED
        BY <4>1, SeqAlike, Zenon
    <3>3. QED
      BY <3>1, <3>2
  <2>5. t[i] = I /\ \A id \in DOMAIN st : id # i => t[id] = st[id]
    BY <2>2, <2>3
  <2>6. QED
    BY <2>2, <2>4, <2>5
<1>3. Stored(t)
  BY <1>2 DEF Stored
<1>4. QED
  BY <1>1, <1>2, <1>3

LEMMA StoredPut ==
  ASSUME NEW st, Stored(st), NEW I, Inst(I), I.id \in DOMAIN st, Kin(st[I.id], I)
  PROVE  /\ Stored(PutIn(st, I)) /\ Grows(st, PutIn(st, I)) /\ Len(PutIn(st, I)) = Len(st)
         /\ DOMAIN PutIn(st, I) = DOMAIN st
         /\ PutIn(st, I)[I.id] = I /\ \A id \in DOMAIN st : id # I.id => PutIn(st, I)[id] = st[id]
<1>1. PICK t : t = PutIn(st, I)
  OBVIOUS
<1>2. /\ Stored(t) /\ DOMAIN t = DOMAIN st /\ Len(t) = Len(st)
      /\ t[I.id] = I /\ \A id \in DOMAIN st : id # I.id => t[id] = st[id]
  BY <1>1, StoredSet
<1>3. \A id \in DOMAIN st : Kin(st[id], st[id])
  BY DEF Stored, Inst, Kin
<1>4. Grows(st, t)
  BY <1>2, <1>3 DEF Grows
<1>5. QED
  BY <1>1, <1>2, <1>4

LEMMA StoredAppend ==
  ASSUME NEW st, Stored(st), NEW I, Inst(I), I.id = Len(st) + 1
  PROVE  /\ Stored(Append(st, I)) /\ Grows(st, Append(st, I)) /\ Len(Append(st, I)) = Len(st) + 1
         /\ DOMAIN Append(st, I) = DOMAIN st \cup {I.id} /\ I.id \notin DOMAIN st
         /\ Append(st, I)[I.id] = I /\ \A id \in DOMAIN st : Append(st, I)[id] = st[id]
<1>1. PICK t : t = Append(st, I)
  OBVIOUS
<1>2. /\ IsSeq(t) /\ DOMAIN t = DOMAIN st \cup {Len(st) + 1} /\ Len(t) = Len(st) + 1
      /\ t[Len(st) + 1] = I /\ \A id \in DOMAIN st : t[id] = st[id]
  BY <1>1, SeqAppend DEF Stored
<1>3. \A id \in DOMAIN st : Kin(st[id], st[id])
  BY DEF Stored, Inst, Kin
<1>4. I.id \notin DOMAIN st
  BY SeqDomain DEF Stored
<1>5. Stored(t) /\ Grows(st, t)
  BY <1>2, <1>3 DEF Stored, Grows
<1>6. QED
  BY <1>1, <1>2, <1>4, <1>5

LEMMA FrameGrows ==
  ASSUME NEW F, NEW st, NEW st2, Frame(F, st), Grows(st, st2)
  PROVE  Frame(F, st2)
BY KinMeet DEF Frame, Grows

LEMMA WorkingGrows ==
  ASSUME NEW st, NEW st2, NEW c, NEW cs, NEW size, Working(st, c, cs, size), Grows(st, st2)
  PROVE  Working(st2, c, cs, size)
BY FrameGrows DEF Working

(* The function at work goes on with a relative of its instance.           *)
Onward(c, d) ==
  /\ DOMAIN d = {"task", "pc", "i", "k", "moved"} /\ d.task = c.task /\ d.pc \in Places
  /\ d.k \in Nat \ {0}
  /\ d.pc = "evaluate" /\ ~d.moved => d.k = 1
  /\ Kin(c.i, d.i) /\ DOMAIN d.i.children = DOMAIN c.i.children

LEMMA FrameOnward ==
  ASSUME NEW c, NEW d, NEW st, Frame(c, st), Onward(c, d)
  PROVE  Frame(d, st)
<1>1. Inst(d.i)
  BY InstKin DEF Frame, Onward
<1>2. d.i.id = c.i.id
  BY DEF Onward, Kin
<1>3. Kin(st[c.i.id], d.i)
  BY KinTransitive DEF Frame, Onward
<1>4. QED
  BY <1>1, <1>2, <1>3 DEF Frame, Onward

LEMMA MadeForKin ==
  ASSUME NEW F, NEW I, NEW J, MadeFor(F, I), Kin(I, J)
  PROVE  MadeFor(F, J)
BY DEF MadeFor, Kin

LEMMA WorkingOnward ==
  ASSUME NEW st, NEW c, NEW d, NEW cs, NEW size, Working(st, c, cs, size), Onward(c, d)
  PROVE  Working(st, d, cs, size)
<1>1. Frame(d, st)
  BY FrameOnward DEF Working
<1>2. d.i.id = c.i.id /\ d.task = c.task
  BY DEF Onward, Kin
<1>3. ASSUME NEW k \in DOMAIN cs PROVE MadeFor(cs[k], Above(cs, d, k).i)
  <2>1. MadeFor(cs[k], Above(cs, c, k).i)
    BY DEF Working
  <2>2. CASE k = Len(cs)
    BY <2>1, <2>2, MadeForKin DEF Above, Onward
  <2>3. CASE k # Len(cs)
    BY <2>1, <2>3 DEF Above
  <2>4. QED
    BY <2>2, <2>3
<1>4. QED
  BY <1>1, <1>2, <1>3 DEF Working

LEMMA BeginFrame ==
  ASSUME NEW task \in Tasks, NEW I, Inst(I), NEW st, I.id \in DOMAIN st, Kin(st[I.id], I)
  PROVE  Frame(Begin(task, I), st) /\ Begin(task, I).i = I /\ Begin(task, I).task = task
BY DEF Begin, Frame, Places

PushedOn(cs, F, as, d) ==
  /\ DOMAIN as = DOMAIN cs \cup {Len(cs) + 1} /\ Len(cs) + 1 \notin DOMAIN cs
  /\ IsSeq(as) /\ Len(cs) \in Nat
  /\ \A k \in DOMAIN cs : /\ as[k] = cs[k] /\ k < Len(cs) + 1 /\ k \in Nat /\ k > 0
                          /\ Above(as, d, k) = Above(cs, F, k)
  /\ as[Len(cs) + 1] = F /\ Above(as, d, Len(cs) + 1) = d

LEMMA AboveAppend ==
  ASSUME NEW cs, IsSeq(cs), NEW F, NEW d, NEW as, as = Append(cs, F)
  PROVE  PushedOn(cs, F, as, d)
<1>2. /\ IsSeq(as) /\ Len(as) = Len(cs) + 1 /\ DOMAIN as = DOMAIN cs \cup {Len(cs) + 1}
      /\ (\A k \in DOMAIN cs : as[k] = cs[k]) /\ as[Len(cs) + 1] = F
  BY SeqAppend
<1>3. Len(cs) \in Nat /\ DOMAIN cs = 1 .. Len(cs)
  BY SeqDomain
<1>4. ASSUME NEW k \in DOMAIN cs
      PROVE  k \in Nat /\ k > 0 /\ k < Len(cs) + 1 /\ Above(as, d, k) = Above(cs, F, k)
  <2>1. k \in 1 .. Len(cs) /\ k # Len(as)
    BY <1>2, <1>3
  <2>2. Above(as, d, k) = as[k + 1]
    BY <2>1, Zenon DEF Above
  <2>3. CASE k = Len(cs)
    <3>1. Above(cs, F, k) = F
      BY <2>3, Zenon DEF Above
    <3>2. as[k + 1] = F
      BY <1>2, <2>3, Zenon
    <3>3. QED
      BY <1>3, <2>1, <2>2, <3>1, <3>2
  <2>4. CASE k # Len(cs)
    <3>1. k + 1 \in DOMAIN cs
      BY <1>3, <2>1, <2>4
    <3>2. Above(cs, F, k) = cs[k + 1]
      BY <2>4, Zenon DEF Above
    <3>3. as[k + 1] = cs[k + 1]
      BY <1>2, <3>1, Zenon
    <3>4. QED
      BY <1>3, <2>1, <2>2, <3>2, <3>3
  <2>5. QED
    BY <2>3, <2>4
<1>5. Above(as, d, Len(cs) + 1) = d
  BY <1>2 DEF Above
<1>6. QED
  BY <1>2, <1>3, <1>4, <1>5 DEF PushedOn

LEMMA WorkingPush ==
  ASSUME NEW st, NEW c, NEW cs, NEW size \in Nat, Working(st, c, cs, size), Stored(st), IsSeq(cs),
         size <= Len(st), NEW F, Onward(c, F), Waits(F),
         NEW I, Inst(I), I.id = Len(st) + 1, MadeFor(F, I)
  PROVE  Working(Append(st, I), Begin("create", I), Append(cs, F), size)
<1>1. PICK st2 : st2 = Append(st, I)
  OBVIOUS
<1>2. PICK as : as = Append(cs, F)
  OBVIOUS
<1>3. PICK d : d = Begin("create", I)
  OBVIOUS
<1>4. Grows(st, st2) /\ st2[I.id] = I /\ I.id \in DOMAIN st2 /\ I.id \notin DOMAIN st
  BY <1>1, StoredAppend
<1>5. Len(st) \in Nat /\ DOMAIN st = 1 .. Len(st)
  BY SeqDomain DEF Stored
<1>6. Frame(d, st2) /\ d.i = I /\ d.task = "create"
  <2>1. Kin(st2[I.id], I)
    BY <1>4 DEF Inst, Kin
  <2>2. QED
    BY <1>3, <1>4, <2>1, BeginFrame DEF Tasks
<1>7. Frame(F, st2) /\ F.task = c.task /\ F.i.id = c.i.id
  <2>1. Frame(F, st)
    BY FrameOnward DEF Working
  <2>2. QED
    BY <1>4, <2>1, FrameGrows DEF Onward, Kin
<1>8. /\ DOMAIN as = DOMAIN cs \cup {Len(cs) + 1} /\ Len(cs) + 1 \notin DOMAIN cs
      /\ Len(cs) \in Nat
      /\ \A k \in DOMAIN cs : /\ as[k] = cs[k] /\ k < Len(cs) + 1 /\ k \in Nat /\ k > 0
                              /\ Above(as, d, k) = Above(cs, F, k)
      /\ as[Len(cs) + 1] = F /\ Above(as, d, Len(cs) + 1) = d
  <2>1. PushedOn(cs, F, as, d)
    BY <1>2, AboveAppend
  <2>2. QED
    BY <2>1 DEF PushedOn
<1>9. c.i.id \in 1 .. Len(st) /\ c.i.id < d.i.id
  BY <1>5, <1>6 DEF Working, Frame
<1>10. \A k \in DOMAIN cs : cs[k].i.id < c.i.id /\ cs[k].i.id \in Nat
  BY <1>5 DEF Working, Frame
<1>11. \A k \in DOMAIN as : Frame(as[k], st2) /\ Waits(as[k]) /\ (as[k].task = "create" <=> as[k].i.id > size)
  BY <1>4, <1>7, <1>8, FrameGrows DEF Working
<1>12. ASSUME NEW k \in DOMAIN as PROVE as[k].i.id < d.i.id
  <2>1. CASE k \in DOMAIN cs
    <3>1. as[k] = cs[k] /\ cs[k].i.id < c.i.id /\ cs[k].i.id \in Nat
      BY <1>8, <1>10, <2>1
    <3>2. QED
      BY <1>5, <1>9, <3>1, <1>6
  <2>2. CASE k = Len(cs) + 1
    BY <1>7, <1>8, <1>9, <2>2
  <2>3. QED
    BY <1>8, <2>1, <2>2
<1>13. ASSUME NEW k \in DOMAIN as, k > 1 PROVE as[k].task = "create"
  <2>1. CASE k \in DOMAIN cs
    BY <1>8, <1>13, <2>1 DEF Working
  <2>2. CASE k = Len(cs) + 1
    <3>1. cs # <<>>
      BY <1>13, <2>2, SeqEmpty
    <3>2. QED
      BY <1>7, <1>8, <2>2, <3>1 DEF Working
  <2>3. QED
    BY <1>8, <2>1, <2>2
<1>14. ASSUME NEW k \in DOMAIN as, NEW j \in DOMAIN as, j < k PROVE as[j].i.id < as[k].i.id
  <2>1. j \in DOMAIN cs
    BY <1>8, <1>14
  <2>2. CASE k \in DOMAIN cs
    BY <1>8, <1>14, <2>1, <2>2 DEF Working
  <2>3. CASE k = Len(cs) + 1
    BY <1>7, <1>8, <2>1, <2>3 DEF Working
  <2>4. QED
    BY <1>8, <2>2, <2>3
<1>15. ASSUME NEW k \in DOMAIN as PROVE MadeFor(as[k], Above(as, d, k).i)
  <2>1. CASE k \in DOMAIN cs
    <3>1. Working(st, F, cs, size)
      BY WorkingOnward
    <3>2. MadeFor(cs[k], Above(cs, F, k).i)
      BY <2>1, <3>1 DEF Working
    <3>3. QED
      BY <1>8, <2>1, <3>2
  <2>2. CASE k = Len(cs) + 1
    BY <1>6, <1>8, <2>2
  <2>3. QED
    BY <1>8, <2>1, <2>2
<1>16. d.task = "create" <=> d.i.id > size
  BY <1>5, <1>6
<1>17. Working(st2, d, as, size)
  BY <1>6, <1>11, <1>12, <1>13, <1>14, <1>15, <1>16 DEF Working
<1>18. QED
  BY <1>1, <1>2, <1>3, <1>17

PoppedTo(cs, F, fs) ==
  /\ IsSeq(fs) /\ Len(cs) \in Nat /\ Len(cs) \in DOMAIN cs /\ F = cs[Len(cs)]
  /\ DOMAIN fs = DOMAIN cs \ {Len(cs)} /\ Len(fs) = Len(cs) - 1
  /\ \A k \in DOMAIN fs : fs[k] = cs[k] /\ k \in Nat /\ k > 0 /\ k < Len(cs)
  /\ fs # <<>> => Len(cs) > 1

LEMMA AboveFront ==
  ASSUME NEW cs, IsSeq(cs), cs # <<>>, NEW fs, fs = SubSeq(cs, 1, Len(cs) - 1)
  PROVE  PoppedTo(cs, cs[Len(cs)], fs)
<1>1. /\ Len(cs) \in Nat \ {0} /\ IsSeq(fs) /\ Len(fs) = Len(cs) - 1
      /\ DOMAIN fs = DOMAIN cs \ {Len(cs)}
      /\ \A k \in DOMAIN cs \ {Len(cs)} : fs[k] = cs[k]
  BY SeqFront
<1>2. DOMAIN cs = 1 .. Len(cs)
  BY SeqDomain
<1>3. \A k \in DOMAIN fs : k \in Nat /\ k > 0 /\ k < Len(cs)
  BY <1>1, <1>2
<1>4. ASSUME fs # <<>> PROVE Len(cs) > 1
  <2>1. SUFFICES ASSUME Len(cs) = 1 PROVE fs = <<>>
    BY <1>1, <1>4
  <2>2. Len(fs) = 0 /\ fs \in Seq({fs[k] : k \in DOMAIN fs})
    BY <1>1, <2>1 DEF IsSeq
  <2>3. PICK T : fs \in Seq(T)
    BY <2>2
  <2>4. QED
    BY <2>2, <2>3, EmptySeq
<1>5. QED
  BY <1>1, <1>2, <1>3, <1>4 DEF PoppedTo

LEMMA WorkingPop ==
  ASSUME NEW st, NEW c, NEW cs, NEW size \in Nat, Working(st, c, cs, size), Stored(st), IsSeq(cs),
         cs # <<>>, NEW d, Onward(cs[Len(cs)], d), NEW fs, fs = SubSeq(cs, 1, Len(cs) - 1)
  PROVE  Working(st, d, fs, size) /\ IsSeq(fs)
<1>1. PICK F : F = cs[Len(cs)]
  OBVIOUS
<1>2. PoppedTo(cs, F, fs)
  BY <1>1, AboveFront
<1>3. /\ IsSeq(fs) /\ Len(cs) \in Nat /\ Len(cs) \in DOMAIN cs
      /\ DOMAIN fs = DOMAIN cs \ {Len(cs)} /\ Len(fs) = Len(cs) - 1
      /\ \A k \in DOMAIN fs : fs[k] = cs[k] /\ k \in Nat /\ k > 0 /\ k < Len(cs)
      /\ fs # <<>> => Len(cs) > 1
  BY <1>2 DEF PoppedTo
<1>4. Frame(F, st) /\ (F.task = "create" <=> F.i.id > size) /\ Onward(F, d)
  BY <1>1, <1>3 DEF Working
<1>5. Frame(d, st) /\ d.task = F.task /\ d.i.id = F.i.id
  BY <1>4, FrameOnward DEF Onward, Kin
<1>6. fs # <<>> => d.task = "create"
  BY <1>1, <1>3, <1>5 DEF Working
<1>7. ASSUME NEW k \in DOMAIN fs
      PROVE  /\ Frame(fs[k], st) /\ Waits(fs[k]) /\ (fs[k].task = "create" <=> fs[k].i.id > size)
             /\ k > 1 => fs[k].task = "create"
  BY <1>3 DEF Working
<1>8. ASSUME NEW k \in DOMAIN fs PROVE fs[k].i.id < d.i.id
  BY <1>1, <1>3, <1>5 DEF Working
<1>9. ASSUME NEW k \in DOMAIN fs, NEW j \in DOMAIN fs, j < k PROVE fs[j].i.id < fs[k].i.id
  BY <1>3, <1>9 DEF Working
<1>10. ASSUME NEW k \in DOMAIN fs PROVE MadeFor(fs[k], Above(fs, d, k).i)
  <2>1. MadeFor(cs[k], Above(cs, c, k).i) /\ fs[k] = cs[k] /\ k \in Nat /\ k < Len(cs)
    BY <1>3 DEF Working
  <2>2. Above(cs, c, k) = cs[k + 1]
    BY <1>3, <2>1 DEF Above
  <2>3. CASE k = Len(fs)
    <3>1. k + 1 = Len(cs)
      BY <1>3, <2>1, <2>3
    <3>2. Above(cs, c, k) = F
      BY <1>1, <2>2, <3>1
    <3>3. MadeFor(cs[k], d.i)
      BY <1>4, <2>1, <3>2, MadeForKin DEF Onward
    <3>4. Above(fs, d, k) = d
      BY <2>3 DEF Above
    <3>5. QED
      BY <2>1, <3>3, <3>4
  <2>4. CASE k # Len(fs)
    <3>1. Above(fs, d, k) = fs[k + 1]
      BY <2>4 DEF Above
    <3>2. DOMAIN cs = 1 .. Len(cs)
      BY SeqDomain
    <3>3. k + 1 \in DOMAIN fs
      BY <1>3, <2>1, <2>4, <3>2
    <3>4. QED
      BY <1>3, <2>1, <2>2, <3>1, <3>3
  <2>5. QED
    BY <2>3, <2>4
<1>11. QED
  BY <1>3, <1>4, <1>5, <1>6, <1>7, <1>8, <1>9, <1>10 DEF Working

LEMMA ResumedOnward ==
  ASSUME NEW F, NEW st, Frame(F, st), Waits(F), NEW C
  PROVE  /\ Onward(F, Resumed(F, C))
         /\ F.pc = "visit" => Resumed(F, C).i = Adopt(SchemaOf(F), F.i, At(F), C)
         /\ F.pc # "visit" => Resumed(F, C).i = [F.i EXCEPT !.followups = Append(@, C.id)]
         /\ Resumed(F, C).pc = F.pc
<1>1. /\ DOMAIN F = {"task", "pc", "i", "k", "moved"} /\ DOMAIN F.i = Fields /\ F.k \in Nat
      /\ F.pc \in {"visit", "follow"}
  BY DEF Frame, Inst, Waits
<1>2. CASE F.pc = "visit"
  <2>1. PICK J : J = Adopt(SchemaOf(F), F.i, At(F), C)
    OBVIOUS
  <2>2. Kin(F.i, J) /\ J.children = [F.i.children EXCEPT ![At(F)] = C.id]
    <3>1. Adopts(SchemaOf(F), F.i, J, At(F), C)
      BY <1>1, <2>1, AdoptIs
    <3>2. QED
      BY <3>1 DEF Moved, Adopts
  <2>3. DOMAIN J.children = DOMAIN F.i.children
    BY <2>2
  <2>4. PICK d : d = [F EXCEPT !.i = J, !.k = F.k + 1, !.moved = TRUE]
    OBVIOUS
  <2>5. d = Resumed(F, C)
    BY <1>2, <2>1, <2>4 DEF Resumed, At
  <2>6. /\ DOMAIN d = {"task", "pc", "i", "k", "moved"} /\ d.task = F.task /\ d.pc = F.pc
        /\ d.i = J /\ d.k \in Nat \ {0}
    BY <1>1, <2>4
  <2>7. Onward(F, d)
    BY <1>2, <2>2, <2>3, <2>6 DEF Onward, Places
  <2>8. QED
    BY <1>2, <2>1, <2>5, <2>6, <2>7
<1>3. CASE F.pc = "follow"
  <2>1. PICK J : J = [F.i EXCEPT !.followups = Append(@, C.id)]
    OBVIOUS
  <2>2. Kin(F.i, J) /\ J.children = F.i.children
    BY <1>1, <2>1 DEF Kin, Fields
  <2>3. Resumed(F, C) = [F EXCEPT !.i = J, !.k = F.k + 1]
    BY <1>3, <1>1, <2>1 DEF Resumed, Fields
  <2>4. PICK d : d = [F EXCEPT !.i = J, !.k = F.k + 1]
    OBVIOUS
  <2>5. DOMAIN d = {"task", "pc", "i", "k", "moved"} /\ d.task = F.task /\ d.pc = F.pc /\ d.i = J
        /\ d.k \in Nat \ {0}
    BY <1>1, <2>4
  <2>6. Onward(F, d)
    BY <1>3, <2>2, <2>5 DEF Onward, Places
  <2>7. QED
    BY <1>3, <2>1, <2>3, <2>4, <2>5, <2>6
<1>4. QED
  BY <1>1, <1>2, <1>3

-----------------------------------------------------------------------------
(* What a change makes of a schema is a schema again.                      *)
LEMMA ListedAppend ==
  ASSUME NEW order, NEW nodes, Listed(order, nodes), NEW new, new \notin nodes
  PROVE  Listed(Append(order, new), nodes \cup {new})
<1>1. PICK o : o = Append(order, new)
  OBVIOUS
<1>2. PICK m \in Nat : m = Len(order) /\ DOMAIN order = 1 .. m
  BY DEF Listed
<1>3. /\ o \in Seq(nodes \cup {new}) /\ DOMAIN o = 1 .. m + 1
      /\ (\A j \in 1 .. m : o[j] = order[j]) /\ o[m + 1] = new
  <2>1. order \in Seq(nodes \cup {new})
    BY SeqMonotonic DEF Listed
  <2>2. QED
    BY <1>1, <1>2, <2>1
<1>4. \A j \in 1 .. m : order[j] \in nodes
  BY <1>2 DEF Listed
<1>5. ASSUME NEW n \in nodes \cup {new}
      PROVE  \E j \in DOMAIN o : \A h \in DOMAIN o : o[h] = n <=> h = j
  <2>1. CASE n = new
    <3>1. \A h \in 1 .. m + 1 : o[h] = n <=> h = m + 1
      BY <1>3, <1>4, <2>1
    <3>2. \A h \in DOMAIN o : o[h] = n <=> h = m + 1
      BY <1>3, <3>1
    <3>3. m + 1 \in DOMAIN o
      BY <1>3
    <3>4. QED
      BY <3>2, <3>3, Zenon
  <2>2. CASE n \in nodes
    <3>1. PICK j \in DOMAIN order : \A h \in DOMAIN order : order[h] = n <=> h = j
      BY <2>2 DEF Listed
    <3>2. j \in 1 .. m /\ n # new
      BY <1>2, <2>2, <3>1
    <3>3. \A h \in 1 .. m + 1 : o[h] = n <=> h = j
      BY <1>2, <1>3, <3>1, <3>2
    <3>4. j \in DOMAIN o /\ \A h \in DOMAIN o : o[h] = n <=> h = j
      BY <1>3, <3>2, <3>3
    <3>5. QED
      BY <3>4, Zenon
  <2>3. QED
    BY <2>1, <2>2
<1>6. QED
  BY <1>1, <1>3, <1>5 DEF Listed

LEMMA ListedWithout ==
  ASSUME NEW order, NEW nodes, Listed(order, nodes), NEW n \in nodes
  PROVE  Listed(Without(order, n), nodes \ {n})
<1>1. PICK m \in Nat : m = Len(order) /\ DOMAIN order = 1 .. m
  BY DEF Listed
<1>2. PICK p \in 1 .. m : \A h \in 1 .. m : order[h] = n <=> h = p
  <2>1. \E j \in DOMAIN order : \A h \in DOMAIN order : order[h] = n <=> h = j
    BY DEF Listed
  <2>2. QED
    BY <1>1, <2>1
<1>3. PICK o : o = Without(order, n)
  OBVIOUS
<1>4. DOMAIN o = 1 .. m - 1 /\ m - 1 \in Nat /\ o = [k \in 1 .. m - 1 |-> o[k]]
  BY <1>1, <1>2, <1>3 DEF Without
<1>5. ASSUME NEW k \in 1 .. m - 1
      PROVE  (k < p => o[k] = order[k]) /\ (k >= p => o[k] = order[k + 1])
  <2>1. (\E j \in 1 .. k : order[j] = n) <=> p <= k
    BY <1>2
  <2>2. o[k] = IF \E j \in 1 .. k : order[j] = n THEN order[k + 1] ELSE order[k]
    BY <1>1, <1>3 DEF Without
  <2>3. QED
    BY <2>1, <2>2
<1>6. \A j \in 1 .. m : order[j] \in nodes
  BY <1>1 DEF Listed
<1>7. o \in Seq(nodes \ {n})
  <2>1. ASSUME NEW k \in 1 .. m - 1 PROVE o[k] \in nodes \ {n}
    <3>1. k \in 1 .. m /\ k + 1 \in 1 .. m
      OBVIOUS
    <3>2. CASE k < p
      BY <1>2, <1>5, <1>6, <3>1, <3>2
    <3>3. CASE k >= p
      BY <1>2, <1>5, <1>6, <3>1, <3>3
    <3>4. QED
      BY <3>2, <3>3
  <2>2. o \in [1 .. m - 1 -> nodes \ {n}]
    BY <1>4, <2>1
  <2>3. QED
    BY <1>4, <2>2
<1>8. ASSUME NEW a \in nodes \ {n}
      PROVE  \E j \in DOMAIN o : \A h \in DOMAIN o : o[h] = a <=> h = j
  <2>1. PICK j \in 1 .. m : \A h \in 1 .. m : order[h] = a <=> h = j
    <3>1. PICK j \in DOMAIN order : \A h \in DOMAIN order : order[h] = a <=> h = j
      BY DEF Listed
    <3>2. j \in 1 .. m
      BY <1>1, <3>1
    <3>3. ASSUME NEW h \in 1 .. m PROVE order[h] = a <=> h = j
      BY <1>1, <3>1
    <3>4. QED
      BY <3>2, <3>3
  <2>2. j # p
    BY <1>2, <2>1
  <2>3. CASE j < p
    <3>1. j \in 1 .. m - 1
      BY <2>3
    <3>2. ASSUME NEW h \in 1 .. m - 1 PROVE o[h] = a <=> h = j
      <4>1. h \in 1 .. m /\ h + 1 \in 1 .. m
        OBVIOUS
      <4>2. CASE h < p
        BY <1>5, <2>1, <4>1, <4>2
      <4>3. CASE h >= p
        BY <1>5, <2>1, <2>3, <4>1, <4>3
      <4>4. QED
        BY <4>2, <4>3
    <3>3. QED
      BY <1>4, <3>1, <3>2
  <2>4. CASE j > p
    <3>1. j - 1 \in 1 .. m - 1 /\ j - 1 >= p
      BY <2>4
    <3>2. ASSUME NEW h \in 1 .. m - 1 PROVE o[h] = a <=> h = j - 1
      <4>1. h \in 1 .. m /\ h + 1 \in 1 .. m
        OBVIOUS
      <4>2. CASE h < p
        BY <1>5, <2>1, <2>4, <4>1, <4>2
      <4>3. CASE h >= p
        BY <1>5, <2>1, <4>1, <4>3
      <4>4. QED
        BY <4>2, <4>3
    <3>3. QED
      BY <1>4, <3>1, <3>2
  <2>5. QED
    BY <2>2, <2>3, <2>4
<1>9. QED
  BY <1>3, <1>7, <1>8 DEF Listed

Between(S, T) ==
  /\ DOMAIN T = DOMAIN S /\ T.disc = S.disc /\ T.branch = S.branch
  /\ T.bind = S.bind /\ T.links = S.links
InsertedAs(S, T, anchor, next, new) ==
  /\ Between(S, T) /\ T.order = Append(S.order, new)
  /\ NodesOf(T) = NodesOf(S) \cup {new} /\ T.kind[new] = "ACTIVITY"
  /\ \A n \in NodesOf(S) : n # new => T.kind[n] = S.kind[n]
  /\ T.edges = (S.edges \ {<<anchor, next>>}) \cup {<<anchor, new>>, <<new, next>>}
DeletedAs(S, T, n, prev, next) ==
  /\ Between(S, T) /\ T.order = Without(S.order, n)
  /\ NodesOf(T) = NodesOf(S) \ {n}
  /\ \A a \in NodesOf(T) : T.kind[a] = S.kind[a]
  /\ T.edges = {e \in S.edges : n \notin {e[1], e[2]}} \cup {<<prev, next>>}

LEMMA InsertedIs ==
  ASSUME NEW S, DOMAIN S = {"order", "kind", "edges", "disc", "branch", "bind", "reads", "writes", "links"},
         NEW anchor, NEW next, NEW new, NEW T, T = Inserted(S, anchor, next, new)
  PROVE  InsertedAs(S, T, anchor, next, new)
<1>1. PICK k : k = [n \in NodesOf(S) \cup {new} |-> IF n = new THEN "ACTIVITY" ELSE S.kind[n]]
  OBVIOUS
<1>2. T = [S EXCEPT !.order = Append(S.order, new), !.kind = k,
                    !.edges = (S.edges \ {<<anchor, next>>}) \cup {<<anchor, new>>, <<new, next>>}]
  BY <1>1 DEF Inserted, NodesOf
<1>3. /\ DOMAIN T = DOMAIN S /\ T.disc = S.disc /\ T.branch = S.branch
      /\ T.bind = S.bind /\ T.links = S.links /\ T.order = Append(S.order, new) /\ T.kind = k
      /\ T.edges = (S.edges \ {<<anchor, next>>}) \cup {<<anchor, new>>, <<new, next>>}
  BY <1>2
<1>4. /\ DOMAIN k = NodesOf(S) \cup {new} /\ k[new] = "ACTIVITY"
      /\ \A n \in NodesOf(S) : n # new => k[n] = S.kind[n]
  BY <1>1
<1>5. QED
  BY <1>3, <1>4 DEF InsertedAs, Between, NodesOf

LEMMA DeletedIs ==
  ASSUME NEW S, DOMAIN S = {"order", "kind", "edges", "disc", "branch", "bind", "reads", "writes", "links"},
         NEW n, NEW prev, NEW next, NEW T, T = Deleted(S, n, prev, next)
  PROVE  DeletedAs(S, T, n, prev, next)
<1>1. PICK k : k = [a \in NodesOf(S) \ {n} |-> S.kind[a]]
  OBVIOUS
<1>2. PICK r : r = {a \in S.reads : a[1] # n}
  OBVIOUS
<1>3. PICK w : w = {a \in S.writes : a[1] # n}
  OBVIOUS
<1>4. T = [S EXCEPT !.order = Without(S.order, n), !.kind = k,
                    !.edges = {e \in S.edges : n \notin {e[1], e[2]}} \cup {<<prev, next>>},
                    !.reads = r, !.writes = w]
  BY <1>1, <1>2, <1>3 DEF Deleted, NodesOf, Restricted
<1>5. /\ DOMAIN T = DOMAIN S /\ T.disc = S.disc /\ T.branch = S.branch
      /\ T.bind = S.bind /\ T.links = S.links /\ T.order = Without(S.order, n) /\ T.kind = k
      /\ T.edges = {e \in S.edges : n \notin {e[1], e[2]}} \cup {<<prev, next>>}
  BY <1>4
<1>6. DOMAIN k = NodesOf(S) \ {n} /\ \A a \in NodesOf(S) \ {n} : k[a] = S.kind[a]
  BY <1>1
<1>7. QED
  BY <1>5, <1>6 DEF DeletedAs, Between, NodesOf

LEMMA InsertedDrawn ==
  ASSUME NEW S, Drawn(S), NEW anchor \in NodesOf(S), NEW next \in NodesOf(S),
         NEW new \in NewNodes, new \notin NodesOf(S),
         NEW T, InsertedAs(S, T, anchor, next, new), Valid(T, Typed)
  PROVE  Drawn(T)
<1>1. /\ Between(S, T) /\ T.order = Append(S.order, new)
      /\ NodesOf(T) = NodesOf(S) \cup {new} /\ T.kind[new] = "ACTIVITY"
      /\ \A n \in NodesOf(S) : T.kind[n] = S.kind[n]
      /\ T.edges = (S.edges \ {<<anchor, next>>}) \cup {<<anchor, new>>, <<new, next>>}
  BY DEF InsertedAs
<1>2. IsFiniteSet(NodesOf(T)) /\ NoNode \notin NodesOf(T)
  <2>1. IsFiniteSet(NodesOf(S) \cup {new})
    BY FS_AddElement DEF Drawn
  <2>2. QED
    BY <1>1, <2>1, NewNodesAssumption DEF Drawn
<1>3. T.edges \subseteq NodesOf(T) \X NodesOf(T)
  BY <1>1 DEF Drawn
<1>4. Listed(T.order, NodesOf(T))
  BY <1>1, ListedAppend DEF Drawn
<1>5. NodesOfKind(S, "SUBPROCESS") \subseteq NodesOfKind(T, "SUBPROCESS")
  BY <1>1 DEF NodesOfKind, NodesOf
<1>6. \A n \in NodesOf(T) : T.kind[n] \in NodeTypes
  BY <1>1 DEF Drawn, NodeTypes
<1>7. QED
  BY <1>1, <1>2, <1>3, <1>4, <1>5, <1>6 DEF Drawn, Between

LEMMA DeletedDrawn ==
  ASSUME NEW S, Drawn(S), NEW n \in NodesOf(S), S.kind[n] = "ACTIVITY",
         NEW prev \in NodesOf(S) \ {n}, NEW next \in NodesOf(S) \ {n},
         NEW T, DeletedAs(S, T, n, prev, next), Valid(T, Typed)
  PROVE  Drawn(T)
<1>1. /\ Between(S, T) /\ T.order = Without(S.order, n)
      /\ NodesOf(T) = NodesOf(S) \ {n}
      /\ \A a \in NodesOf(T) : T.kind[a] = S.kind[a]
      /\ T.edges = {e \in S.edges : n \notin {e[1], e[2]}} \cup {<<prev, next>>}
  BY DEF DeletedAs
<1>2. IsFiniteSet(NodesOf(T)) /\ NoNode \notin NodesOf(T)
  BY <1>1, FS_Subset DEF Drawn
<1>3. T.edges \subseteq NodesOf(T) \X NodesOf(T)
  BY <1>1 DEF Drawn
<1>4. Listed(T.order, NodesOf(T))
  BY <1>1, ListedWithout DEF Drawn
<1>5. NodesOfKind(S, "SUBPROCESS") \subseteq NodesOfKind(T, "SUBPROCESS")
  BY <1>1 DEF NodesOfKind, NodesOf
<1>6. \A a \in NodesOf(T) : T.kind[a] \in NodeTypes
  BY <1>1 DEF Drawn
<1>7. QED
  BY <1>1, <1>2, <1>3, <1>4, <1>5, <1>6 DEF Drawn, Between

-----------------------------------------------------------------------------
(* Every step keeps the shape.                                             *)
LEMMA PassesOnward ==
  ASSUME NEW c, NEW d, NEW st, Frame(c, st), Passes(c, d)
  PROVE  Onward(c, d) /\ d.i = c.i /\ (d.pc = "follow" <=> c.pc = "follow")
<1>1. DOMAIN c = {"task", "pc", "i", "k", "moved"} /\ DOMAIN c.i = Fields
  BY DEF Frame, Inst
<1>2. PICK p, j, b : /\ p \in Places /\ j \in Nat \ {0}
                     /\ d = [c EXCEPT !.pc = p, !.k = j, !.moved = b]
                     /\ p = "follow" <=> c.pc = "follow"
                     /\ p = "evaluate" => j = 1
  BY DEF Passes
<1>3. /\ DOMAIN d = {"task", "pc", "i", "k", "moved"} /\ d.task = c.task /\ d.pc = p
      /\ d.k = j /\ d.i = c.i
  BY <1>1, <1>2
<1>4. Kin(c.i, d.i)
  BY <1>1, <1>3 DEF Kin
<1>5. QED
  BY <1>2, <1>3, <1>4 DEF Onward

LEMMA WorksOnward ==
  ASSUME NEW c, NEW d, NEW st, Frame(c, st), Works(c, d)
  PROVE  Onward(c, d)
<1>1. DOMAIN c = {"task", "pc", "i", "k", "moved"} /\ c.pc \in Places
  BY DEF Frame
<1>2. PICK n, J, j : /\ j \in Nat \ {0}
                     /\ d = [c EXCEPT !.i = J, !.k = j, !.moved = TRUE]
                     /\ \/ c.pc = "visit" /\ Visits(SchemaOf(c), c.i, J, n)
                        \/ c.pc = "evaluate" /\ Evaluates(SchemaOf(c), c.i, J, n)
  BY DEF Works
<1>3. /\ DOMAIN d = {"task", "pc", "i", "k", "moved"} /\ d.task = c.task /\ d.pc = c.pc
      /\ d.k = j /\ d.i = J /\ d.moved = TRUE
  BY <1>1, <1>2
<1>4. Kin(c.i, J) /\ J.children = c.i.children
  BY <1>2 DEF Visits, Evaluates, Moved, Family
<1>5. QED
  BY <1>1, <1>2, <1>3, <1>4 DEF Onward

LEMMA SpawnsOnward ==
  ASSUME NEW c, NEW F, NEW I, NEW st, Frame(c, st), SpawnsChild(c, F, I)
  PROVE  /\ Onward(c, F) /\ F.pc = "visit" /\ F.i = c.i /\ Waits(F) /\ SchemaOf(F) = SchemaOf(c)
         /\ I = Child(SchemaOf(c), c.i, At(F))
<1>1. DOMAIN c = {"task", "pc", "i", "k", "moved"} /\ DOMAIN c.i = Fields
  BY DEF Frame, Inst
<1>2. PICK j : /\ j \in Nat \ {0} /\ F = [c EXCEPT !.k = j] /\ c.pc = "visit" /\ Waits(F)
               /\ I = Child(SchemaOf(c), c.i, At(F))
  BY DEF SpawnsChild
<1>3. /\ DOMAIN F = {"task", "pc", "i", "k", "moved"} /\ F.task = c.task /\ F.pc = c.pc
      /\ F.k = j /\ F.i = c.i
  BY <1>1, <1>2
<1>4. Kin(c.i, F.i)
  BY <1>1, <1>3 DEF Kin
<1>5. Onward(c, F)
  BY <1>2, <1>3, <1>4 DEF Onward, Places
<1>6. QED
  BY <1>2, <1>3, <1>5 DEF SchemaOf

LEMMA ChildInst ==
  ASSUME NEW c, Frame(c, store), Stored(store), NEW F, NEW I, SpawnsChild(c, F, I)
  PROVE  Inst(I) /\ I.id = Len(store) + 1 /\ MadeFor(F, I)
<1> DEFINE n == At(F)
           S == SchemaOf(c)
<1>1. /\ F.pc = "visit" /\ F.i = c.i /\ Waits(F) /\ SchemaOf(F) = S /\ I = Child(S, c.i, n)
  BY SpawnsOnward
<1>2. n \in DOMAIN S.bind /\ Drawn(S)
  BY <1>1, SchemaOfDrawn DEF Waits, Spawns, Frame
<1>3. S.bind[n].target \in DOMAIN Schemas
  BY <1>2 DEF Drawn
<1>4. c.i.id \in 1 .. Len(store) /\ Len(store) \in Nat
  BY SeqDomain DEF Frame, Stored
<1>5. PICK seed : I = NewInstance(S.bind[n].target, Len(store) + 1, seed, c.i.id, n)
  BY <1>1 DEF Child
<1>6. Inst(I)
  BY <1>3, <1>4, <1>5, NewInst
<1>7. I.id = Len(store) + 1 /\ I.parent = c.i.id /\ I.pnode = n
  BY <1>5 DEF NewInstance
<1>8. QED
  BY <1>1, <1>6, <1>7 DEF MadeFor

LEMMA FollowInst ==
  ASSUME NEW c, Frame(c, store), Stored(store), c.pc = "follow", NEW k \in DOMAIN Links(c),
         NEW I, I = FollowUp(Links(c)[k], c.i)
  PROVE  Inst(I) /\ I.id = Len(store) + 1 /\ MadeFor(c, I)
<1> DEFINE l == Links(c)[k]
<1>1. l.target \in DOMAIN Schemas
  BY SchemaOfDrawn DEF Links, Drawn, Frame
<1>2. c.i.id \in 1 .. Len(store) /\ Len(store) \in Nat
  BY SeqDomain DEF Frame, Stored
<1>3. PICK seed, p : /\ p = IF l.mode = "SYNC" THEN c.i.id ELSE 0
                     /\ I = NewInstance(l.target, Len(store) + 1, seed, p, NoNode)
  BY DEF FollowUp
<1>4. p \in Nat /\ p < Len(store) + 1
  BY <1>2, <1>3
<1>5. Inst(I)
  BY <1>1, <1>2, <1>3, <1>4, NewInst
<1>6. I.id = Len(store) + 1 /\ I.pnode = NoNode
  BY <1>3 DEF NewInstance
<1>7. QED
  BY <1>5, <1>6 DEF MadeFor

LEMMA FrameSelf ==
  ASSUME NEW c, NEW st, Frame(c, st)
  PROVE  Onward(c, c)
BY DEF Frame, Onward, Inst, Kin

LEMMA NotIdle ==
  ASSUME NEW d, d.pc \in Places
  PROVE  d # Idle
BY DEF Places, Idle

LEMMA ShapeAnswer ==
  ASSUME Shape, NEW st, Stored(st), NEW what, Answer(st, what)
  PROVE  Shape'
<1>1. store' = st /\ call' = Idle /\ callers' = <<>> /\ past' = <<>>
  BY DEF Answer
<1>2. Len(st) \in Nat
  BY SeqDomain DEF Stored
<1>3. QED
  BY <1>1, <1>2, SeqEmpty DEF Shape

LEMMA ShapeGoes ==
  ASSUME Shape, call # Idle, NEW d, Onward(call, d), Goes(d)
  PROVE  Shape'
<1>1. Working(store, d, callers, Len(past))
  BY WorkingOnward DEF Shape
<1>2. d # Idle
  BY NotIdle DEF Onward
<1>3. QED
  BY <1>1, <1>2 DEF Shape, Goes

LEMMA ShapeCreate ==
  ASSUME Shape, call # Idle, NEW F, Onward(call, F), Waits(F),
         NEW I, Inst(I), I.id = Len(store) + 1, MadeFor(F, I), Create(F, I)
  PROVE  Shape'
<1>1. /\ store' = Append(store, I) /\ call' = Begin("create", I) /\ callers' = Append(callers, F)
      /\ past' = past
  BY DEF Create
<1>2. /\ Stored(store) /\ IsSeq(callers) /\ Len(past) \in Nat /\ Len(past) <= Len(store)
      /\ Len(store) \in Nat /\ Working(store, call, callers, Len(past))
  BY SeqDomain DEF Shape, Stored
<1>3. Working(Append(store, I), Begin("create", I), Append(callers, F), Len(past))
  BY <1>2, WorkingPush
<1>4. Stored(Append(store, I)) /\ Len(Append(store, I)) = Len(store) + 1
  BY <1>2, StoredAppend
<1>5. IsSeq(Append(callers, F))
  BY <1>2, SeqAppend
<1>6. Begin("create", I) # Idle
  BY NotIdle DEF Begin, Places
<1>7. IsSeq(past)
  BY DEF Shape
<1>8. QED
  BY <1>1, <1>2, <1>3, <1>4, <1>5, <1>6, <1>7 DEF Shape

LEMMA ShapePut ==
  ASSUME Shape, call # Idle, NEW J, Inst(J), J.id \in DOMAIN store, Kin(store[J.id], J)
  PROVE  /\ Stored(PutIn(store, J)) /\ Len(PutIn(store, J)) = Len(store)
         /\ Working(PutIn(store, J), call, callers, Len(past))
BY StoredPut, WorkingGrows DEF Shape

LEMMA CallIs ==
  ASSUME Shape, call # Idle
  PROVE  /\ Frame(call, store) /\ Inst(call.i) /\ call.i.id \in DOMAIN store
         /\ Kin(store[call.i.id], call.i) /\ Working(store, call, callers, Len(past))
         /\ Stored(store) /\ IsSeq(callers) /\ IsSeq(past) /\ Len(past) \in Nat /\ Len(store) \in Nat
         /\ Len(past) <= Len(store) /\ DOMAIN store = 1 .. Len(store)
BY SeqDomain DEF Shape, Working, Frame, Stored

LEMMA CallParent ==
  ASSUME Shape, call # Idle, call.i.pnode # NoNode
  PROVE  call.i.parent \in DOMAIN store /\ call.i.parent # call.i.id
<1>1. /\ Inst(call.i) /\ call.i.id \in DOMAIN store
      /\ DOMAIN store = 1 .. Len(store) /\ Len(store) \in Nat
  BY CallIs
<1>2. call.i.id \in Nat /\ call.i.parent \in Nat /\ call.i.parent < call.i.id /\ call.i.parent # 0
  BY <1>1 DEF Inst
<1>3. PICK p, x, m : p = call.i.parent /\ x = call.i.id /\ m = Len(store)
  OBVIOUS
<1>4. p \in Nat /\ x \in Nat /\ p < x /\ p # 0 /\ m \in Nat /\ x \in 1 .. m
  BY <1>1, <1>2, <1>3
<1>5. p \in 1 .. m /\ p # x
  BY <1>4
<1>6. QED
  BY <1>1, <1>3, <1>5

LEMMA ShapeAdvanced ==
  ASSUME Shape, call # Idle, call.i.state = "COMPLETED", Advanced(call)
  PROVE  Shape'
<1>1. PICK d : d = [call EXCEPT !.pc = "follow", !.k = 1]
  OBVIOUS
<1>2. PICK st : st = IF call.task = "create" THEN store ELSE PutIn(store, call.i)
  OBVIOUS
<1>3. call' = d /\ store' = st /\ callers' = callers /\ past' = past
  BY <1>1, <1>2 DEF Advanced
<1>4. Stored(st) /\ Len(st) = Len(store) /\ Working(st, call, callers, Len(past))
  BY <1>2, CallIs, ShapePut
<1>5. Onward(call, d)
  <2>1. /\ DOMAIN d = {"task", "pc", "i", "k", "moved"} /\ d.task = call.task /\ d.pc = "follow"
        /\ d.k = 1 /\ d.i = call.i
    BY <1>1, CallIs DEF Frame
  <2>2. Kin(call.i, d.i)
    BY <2>1, CallIs DEF Inst, Kin
  <2>3. QED
    BY <2>1, <2>2 DEF Onward, Places
<1>6. Working(st, d, callers, Len(past)) /\ d # Idle
  BY <1>4, <1>5, WorkingOnward, NotIdle DEF Onward
<1>7. QED
  BY <1>3, <1>4, <1>6, CallIs DEF Shape

LEMMA ShapeReturn ==
  ASSUME Shape, call # Idle, Return(call.i)
  PROVE  Shape'
<1>1. PICK st : st = PutIn(store, call.i)
  OBVIOUS
<1>2. Stored(st) /\ Len(st) = Len(store) /\ Working(st, call, callers, Len(past))
  BY <1>1, CallIs, ShapePut
<1>3. CASE callers = <<>>
  BY <1>1, <1>2, <1>3, ShapeAnswer DEF Return
<1>4. CASE callers # <<>>
  <2>1. PICK F : F = callers[Len(callers)]
    OBVIOUS
  <2>2. PICK d : d = Resumed(F, call.i)
    OBVIOUS
  <2>3. PICK fs : fs = SubSeq(callers, 1, Len(callers) - 1)
    OBVIOUS
  <2>4. call' = d /\ callers' = fs /\ store' = st /\ past' = past
    BY <1>1, <1>4, <2>1, <2>2, <2>3 DEF Return
  <2>5. Len(callers) \in DOMAIN callers
    BY <1>4, <2>3, CallIs, AboveFront DEF PoppedTo
  <2>6. Frame(F, st) /\ Waits(F)
    BY <1>2, <2>1, <2>5 DEF Working
  <2>7. Onward(F, d)
    BY <2>2, <2>6, ResumedOnward
  <2>8. Working(st, d, fs, Len(past)) /\ IsSeq(fs)
    BY <1>2, <1>4, <2>1, <2>3, <2>7, CallIs, WorkingPop
  <2>9. d # Idle
    BY <2>7, NotIdle DEF Onward
  <2>10. QED
    BY <1>2, <2>4, <2>8, <2>9, CallIs DEF Shape
<1>5. QED
  BY <1>3, <1>4

LEMMA ShapeFollowed ==
  ASSUME Shape, call # Idle, Followed(call)
  PROVE  Shape'
<1>1. CASE ~Reports(call)
  BY <1>1, ShapeReturn DEF Followed
<1>2. CASE Reports(call)
  <2>1. PICK st : st = PutIn(store, call.i)
    OBVIOUS
  <2>2. PICK P : P = store[call.i.parent]
    OBVIOUS
  <2>3. PICK J : J = JoinNode(Schemas[P.schema], P, call.i.pnode, call.i)
    OBVIOUS
  <2>4. call' = Begin("join", J) /\ store' = st /\ callers' = callers /\ past' = past
    BY <1>2, <2>1, <2>2, <2>3 DEF Followed, JoinParent
  <2>5. /\ call.task # "create" /\ callers = <<>> /\ ~(call.i.id > Len(past))
        /\ call.i.parent \in DOMAIN store /\ call.i.parent < call.i.id /\ call.i.parent \in Nat
    BY <1>2, CallIs DEF Reports, Working, Inst
  <2>6. Inst(P) /\ P.id = call.i.parent
    BY <2>2, <2>5, CallIs DEF Stored
  <2>7. Kin(P, J) /\ J.children = P.children
    BY <2>3, <2>6, JoinNodeIs DEF Inst, Moved, Family
  <2>8. Inst(J) /\ J.id = call.i.parent
    BY <2>6, <2>7, InstKin DEF Kin
  <2>9. Stored(st) /\ Len(st) = Len(store) /\ Grows(store, st)
    BY <2>1, CallIs, StoredPut
  <2>10. Kin(st[J.id], J) /\ J.id \in DOMAIN st
    BY <2>2, <2>5, <2>7, <2>8, <2>9, KinMeet DEF Grows
  <2>11. Frame(Begin("join", J), st) /\ Begin("join", J).i = J /\ Begin("join", J).task = "join"
    BY <2>8, <2>10, BeginFrame DEF Tasks
  <2>12. ~(J.id > Len(past))
    BY <2>5, <2>8, CallIs DEF Inst
  <2>13. Working(st, Begin("join", J), callers, Len(past))
    BY <2>5, <2>11, <2>12, SeqEmpty DEF Working
  <2>14. Begin("join", J) # Idle
    BY NotIdle DEF Begin, Places
  <2>15. QED
    BY <2>4, <2>9, <2>13, <2>14, CallIs DEF Shape
<1>3. QED
  BY <1>1, <1>2

LEMMA ShapeBegin ==
  ASSUME Shape, call = Idle, NEW st, Stored(st), Len(store) <= Len(st),
         NEW task \in Tasks, NEW I, Inst(I), I.id \in DOMAIN st, Kin(st[I.id], I),
         task = "create" <=> I.id > Len(store), Begins(Begin(task, I), st)
  PROVE  Shape'
<1>1. /\ call' = Begin(task, I) /\ store' = st /\ callers' = <<>> /\ past' = store
  BY DEF Begins, Shape
<1>2. Frame(Begin(task, I), st) /\ Begin(task, I).i = I /\ Begin(task, I).task = task
  BY BeginFrame
<1>3. Working(st, Begin(task, I), <<>>, Len(store))
  BY <1>2, SeqEmpty DEF Working
<1>4. Begin(task, I) # Idle
  BY NotIdle DEF Begin, Places
<1>5. IsSeq(store)
  BY DEF Shape, Stored
<1>6. QED
  BY <1>1, <1>3, <1>4, <1>5, SeqEmpty DEF Shape

-----------------------------------------------------------------------------
(* What a client's call and what a change does to the instance it is about.*)
Starts(I, J) ==
  \E n \in NodesOf(Effective(I)) :
    /\ Kin(I, J) /\ Family(I, J) /\ J.state = I.state /\ J.es = I.es
    /\ Effective(I).kind[n] = "ACTIVITY" /\ I.ns[n] = "ACTIVATED"
    /\ J.ns = [I.ns EXCEPT ![n] = "RUNNING"]
Completes(I, J) ==
  \E n \in NodesOf(Effective(I)) :
    /\ Effective(I).kind[n] = "ACTIVITY" /\ I.ns[n] \in {"ACTIVATED", "RUNNING"}
    /\ Moved(Effective(I), I, J, n, "COMPLETED") /\ Family(I, J)
    /\ I.state = "RUNNING" /\ J.state = I.state

LEMMA StartsIs ==
  ASSUME NEW I, Inst(I), NEW n \in NodesOf(Effective(I)),
         Effective(I).kind[n] = "ACTIVITY", I.ns[n] = "ACTIVATED",
         NEW J, J = [I EXCEPT !.ns[n] = "RUNNING"]
  PROVE  Starts(I, J) /\ Inst(J) /\ J.id = I.id
<1>1. Kin(I, J) /\ Family(I, J) /\ J.state = I.state /\ J.es = I.es
  BY DEF Inst, Kin, Fields, Family
<1>2. J.ns = [I.ns EXCEPT ![n] = "RUNNING"]
  BY DEF Inst, Fields
<1>3. Inst(J)
  BY <1>1, InstKin DEF Family
<1>4. QED
  BY <1>1, <1>2, <1>3 DEF Starts, Kin

LEMMA CompletesIs ==
  ASSUME NEW I, Inst(I), NEW n \in NodesOf(Effective(I)), NEW w, I.state = "RUNNING",
         Effective(I).kind[n] = "ACTIVITY", I.ns[n] \in {"ACTIVATED", "RUNNING"},
         NEW J, J = CompleteNode(Effective(I), [I EXCEPT !.data = Overlay(@, w)], n, NoNode)
  PROVE  Completes(I, J) /\ Inst(J) /\ J.id = I.id /\ Kin(I, J)
<1>1. PICK K : K = [I EXCEPT !.data = Overlay(I.data, w)]
  OBVIOUS
<1>2. Kin(I, K) /\ Family(I, K) /\ K.state = I.state /\ K.ns = I.ns /\ K.es = I.es
  BY <1>1 DEF Inst, Fields, Kin, Family
<1>3. J = CompleteNode(Effective(I), K, n, NoNode)
  BY <1>1
<1>4. Moved(Effective(I), K, J, n, "COMPLETED") /\ Family(K, J) /\ J.state = K.state
  BY <1>2, <1>3, CompleteNodeIs DEF Kin
<1>5. Moved(Effective(I), I, J, n, "COMPLETED") /\ Family(I, J) /\ J.state = I.state
  BY <1>2, <1>4 DEF Moved, Marked, Kin, Family
<1>6. Inst(J) /\ J.id = I.id /\ Kin(I, J)
  BY <1>5, InstKin DEF Moved, Family, Kin
<1>7. QED
  BY <1>5, <1>6 DEF Completes

(* An instance with another schema is the same instance.                   *)
Rewrites(I, J, T) ==
  /\ DOMAIN J = Fields /\ J.id = I.id /\ J.parent = I.parent /\ J.pnode = I.pnode
  /\ J.state = I.state /\ J.followups = I.followups /\ Effective(J) = T /\ Drawn(T)
Varies(I, J, T) == Rewrites(I, J, T) /\ J.schema = I.schema /\ J.children = I.children

Inserts(I, J, T, anchor, next, new) ==
  LET S == Effective(I) IN
  /\ Varies(I, J, T) /\ InsertedAs(S, T, anchor, next, new)
  /\ <<anchor, next>> \in S.edges /\ new \notin NodesOf(S) /\ MayInsert(S, I, anchor, next)
  /\ J.ns = [n \in DOMAIN I.ns \cup {new} |-> IF n = new THEN "NOT_ACTIVATED" ELSE I.ns[n]]
  /\ J.es = [e \in (DOMAIN I.es \ {<<anchor, next>>}) \cup {<<anchor, new>>, <<new, next>>} |->
               IF new \in {e[1], e[2]} THEN "NOT_SIGNALED" ELSE I.es[e]]
Deletes(I, J, T, n, prev, next) ==
  LET S == Effective(I) IN
  /\ Varies(I, J, T) /\ DeletedAs(S, T, n, prev, next) /\ MayDelete(S, I, n)
  /\ n \in NodesOf(S) /\ Preds(S, n) = {prev} /\ Succs(S, n) = {next} /\ n \notin {prev, next}
  /\ <<prev, n>> \in S.edges /\ <<n, next>> \in S.edges
  /\ J.ns = [a \in DOMAIN I.ns \ {n} |-> I.ns[a]]
  /\ J.es = [e \in (DOMAIN I.es \ {<<prev, n>>, <<n, next>>}) \cup {<<prev, next>>} |->
               IF e = <<prev, next>> THEN "NOT_SIGNALED" ELSE I.es[e]]
Renames(I, J) ==
  Varies(I, J, Effective(I)) /\ J.ns = I.ns /\ J.es = I.es
Migrates(I, J, T) ==
  LET S == Effective(I) IN
  /\ Rewrites(I, J, T) /\ J.own = <<>> /\ I.own = <<>> /\ M2(S, T, I) /\ M3(S, T, I)
  /\ J.schema \in DOMAIN Schemas /\ T = Schemas[J.schema]
  /\ J.ns = [n \in NodesOf(T) |-> IF n \in DOMAIN I.ns THEN I.ns[n] ELSE "NOT_ACTIVATED"]
  /\ J.es = [e \in T.edges |-> IF e \in DOMAIN I.es THEN I.es[e] ELSE "NOT_SIGNALED"]
  /\ J.children = [n \in NodesOf(T) \cup DOMAIN I.children |->
                     IF n \in DOMAIN I.children THEN I.children[n] ELSE 0]
Adapts(I, J) ==
  \/ \E T, anchor, next, new : Inserts(I, J, T, anchor, next, new)
  \/ \E T, n, prev, next : Deletes(I, J, T, n, prev, next)
  \/ Renames(I, J)
Changes(I, J) == Adapts(I, J) \/ \E T : Migrates(I, J, T)

Varied(I, J, T, ns, es) == J = [I EXCEPT !.own = <<T>>, !.ns = ns, !.es = es]

LEMMA VariesIs ==
  ASSUME NEW I, Inst(I), NEW T, Drawn(T), NEW ns, NEW es, NEW J, Varied(I, J, T, ns, es)
  PROVE  Varies(I, J, T) /\ J.ns = ns /\ J.es = es
<1>1. /\ DOMAIN J = Fields /\ J.id = I.id /\ J.parent = I.parent /\ J.pnode = I.pnode
      /\ J.state = I.state /\ J.followups = I.followups /\ J.schema = I.schema
      /\ J.children = I.children /\ J.own = <<T>> /\ J.ns = ns /\ J.es = es
  BY DEF Inst, Fields, Varied
<1>2. Effective(J) = T
  <2>1. <<T>> # <<>> /\ <<T>>[1] = T
    OBVIOUS
  <2>2. QED
    BY <1>1, <2>1 DEF Effective
<1>3. QED
  BY <1>1, <1>2 DEF Varies, Rewrites

LEMMA InsertsIs ==
  ASSUME NEW id \in DOMAIN store, Inst(store[id]), NEW e \in Effective(store[id]).edges,
         NEW new \in NewNodes, AdhocInsert(id, e[1], e[2], new)
  PROVE  \E J : /\ Answer(PutIn(store, J), "ok")
                /\ \E T, anchor, next : Inserts(store[id], J, T, anchor, next, new)
<1> DEFINE I == store[id]
           S == Effective(I)
<1>1. PICK anchor, next : anchor = e[1] /\ next = e[2]
  OBVIOUS
<1>2. Drawn(S)
  BY DEF Inst
<1>3. e \in NodesOf(S) \X NodesOf(S)
  BY <1>2 DEF Drawn
<1>4. anchor \in NodesOf(S) /\ next \in NodesOf(S) /\ e = <<anchor, next>>
  BY <1>1, <1>3
<1>5. PICK T : T = Inserted(S, anchor, next, new)
  OBVIOUS
<1>6. PICK ns : ns = [n \in DOMAIN I.ns \cup {new} |-> IF n = new THEN "NOT_ACTIVATED" ELSE I.ns[n]]
  OBVIOUS
<1>7. PICK es : es = [a \in (DOMAIN I.es \ {<<anchor, next>>}) \cup {<<anchor, new>>, <<new, next>>} |->
                        IF new \in {a[1], a[2]} THEN "NOT_SIGNALED" ELSE I.es[a]]
  OBVIOUS
<1>8. PICK J : J = [I EXCEPT !.own = <<T>>, !.ns = ns, !.es = es]
  OBVIOUS
<1>9. /\ new \notin NodesOf(S) /\ MayInsert(S, I, anchor, next) /\ Valid(T, Typed)
      /\ Answer(PutIn(store, J), "ok")
  BY <1>1, <1>5, <1>6, <1>7, <1>8 DEF AdhocInsert, Change
<1>10. InsertedAs(S, T, anchor, next, new)
  BY <1>2, <1>5, InsertedIs DEF Drawn
<1>11. Drawn(T)
  BY <1>2, <1>4, <1>9, <1>10, InsertedDrawn
<1>12. Varies(I, J, T) /\ J.ns = ns /\ J.es = es
  <2>1. Varied(I, J, T, ns, es)
    BY <1>8, Zenon DEF Varied
  <2>2. QED
    BY <1>11, <2>1, VariesIs
<1>13. Inserts(I, J, T, anchor, next, new)
  BY <1>4, <1>6, <1>7, <1>9, <1>10, <1>12 DEF Inserts
<1>14. QED
  BY <1>9, <1>13

LEMMA DeletesIs ==
  ASSUME NEW id \in DOMAIN store, Inst(store[id]), NEW n \in NodesOf(Effective(store[id])),
         NEW prev, NEW next, AdhocDelete(id, n, prev, next)
  PROVE  \E J : /\ Answer(PutIn(store, J), "ok")
                /\ \E T : Deletes(store[id], J, T, n, prev, next)
<1> DEFINE I == store[id]
           S == Effective(I)
<1>1. Drawn(S)
  BY DEF Inst
<1>2. PICK T : T = Deleted(S, n, prev, next)
  OBVIOUS
<1>3. PICK ns : ns = [a \in DOMAIN I.ns \ {n} |-> I.ns[a]]
  OBVIOUS
<1>4. PICK es : es = [e \in (DOMAIN I.es \ {<<prev, n>>, <<n, next>>}) \cup {<<prev, next>>} |->
                        IF e = <<prev, next>> THEN "NOT_SIGNALED" ELSE I.es[e]]
  OBVIOUS
<1>5. PICK J : J = [I EXCEPT !.own = <<T>>, !.ns = ns, !.es = es]
  OBVIOUS
<1>6. /\ Preds(S, n) = {prev} /\ Succs(S, n) = {next} /\ MayDelete(S, I, n) /\ Valid(T, Typed)
      /\ Answer(PutIn(store, J), "ok")
  BY <1>2, <1>3, <1>4, <1>5 DEF AdhocDelete, Change, Restricted
<1>7. S.edges \subseteq NodesOf(S) \X NodesOf(S)
  BY <1>1 DEF Drawn
<1>8. /\ prev \in NodesOf(S) /\ next \in NodesOf(S)
      /\ <<prev, n>> \in S.edges /\ <<n, next>> \in S.edges
  <2>1. PICK e \in S.edges : e[2] = n /\ e[1] = prev
    BY <1>6 DEF Preds, Into
  <2>2. PICK f \in S.edges : f[1] = n /\ f[2] = next
    BY <1>6 DEF Succs, OutOf
  <2>3. e = <<e[1], e[2]>> /\ f = <<f[1], f[2]>> /\ prev \in NodesOf(S) /\ next \in NodesOf(S)
    BY <1>7, <2>1, <2>2
  <2>4. QED
    BY <2>1, <2>2, <2>3
<1>9. DeletedAs(S, T, n, prev, next)
  BY <1>1, <1>2, DeletedIs DEF Drawn
<1>10. n \notin {prev, next}
  <2>1. SUFFICES ASSUME n \in {prev, next} PROVE FALSE
    OBVIOUS
  <2>2. <<n, n>> \in S.edges
    BY <1>8, <2>1
  <2>3. n \in Preds(S, n) /\ n \in Succs(S, n)
    BY <2>2 DEF Preds, Succs, Into, OutOf, NodesOf
  <2>4. prev = n /\ next = n
    BY <1>6, <2>3
  <2>5. <<n, n>> \in T.edges /\ n \notin NodesOf(T)
    BY <1>9, <2>4 DEF DeletedAs
  <2>6. EdgesOK(T)
    BY <1>6 DEF Valid
  <2>7. QED
    BY <2>5, <2>6 DEF EdgesOK, NodesOf
<1>11. Drawn(T)
  BY <1>1, <1>6, <1>8, <1>9, <1>10, DeletedDrawn DEF MayDelete
<1>12. Varies(I, J, T) /\ J.ns = ns /\ J.es = es
  <2>1. Varied(I, J, T, ns, es)
    BY <1>5, Zenon DEF Varied
  <2>2. QED
    BY <1>11, <2>1, VariesIs
<1>13. Deletes(I, J, T, n, prev, next)
  BY <1>3, <1>4, <1>6, <1>8, <1>9, <1>10, <1>12 DEF Deletes
<1>14. QED
  BY <1>6, <1>13

LEMMA RenamesIs ==
  ASSUME NEW id \in DOMAIN store, Inst(store[id]), NEW n, AdhocRename(id, n)
  PROVE  \E J : Answer(PutIn(store, J), "ok") /\ Renames(store[id], J)
<1> DEFINE I == store[id]
           S == Effective(I)
<1>1. Drawn(S) /\ DOMAIN I = Fields
  BY DEF Inst
<1>2. PICK J : J = [I EXCEPT !.own = <<S>>]
  OBVIOUS
<1>3. Answer(PutIn(store, J), "ok")
  BY <1>2 DEF AdhocRename, Change
<1>4. /\ DOMAIN J = Fields /\ J.id = I.id /\ J.parent = I.parent /\ J.pnode = I.pnode
      /\ J.state = I.state /\ J.followups = I.followups /\ J.schema = I.schema
      /\ J.children = I.children /\ J.own = <<S>> /\ J.ns = I.ns /\ J.es = I.es
  BY <1>1, <1>2 DEF Fields
<1>5. Effective(J) = S
  <2>1. <<S>> # <<>> /\ <<S>>[1] = S
    OBVIOUS
  <2>2. QED
    BY <1>4, <2>1 DEF Effective
<1>6. QED
  BY <1>1, <1>3, <1>4, <1>5 DEF Renames, Varies, Rewrites

LEMMA MigratesIs ==
  ASSUME NEW id \in DOMAIN store, Inst(store[id]), NEW name \in Released, NEW mapping,
         PostMigrate(id, name, mapping)
  PROVE  \E J : Answer(PutIn(store, J), "ok") /\ \E T : Migrates(store[id], J, T)
<1> DEFINE I == store[id]
<1>1. PICK T : T = Schemas[name]
  OBVIOUS
<1>2. PICK J : J = Migrated(T, name, I, mapping)
  OBVIOUS
<1>3. /\ Answer(PutIn(store, J), "ok") /\ I.own = <<>>
      /\ M2(Schemas[I.schema], T, I) /\ M3(Schemas[I.schema], T, I)
  BY <1>1, <1>2 DEF PostMigrate, Migratable, M5, Change
<1>4. Effective(I) = Schemas[I.schema] /\ DOMAIN I = Fields
  BY <1>3 DEF Effective, Inst
<1>5. name \in DOMAIN Schemas /\ Drawn(T)
  BY <1>1, SchemasAssumption, SchemaDrawn
<1>6. PICK ns : ns = [n \in NodesOf(T) |-> IF n \in DOMAIN I.ns THEN I.ns[n] ELSE "NOT_ACTIVATED"]
  OBVIOUS
<1>7. PICK es : es = [e \in T.edges |-> IF e \in DOMAIN I.es THEN I.es[e] ELSE "NOT_SIGNALED"]
  OBVIOUS
<1>8. PICK ch : ch = [n \in NodesOf(T) \cup DOMAIN I.children |->
                        IF n \in DOMAIN I.children THEN I.children[n] ELSE 0]
  OBVIOUS
<1>9. PICK dec : dec = [n \in NodesOf(T) \cup DOMAIN I.dec |->
                          IF n \in DOMAIN I.dec THEN I.dec[n] ELSE NoNode]
  OBVIOUS
<1>10. PICK data : data = Overlay(I.data, mapping)
  OBVIOUS
<1>11. J = [I EXCEPT !.schema = name, !.ns = ns, !.es = es, !.dec = dec, !.children = ch, !.data = data]
  BY <1>2, <1>6, <1>7, <1>8, <1>9, <1>10 DEF Migrated
<1>12. /\ DOMAIN J = Fields /\ J.id = I.id /\ J.parent = I.parent /\ J.pnode = I.pnode
       /\ J.state = I.state /\ J.followups = I.followups /\ J.schema = name
       /\ J.children = ch /\ J.own = <<>> /\ J.ns = ns /\ J.es = es
  BY <1>3, <1>4, <1>11 DEF Fields
<1>13. Effective(J) = T
  BY <1>1, <1>12 DEF Effective
<1>14. Migrates(I, J, T)
  BY <1>1, <1>3, <1>4, <1>5, <1>6, <1>7, <1>8, <1>12, <1>13 DEF Migrates, Rewrites
<1>15. QED
  BY <1>3, <1>14

LEMMA AdhocIs ==
  ASSUME Shape, AdhocChange
  PROVE  /\ call = Idle
         /\ \E id, J : id \in DOMAIN store /\ Adapts(store[id], J) /\ Answer(PutIn(store, J), "ok")
<1>1. call = Idle /\ \A id \in DOMAIN store : Inst(store[id])
  BY DEF AdhocChange, Shape, Stored
<1>2. ASSUME NEW id \in DOMAIN store, NEW e \in Effective(store[id]).edges, NEW new \in NewNodes,
             AdhocInsert(id, e[1], e[2], new)
      PROVE  \E J : Adapts(store[id], J) /\ Answer(PutIn(store, J), "ok")
  <2>1. PICK J : /\ Answer(PutIn(store, J), "ok")
                 /\ \E T, anchor, next : Inserts(store[id], J, T, anchor, next, new)
    BY <1>1, <1>2, InsertsIs
  <2>2. Adapts(store[id], J)
    BY <2>1, Zenon DEF Adapts
  <2>3. QED
    BY <2>1, <2>2
<1>3. ASSUME NEW id \in DOMAIN store, NEW n \in NodesOf(Effective(store[id])),
             NEW prev, NEW next, AdhocDelete(id, n, prev, next)
      PROVE  \E J : Adapts(store[id], J) /\ Answer(PutIn(store, J), "ok")
  <2>1. PICK J : /\ Answer(PutIn(store, J), "ok")
                 /\ \E T : Deletes(store[id], J, T, n, prev, next)
    BY <1>1, <1>3, DeletesIs
  <2>2. Adapts(store[id], J)
    BY <2>1, Zenon DEF Adapts
  <2>3. QED
    BY <2>1, <2>2
<1>4. ASSUME NEW id \in DOMAIN store, NEW n, AdhocRename(id, n)
      PROVE  \E J : Adapts(store[id], J) /\ Answer(PutIn(store, J), "ok")
  BY <1>1, <1>4, RenamesIs DEF Adapts
<1>6. PICK id \in DOMAIN store :
        LET S == Effective(store[id]) IN
        \/ \E e \in S.edges, new \in NewNodes : AdhocInsert(id, e[1], e[2], new)
        \/ \E n \in NodesOf(S) : \E prev \in Preds(S, n), next \in Succs(S, n) :
             AdhocDelete(id, n, prev, next)
        \/ \E n \in NodesOf(S) : AdhocRename(id, n)
  BY DEF AdhocChange
<1>7. \E J : Adapts(store[id], J) /\ Answer(PutIn(store, J), "ok")
  BY <1>2, <1>3, <1>4, <1>6
<1>8. QED
  BY <1>1, <1>7

LEMMA MigrationIs ==
  ASSUME Shape, Migration
  PROVE  /\ call = Idle
         /\ \E id, J :
              /\ id \in DOMAIN store
              /\ (\E T : Migrates(store[id], J, T)) /\ Answer(PutIn(store, J), "ok")
<1>1. call = Idle /\ \A id \in DOMAIN store : Inst(store[id])
  BY DEF Migration, Shape, Stored
<1>2. PICK id \in DOMAIN store, name \in Released, mapping \in ClientWrites :
        PostMigrate(id, name, mapping)
  BY DEF Migration
<1>3. \E J : Answer(PutIn(store, J), "ok") /\ \E T : Migrates(store[id], J, T)
  BY <1>1, <1>2, MigratesIs
<1>4. QED
  BY <1>1, <1>3

LEMMA ChangeIs ==
  ASSUME Shape, AdhocChange \/ Migration
  PROVE  /\ call = Idle
         /\ \E id, J : id \in DOMAIN store /\ Changes(store[id], J) /\ Answer(PutIn(store, J), "ok")
BY AdhocIs, MigrationIs DEF Changes

LEMMA ChangedInst ==
  ASSUME NEW I, Inst(I), NEW J, Changes(I, J)
  PROVE  Inst(J) /\ J.id = I.id
<1> DEFINE S == Effective(I)
<1>1. Drawn(S) /\ NodesOfKind(S, "SUBPROCESS") \subseteq DOMAIN I.children
  BY DEF Inst
<1>2. ASSUME NEW T, Varies(I, J, T), NodesOfKind(T, "SUBPROCESS") \subseteq NodesOfKind(S, "SUBPROCESS")
      PROVE  Inst(J) /\ J.id = I.id
  BY <1>1, <1>2 DEF Inst, Varies, Rewrites
<1>3. ASSUME NEW T, NEW anchor, NEW next, NEW new, Inserts(I, J, T, anchor, next, new)
      PROVE  Inst(J) /\ J.id = I.id
  <2>1. NodesOfKind(T, "SUBPROCESS") \subseteq NodesOfKind(S, "SUBPROCESS")
    BY <1>3 DEF Inserts, InsertedAs, NodesOfKind, NodesOf
  <2>2. QED
    BY <1>2, <1>3, <2>1 DEF Inserts
<1>4. ASSUME NEW T, NEW n, NEW prev, NEW next, Deletes(I, J, T, n, prev, next)
      PROVE  Inst(J) /\ J.id = I.id
  <2>1. NodesOfKind(T, "SUBPROCESS") \subseteq NodesOfKind(S, "SUBPROCESS")
    BY <1>4 DEF Deletes, DeletedAs, NodesOfKind, NodesOf
  <2>2. QED
    BY <1>2, <1>4, <2>1 DEF Deletes
<1>5. CASE Renames(I, J)
  BY <1>2, <1>5 DEF Renames
<1>6. ASSUME NEW T, Migrates(I, J, T)
      PROVE  Inst(J) /\ J.id = I.id
  <2>1. /\ DOMAIN J = Fields /\ J.id = I.id /\ J.parent = I.parent /\ J.pnode = I.pnode
        /\ Effective(J) = T /\ Drawn(T) /\ J.schema \in DOMAIN Schemas /\ T = Schemas[J.schema]
        /\ J.children = [n \in NodesOf(T) \cup DOMAIN I.children |->
                           IF n \in DOMAIN I.children THEN I.children[n] ELSE 0]
    BY <1>6 DEF Migrates, Rewrites
  <2>2. NodesOf(T) \subseteq DOMAIN J.children /\ NodesOfKind(T, "SUBPROCESS") \subseteq NodesOf(T)
    BY <2>1 DEF NodesOfKind, NodesOf
  <2>3. QED
    BY <2>1, <2>2 DEF Inst
<1>7. QED
  BY <1>3, <1>4, <1>5, <1>6 DEF Changes, Adapts

LEMMA ClientCallIs ==
  ASSUME Shape, ClientCall
  PROVE  /\ call = Idle
         /\ \/ \E name, I :
                 /\ name \in DOMAIN Schemas
                 /\ I = NewInstance(name, Len(store) + 1, Nothing, 0, NoNode)
                 /\ Begins(Begin("create", I), Append(store, I))
            \/ \E id, J : id \in DOMAIN store /\ Starts(store[id], J) /\ Answer(PutIn(store, J), "ok")
            \/ \E id, J :
                 /\ id \in DOMAIN store
                 /\ Completes(store[id], J) /\ Begins(Begin("complete", J), store)
<1>1. call = Idle /\ \A id \in DOMAIN store : Inst(store[id])
  BY DEF ClientCall, Shape, Stored
<1>2. ASSUME NEW name \in Released, PostInstantiate(name)
      PROVE  \E nm, I :
                 /\ nm \in DOMAIN Schemas
                 /\ I = NewInstance(nm, Len(store) + 1, Nothing, 0, NoNode)
                 /\ Begins(Begin("create", I), Append(store, I))
  <2>1. PICK I : I = NewInstance(name, Len(store) + 1, Nothing, 0, NoNode)
    OBVIOUS
  <2>2. Begins(Begin("create", I), Append(store, I))
    BY <1>2, <2>1 DEF PostInstantiate
  <2>3. name \in DOMAIN Schemas
    BY SchemasAssumption
  <2>4. QED
    BY <2>1, <2>2, <2>3
<1>3. ASSUME NEW id \in DOMAIN store, NEW n \in NodesOf(Effective(store[id])), PostStart(id, n)
      PROVE  \E J : Starts(store[id], J) /\ Answer(PutIn(store, J), "ok")
  <2>1. PICK I : I = store[id]
    OBVIOUS
  <2>2. PICK J : J = [I EXCEPT !.ns[n] = "RUNNING"]
    OBVIOUS
  <2>3. /\ Answer(PutIn(store, J), "ok")
        /\ Effective(I).kind[n] = "ACTIVITY" /\ I.ns[n] = "ACTIVATED"
    BY <1>3, <2>1, <2>2 DEF PostStart
  <2>4. Starts(I, J)
    BY <1>1, <2>1, <2>2, <2>3, StartsIs
  <2>5. QED
    BY <2>1, <2>3, <2>4
<1>4. ASSUME NEW id \in DOMAIN store, NEW n \in NodesOf(Effective(store[id])), NEW w,
             PostComplete(id, n, w)
      PROVE  \E J : Completes(store[id], J) /\ Begins(Begin("complete", J), store)
  <2>1. PICK I : I = store[id]
    OBVIOUS
  <2>2. PICK J : J = CompleteNode(Effective(I), [I EXCEPT !.data = Overlay(@, w)], n, NoNode)
    OBVIOUS
  <2>3. /\ Begins(Begin("complete", J), store) /\ I.state = "RUNNING"
        /\ Effective(I).kind[n] = "ACTIVITY" /\ I.ns[n] \in {"ACTIVATED", "RUNNING"}
    BY <1>4, <2>1, <2>2 DEF PostComplete
  <2>4. Completes(I, J)
    BY <1>1, <2>1, <2>2, <2>3, CompletesIs
  <2>5. QED
    BY <2>1, <2>3, <2>4
<1>5. QED
  BY <1>1, <1>2, <1>3, <1>4 DEF ClientCall

LEMMA CreatedAtRoot ==
  ASSUME Shape, NEW name \in DOMAIN Schemas,
         NEW I, I = NewInstance(name, Len(store) + 1, Nothing, 0, NoNode)
  PROVE  Inst(I) /\ I.id = Len(store) + 1 /\ I.pnode = NoNode
<1>1. Len(store) \in Nat
  BY SeqDomain DEF Shape, Stored
<1>2. Inst(I)
  BY <1>1, NewInst
<1>3. QED
  BY <1>2 DEF NewInstance

LEMMA StartedInst ==
  ASSUME NEW I, Inst(I), NEW J, Starts(I, J) \/ Completes(I, J)
  PROVE  Inst(J) /\ J.id = I.id /\ Kin(I, J)
<1>1. Kin(I, J) /\ Family(I, J)
  BY DEF Starts, Completes, Moved
<1>2. QED
  BY <1>1, InstKin DEF Kin, Family

LEMMA ShapeInit == EInit => Shape
BY SeqEmpty DEF EInit, Init, Shape, Stored

LEMMA ShapeStep ==
  ASSUME Shape, [EngineStep \/ AdhocChange \/ Migration]_evars
  PROVE  Shape'
<1>1. CASE ClientCall
  <2>1. CASE \E name, I :
                 /\ name \in DOMAIN Schemas
                 /\ I = NewInstance(name, Len(store) + 1, Nothing, 0, NoNode)
                 /\ Begins(Begin("create", I), Append(store, I))
    <3>1. PICK name, I :
                 /\ name \in DOMAIN Schemas
                 /\ I = NewInstance(name, Len(store) + 1, Nothing, 0, NoNode)
                 /\ Begins(Begin("create", I), Append(store, I))
      BY <2>1
    <3>2. Inst(I) /\ I.id = Len(store) + 1 /\ Len(store) \in Nat /\ Stored(store)
      BY <3>1, CreatedAtRoot, SeqDomain DEF Shape, Stored
    <3>3. PICK st : st = Append(store, I)
      OBVIOUS
    <3>4. Stored(st) /\ Len(st) = Len(store) + 1 /\ st[I.id] = I /\ I.id \in DOMAIN st
      BY <3>2, <3>3, StoredAppend
    <3>5. Kin(st[I.id], I)
      BY <3>2, <3>4 DEF Inst, Kin
    <3>6. call = Idle /\ "create" \in Tasks /\ Len(store) <= Len(st) /\ I.id > Len(store)
      BY <1>1, <3>2, <3>4 DEF ClientCall, Tasks
    <3>7. QED
      BY <3>1, <3>2, <3>3, <3>4, <3>5, <3>6, ShapeBegin
  <2>2. CASE \E id, J : id \in DOMAIN store /\ Starts(store[id], J) /\ Answer(PutIn(store, J), "ok")
    <3>1. PICK id, J : id \in DOMAIN store /\ Starts(store[id], J) /\ Answer(PutIn(store, J), "ok")
      BY <2>2
    <3>2. Inst(J) /\ J.id = id /\ Stored(store)
      BY <3>1, StartedInst DEF Shape, Stored
    <3>3. Stored(PutIn(store, J))
      BY <3>1, <3>2, StoredSet
    <3>4. QED
      BY <3>1, <3>3, ShapeAnswer
  <2>3. CASE \E id, J :
                 /\ id \in DOMAIN store
                 /\ Completes(store[id], J) /\ Begins(Begin("complete", J), store)
    <3>1. PICK id, J :
                 /\ id \in DOMAIN store
                 /\ Completes(store[id], J) /\ Begins(Begin("complete", J), store)
      BY <2>3
    <3>2. Inst(J) /\ J.id = id /\ Stored(store) /\ Kin(store[J.id], J)
      BY <3>1, StartedInst DEF Shape, Stored
    <3>3. Len(store) \in Nat /\ DOMAIN store = 1 .. Len(store) /\ ~(J.id > Len(store))
      BY <3>1, <3>2, SeqDomain DEF Stored
    <3>4. call = Idle /\ "complete" \in Tasks
      BY <1>1 DEF ClientCall, Tasks
    <3>5. QED
      BY <3>1, <3>2, <3>3, <3>4, ShapeBegin
  <2>4. QED
    BY <1>1, <2>1, <2>2, <2>3, ClientCallIs
<1>2. CASE Visit \/ EvaluateTargets \/ TriggerFollowUps
  <2>1. call # Idle /\ Frame(call, store) /\ Stored(store)
    BY <1>2, StepIs, CallIs
  <2>2. CASE Raise
    BY <2>1, <2>2, ShapeAnswer DEF Raise
  <2>3. ASSUME NEW d, Passes(call, d) \/ Works(call, d), Goes(d) PROVE Shape'
    BY <2>1, <2>3, PassesOnward, WorksOnward, ShapeGoes
  <2>4. ASSUME NEW F, NEW I, SpawnsChild(call, F, I), Create(F, I) PROVE Shape'
    <3>1. Inst(I) /\ I.id = Len(store) + 1 /\ MadeFor(F, I)
      BY <2>1, <2>4, ChildInst
    <3>2. Onward(call, F) /\ Waits(F)
      BY <2>1, <2>4, SpawnsOnward
    <3>3. QED
      BY <2>1, <2>4, <3>1, <3>2, ShapeCreate
  <2>5. ASSUME call.pc = "follow", call.k \in DOMAIN Links(call),
               Create(call, FollowUp(Links(call)[call.k], call.i))
        PROVE  Shape'
    <3>1. PICK I : I = FollowUp(Links(call)[call.k], call.i)
      OBVIOUS
    <3>2. Inst(I) /\ I.id = Len(store) + 1 /\ MadeFor(call, I)
      BY <2>1, <2>5, <3>1, FollowInst
    <3>3. Onward(call, call) /\ Waits(call)
      BY <2>1, <2>5, FrameSelf DEF Waits
    <3>4. QED
      BY <2>1, <2>5, <3>1, <3>2, <3>3, ShapeCreate
  <2>6. CASE AtRest(call) /\ call.i.state = "COMPLETED" /\ Advanced(call)
    BY <2>1, <2>6, ShapeAdvanced
  <2>7. CASE AtRest(call) /\ call.i.state # "COMPLETED" /\ Return(call.i)
    BY <2>1, <2>7, ShapeReturn
  <2>8. CASE call.pc = "follow" /\ Followed(call)
    BY <2>1, <2>8, ShapeFollowed
  <2>9. QED
    BY <1>2, <2>2, <2>3, <2>4, <2>5, <2>6, <2>7, <2>8, StepIs
<1>3. CASE AdhocChange \/ Migration
  <2>1. PICK id, J : id \in DOMAIN store /\ Changes(store[id], J) /\ Answer(PutIn(store, J), "ok")
    BY <1>3, ChangeIs
  <2>2. Inst(store[id]) /\ store[id].id = id /\ Stored(store)
    BY <2>1 DEF Shape, Stored
  <2>3. Inst(J) /\ J.id = id
    BY <2>1, <2>2, ChangedInst
  <2>4. Stored(PutIn(store, J))
    BY <2>1, <2>2, <2>3, StoredSet
  <2>5. QED
    BY <2>1, <2>4, ShapeAnswer
<1>4. CASE UNCHANGED evars
  BY <1>4 DEF evars, Shape
<1>5. QED
  BY <1>1, <1>2, <1>3, <1>4 DEF EngineStep, Next

(* Instances stand at the place of their id, functions at work have copies *)
(* of stored instances, and what waits for a child waits at a node without *)
(* one, whatever a client calls or changes.                                *)
THEOREM ShapeAlways == ESpec => []Shape
BY ShapeInit, ShapeStep, PTL DEF ESpec

-----------------------------------------------------------------------------
(* Markings fit the schema in force: its nodes and edges are the marked    *)
(* ones, and exactly the edges out of finished nodes are signalled.  What  *)
(* is stored is settled: an edge into a node that is not activated yet is  *)
(* not signalled, unless the node is a join and waits for its other edges. *)
Fit(S, I) ==
  /\ DOMAIN I.ns = NodesOf(S) /\ DOMAIN I.es = S.edges
  /\ \A e \in S.edges : (I.es[e] # "NOT_SIGNALED") <=> (I.ns[e[1]] \in Terminal)
Settled(S, I) ==
  \A e \in S.edges :
    S.kind[e[2]] \notin Joins /\ I.ns[e[2]] = "NOT_ACTIVATED" => I.es[e] = "NOT_SIGNALED"
Neat(I) == Fit(Effective(I), I) /\ Settled(Effective(I), I)
AllNeat(st) == \A id \in DOMAIN st : Neat(st[id])
Marks(F) ==
  /\ Fit(Effective(F.i), F.i)
  /\ F.task = "join" => F.i.own = <<>>
  /\ F.pc = "follow" => Settled(Effective(F.i), F.i)
Marking ==
  /\ AllNeat(store) /\ (call # Idle => Marks(call))
  /\ \A k \in DOMAIN callers : Marks(callers[k])

LEMMA EdgeEnds ==
  ASSUME NEW S, Drawn(S), NEW e \in S.edges
  PROVE  e[1] \in NodesOf(S) /\ e[2] \in NodesOf(S) /\ e = <<e[1], e[2]>>
BY DEF Drawn

LEMMA FitMoved ==
  ASSUME NEW S, Drawn(S), NEW I, NEW J, NEW n \in NodesOf(S), NEW s,
         Fit(S, I), Moved(S, I, J, n, s), s \in Terminal \/ I.ns[n] \notin Terminal
  PROVE  Fit(S, J)
<1>1. /\ J.ns = [I.ns EXCEPT ![n] = s]
      /\ DOMAIN I.ns = NodesOf(S) /\ DOMAIN I.es = S.edges
  BY DEF Moved, Marked, Fit
<1>2. DOMAIN J.ns = NodesOf(S) /\ J.ns[n] = s /\ \A m \in NodesOf(S) : m # n => J.ns[m] = I.ns[m]
  BY <1>1
<1>3. \A e : e \in OutOf(S, n) <=> e \in S.edges /\ e[1] = n
  BY DEF OutOf
<1>4. CASE s \in Terminal
  <2>1. /\ DOMAIN J.es = DOMAIN I.es \cup OutOf(S, n)
        /\ \A e \in OutOf(S, n) : J.es[e] \in Signs
        /\ \A e \in DOMAIN I.es \ OutOf(S, n) : J.es[e] = I.es[e]
    BY <1>4 DEF Moved, Marked, Signed
  <2>2. DOMAIN J.es = S.edges
    BY <1>1, <1>3, <2>1
  <2>3. ASSUME NEW e \in S.edges PROVE (J.es[e] # "NOT_SIGNALED") <=> (J.ns[e[1]] \in Terminal)
    <3>1. CASE e[1] = n
      BY <1>2, <1>3, <1>4, <2>1, <3>1 DEF Signs
    <3>2. CASE e[1] # n
      <4>1. J.es[e] = I.es[e] /\ J.ns[e[1]] = I.ns[e[1]]
        BY <1>1, <1>2, <1>3, <2>1, <3>2, EdgeEnds
      <4>2. QED
        BY <4>1 DEF Fit
    <3>3. QED
      BY <3>1, <3>2
  <2>4. QED
    BY <1>2, <2>2, <2>3 DEF Fit
<1>5. CASE s \notin Terminal
  <2>1. J.es = I.es
    BY <1>5 DEF Moved, Marked
  <2>2. ASSUME NEW e \in S.edges PROVE (J.es[e] # "NOT_SIGNALED") <=> (J.ns[e[1]] \in Terminal)
    <3>1. CASE e[1] = n
      BY <1>2, <1>5, <2>1, <3>1 DEF Fit
    <3>2. CASE e[1] # n
      <4>1. J.ns[e[1]] = I.ns[e[1]]
        BY <1>2, <3>2, EdgeEnds
      <4>2. QED
        BY <2>1, <4>1 DEF Fit
    <3>3. QED
      BY <3>1, <3>2
  <2>3. QED
    BY <1>1, <1>2, <2>1, <2>2 DEF Fit
<1>6. QED
  BY <1>4, <1>5

LEMMA OneWayIn ==
  ASSUME NEW S, Drawn(S), NEW n \in NodesOf(S), S.kind[n] \notin Joins,
         NEW e \in Into(S, n), NEW f \in Into(S, n)
  PROVE  e = f
<1>1. IsFiniteSet(Into(S, n))
  <2>1. IsFiniteSet(NodesOf(S) \X NodesOf(S))
    BY FS_Product DEF Drawn
  <2>2. Into(S, n) \subseteq NodesOf(S) \X NodesOf(S)
    BY DEF Drawn, Into
  <2>3. QED
    BY <2>1, <2>2, FS_Subset
<1>2. DegreesOK(S, n)
  BY DEF Drawn, Valid, K2, NodesOf
<1>3. S.kind[n] \in {"START", "END", "ACTIVITY", "SUBPROCESS"} \cup Splits
  BY DEF Drawn, NodeTypes
<1>4. Cardinality(Into(S, n)) \in {0, 1}
  BY <1>2, <1>3 DEF DegreesOK
<1>5. CASE Cardinality(Into(S, n)) = 0
  BY <1>1, <1>5, FS_EmptySet
<1>6. CASE Cardinality(Into(S, n)) = 1
  <2>1. PICK x : Into(S, n) = {x}
    BY <1>1, <1>6, FS_Singleton
  <2>2. QED
    BY <2>1
<1>7. QED
  BY <1>4, <1>5, <1>6

(* The loop ends when there is nothing left to evaluate.                   *)
LEMMA RestIsSettled ==
  ASSUME NEW S, Drawn(S), NEW I, ToEvaluate(S, I) = {}
  PROVE  Settled(S, I)
<1>1. SUFFICES ASSUME NEW e \in S.edges, S.kind[e[2]] \notin Joins, I.ns[e[2]] = "NOT_ACTIVATED"
               PROVE  I.es[e] = "NOT_SIGNALED"
  BY DEF Settled
<1>2. PICK n : n = e[2]
  OBVIOUS
<1>3. n \in NodesOf(S) /\ e \in Into(S, n)
  BY <1>2, EdgeEnds DEF Into
<1>4. "NOT_SIGNALED" \in Signals(S, I, n)
  BY <1>1, <1>2, <1>3 DEF ToEvaluate
<1>5. PICK f \in Into(S, n) : I.es[f] = "NOT_SIGNALED"
  BY <1>4 DEF Signals
<1>6. f = e
  BY <1>1, <1>2, <1>3, <1>5, OneWayIn
<1>7. QED
  BY <1>5, <1>6

LEMMA MarksSchema ==
  ASSUME NEW F, Marks(F)
  PROVE  SchemaOf(F) = Effective(F.i)
BY DEF Marks, SchemaOf, Effective

LEMMA NewFit ==
  ASSUME NEW name \in DOMAIN Schemas, NEW id, NEW seed, NEW parent, NEW pnode,
         NEW I, I = NewInstance(name, id, seed, parent, pnode)
  PROVE  Neat(I)
<1> DEFINE S == Schemas[name]
<1>1. /\ I.ns = [n \in NodesOf(S) |-> IF S.kind[n] = "START" THEN "ACTIVATED" ELSE "NOT_ACTIVATED"]
      /\ I.es = [e \in S.edges |-> "NOT_SIGNALED"] /\ Effective(I) = S
  BY DEF NewInstance, Effective
<1>2. Drawn(S)
  BY SchemaDrawn
<1>3. \A n \in NodesOf(S) : I.ns[n] \notin Terminal
  BY <1>1 DEF Terminal
<1>4. \A e \in S.edges : I.es[e] = "NOT_SIGNALED"
  BY <1>1
<1>5. Fit(S, I)
  BY <1>1, <1>2, <1>3, <1>4, EdgeEnds DEF Fit
<1>6. QED
  BY <1>1, <1>4, <1>5 DEF Neat, Settled

LEMMA SameMarks ==
  ASSUME NEW I, NEW J, Kin(I, J), J.ns = I.ns, J.es = I.es
  PROVE  /\ Fit(Effective(I), I) => Fit(Effective(J), J)
         /\ Settled(Effective(I), I) => Settled(Effective(J), J)
<1>1. Effective(J) = Effective(I)
  BY EffectiveKin
<1>2. QED
  BY <1>1 DEF Fit, Settled

LEMMA KinMoved ==
  ASSUME NEW I, Inst(I), Fit(Effective(I), I), NEW n \in NodesOf(Effective(I)), NEW s, NEW J,
         Moved(Effective(I), I, J, n, s), s \in Terminal \/ I.ns[n] \notin Terminal
  PROVE  Fit(Effective(J), J)
<1>1. Effective(J) = Effective(I)
  BY EffectiveKin DEF Moved
<1>2. Drawn(Effective(I))
  BY DEF Inst
<1>3. QED
  BY <1>1, <1>2, FitMoved

LEMMA PassesMarks ==
  ASSUME NEW c, NEW d, NEW st, Frame(c, st), Marks(c), Passes(c, d)
  PROVE  Marks(d)
<1>1. Onward(c, d) /\ d.i = c.i /\ (d.pc = "follow" <=> c.pc = "follow")
  BY PassesOnward
<1>2. QED
  BY <1>1 DEF Onward, Marks

LEMMA WorksMarks ==
  ASSUME NEW c, NEW d, NEW st, Frame(c, st), Marks(c), Works(c, d)
  PROVE  Marks(d)
<1> DEFINE S == Effective(c.i)
<1>1. /\ DOMAIN c = {"task", "pc", "i", "k", "moved"} /\ Inst(c.i) /\ SchemaOf(c) = S
      /\ Fit(S, c.i)
  BY MarksSchema DEF Frame, Marks
<1>2. PICK n, J, j : /\ j \in Nat \ {0}
                     /\ d = [c EXCEPT !.i = J, !.k = j, !.moved = TRUE]
                     /\ \/ c.pc = "visit" /\ Visits(SchemaOf(c), c.i, J, n)
                        \/ c.pc = "evaluate" /\ Evaluates(SchemaOf(c), c.i, J, n)
  BY DEF Works
<1>3. d.i = J /\ d.task = c.task /\ d.pc = c.pc
  BY <1>1, <1>2
<1>4. PICK s : /\ Moved(S, c.i, J, n, s) /\ n \in NodesOf(S)
               /\ s \in Terminal \/ c.i.ns[n] \notin Terminal
  BY <1>1, <1>2 DEF Visits, Evaluates, Terminal
<1>5. Fit(Effective(J), J)
  BY <1>1, <1>4, KinMoved
<1>6. J.own = c.i.own
  BY <1>4 DEF Moved, Kin
<1>7. QED
  BY <1>2, <1>3, <1>5, <1>6 DEF Marks

LEMMA ResumedMarks ==
  ASSUME NEW F, NEW st, Frame(F, st), Waits(F), Marks(F), NEW C, NEW d, d = Resumed(F, C)
  PROVE  Marks(d)
<1>1. /\ Onward(F, d) /\ d.pc = F.pc
      /\ F.pc = "visit" => d.i = Adopt(SchemaOf(F), F.i, At(F), C)
      /\ F.pc # "visit" => d.i = [F.i EXCEPT !.followups = Append(@, C.id)]
  BY ResumedOnward
<1>2. /\ d.task = F.task /\ d.i.own = F.i.own /\ Kin(F.i, d.i)
      /\ Inst(F.i) /\ DOMAIN F.i = Fields /\ SchemaOf(F) = Effective(F.i)
  BY <1>1, MarksSchema DEF Onward, Kin, Frame, Inst
<1>3. CASE F.pc = "visit"
  <2>1. /\ At(F) \in NodesOf(Effective(F.i)) /\ F.i.ns[At(F)] = "ACTIVATED"
    BY <1>2, <1>3 DEF Waits
  <2>2. PICK J : J = Adopt(Effective(F.i), F.i, At(F), C)
    OBVIOUS
  <2>3. Adopts(Effective(F.i), F.i, J, At(F), C)
    BY <1>2, <2>2, AdoptIs
  <2>4. PICK s : Moved(Effective(F.i), F.i, J, At(F), s)
    BY <2>3 DEF Adopts
  <2>5. Fit(Effective(J), J)
    BY <1>2, <2>1, <2>4, KinMoved DEF Marks, Terminal
  <2>6. QED
    BY <1>1, <1>2, <1>3, <2>2, <2>5 DEF Marks
<1>4. CASE F.pc # "visit"
  <2>1. d.i.ns = F.i.ns /\ d.i.es = F.i.es
    BY <1>1, <1>2, <1>4 DEF Fields
  <2>2. QED
    BY <1>1, <1>2, <2>1, SameMarks DEF Marks
<1>5. QED
  BY <1>3, <1>4

LEMMA BeginMarks ==
  ASSUME NEW task, NEW I, Fit(Effective(I), I), task = "join" => I.own = <<>>
  PROVE  Marks(Begin(task, I))
BY DEF Begin, Marks

LEMMA NeatPut ==
  ASSUME NEW st, Stored(st), AllNeat(st), NEW J, Inst(J), J.id \in DOMAIN st, Neat(J)
  PROVE  AllNeat(PutIn(st, J))
<1>1. PICK t : t = PutIn(st, J)
  OBVIOUS
<1>2. DOMAIN t = DOMAIN st /\ t[J.id] = J /\ \A id \in DOMAIN st : id # J.id => t[id] = st[id]
  BY <1>1, StoredSet
<1>3. AllNeat(t)
  BY <1>2 DEF AllNeat
<1>4. QED
  BY <1>1, <1>3

LEMMA NeatAppend ==
  ASSUME NEW st, Stored(st), AllNeat(st), NEW J, Inst(J), J.id = Len(st) + 1, Neat(J)
  PROVE  AllNeat(Append(st, J))
<1>1. PICK t : t = Append(st, J)
  OBVIOUS
<1>2. /\ DOMAIN t = DOMAIN st \cup {J.id} /\ t[J.id] = J
      /\ \A id \in DOMAIN st : t[id] = st[id]
  BY <1>1, StoredAppend
<1>3. AllNeat(t)
  BY <1>2 DEF AllNeat
<1>4. QED
  BY <1>1, <1>3

LEMMA MarkingAnswer ==
  ASSUME NEW st, AllNeat(st), NEW what, Answer(st, what)
  PROVE  Marking'
BY SeqEmpty DEF Answer, Marking

LEMMA MarkingCreate ==
  ASSUME Shape, Marking, call # Idle, NEW F, Marks(F), NEW I, Inst(I), I.id = Len(store) + 1, Neat(I),
         Create(F, I)
  PROVE  Marking'
<1>1. /\ store' = Append(store, I) /\ call' = Begin("create", I) /\ callers' = Append(callers, F)
  BY DEF Create
<1>2. AllNeat(Append(store, I))
  BY CallIs, NeatAppend DEF Marking
<1>3. Marks(Begin("create", I))
  BY BeginMarks DEF Neat
<1>4. \A k \in DOMAIN Append(callers, F) : Marks(Append(callers, F)[k])
  <2>1. PICK as : as = Append(callers, F)
    OBVIOUS
  <2>2. /\ DOMAIN as = DOMAIN callers \cup {Len(callers) + 1}
        /\ (\A k \in DOMAIN callers : as[k] = callers[k]) /\ as[Len(callers) + 1] = F
    BY <2>1, CallIs, SeqAppend
  <2>3. \A k \in DOMAIN as : Marks(as[k])
    BY <2>2 DEF Marking
  <2>4. QED
    BY <2>1, <2>3
<1>5. QED
  BY <1>1, <1>2, <1>3, <1>4 DEF Marking

LEMMA MarkingReturn ==
  ASSUME Shape, Marking, call # Idle, Settled(Effective(call.i), call.i), Return(call.i)
  PROVE  Marking'
<1>1. PICK st : st = PutIn(store, call.i)
  OBVIOUS
<1>2. AllNeat(st) /\ Stored(st) /\ Working(st, call, callers, Len(past))
  <2>1. Neat(call.i)
    BY DEF Marking, Marks, Neat
  <2>2. AllNeat(st)
    BY <1>1, <2>1, CallIs, NeatPut DEF Marking
  <2>3. QED
    BY <1>1, <2>2, CallIs, ShapePut
<1>3. CASE callers = <<>>
  BY <1>1, <1>2, <1>3, MarkingAnswer DEF Return
<1>4. CASE callers # <<>>
  <2>1. PICK F : F = callers[Len(callers)]
    OBVIOUS
  <2>2. PICK d : d = Resumed(F, call.i)
    OBVIOUS
  <2>3. PICK fs : fs = SubSeq(callers, 1, Len(callers) - 1)
    OBVIOUS
  <2>4. call' = d /\ callers' = fs /\ store' = st
    BY <1>1, <1>4, <2>1, <2>2, <2>3 DEF Return
  <2>5. PoppedTo(callers, F, fs)
    BY <1>4, <2>1, <2>3, CallIs, AboveFront
  <2>6. Len(callers) \in DOMAIN callers /\ \A k \in DOMAIN fs : k \in DOMAIN callers /\ fs[k] = callers[k]
    BY <2>5 DEF PoppedTo
  <2>7. Frame(F, st) /\ Waits(F) /\ Marks(F)
    BY <1>2, <2>1, <2>6 DEF Working, Marking
  <2>8. Marks(d)
    BY <2>2, <2>7, ResumedMarks
  <2>9. QED
    BY <1>2, <2>4, <2>6, <2>8 DEF Marking
<1>5. QED
  BY <1>3, <1>4

LEMMA MarkingAdvanced ==
  ASSUME Shape, Marking, call # Idle, Settled(Effective(call.i), call.i),
         call.i.state = "COMPLETED", Advanced(call)
  PROVE  Marking'
<1>1. PICK d : d = [call EXCEPT !.pc = "follow", !.k = 1]
  OBVIOUS
<1>2. PICK st : st = IF call.task = "create" THEN store ELSE PutIn(store, call.i)
  OBVIOUS
<1>3. call' = d /\ store' = st /\ callers' = callers
  BY <1>1, <1>2 DEF Advanced
<1>4. Neat(call.i)
  BY DEF Marking, Marks, Neat
<1>5. AllNeat(st)
  BY <1>2, <1>4, CallIs, NeatPut DEF Marking
<1>6. d.i = call.i /\ d.task = call.task
  BY <1>1, CallIs DEF Frame
<1>7. Marks(d)
  BY <1>6 DEF Marking, Marks
<1>8. QED
  BY <1>3, <1>5, <1>7 DEF Marking

(* Parents of children joined by _propagate_completion have no variant,    *)
(* so the released schema the walk asks for is the one they run on.        *)
ParentsPlain == \A c \in DOMAIN store : store[c].pnode # NoNode => store[store[c].parent].own = <<>>

JoinsOf(F, P, J) ==
  /\ F.task # "create" /\ P = store[F.i.parent] /\ P.id = F.i.parent /\ P.id < F.i.id
  /\ Inst(P) /\ F.i.pnode # NoNode /\ F.i.pnode \in NodesOf(Schemas[P.schema])
  /\ Schemas[P.schema].kind[F.i.pnode] = "SUBPROCESS"
  /\ Moved(Schemas[P.schema], P, J, F.i.pnode, "COMPLETED") /\ Family(P, J) /\ J.state = P.state

LEMMA FollowedIs ==
  ASSUME Shape, call # Idle, Followed(call)
  PROVE  \/ Return(call.i)
         \/ /\ callers = <<>> /\ callers' = <<>> /\ past' = past
            /\ store' = PutIn(store, call.i)
            /\ \E P, J : JoinsOf(call, P, J) /\ call' = Begin("join", J)
<1>1. CASE ~Reports(call)
  BY <1>1 DEF Followed
<1>2. CASE Reports(call)
  <2>2. PICK P : P = store[call.i.parent]
    OBVIOUS
  <2>3. PICK J : J = JoinNode(Schemas[P.schema], P, call.i.pnode, call.i)
    OBVIOUS
  <2>4. call' = Begin("join", J) /\ store' = PutIn(store, call.i) /\ callers' = callers /\ past' = past
    BY <1>2, <2>2, <2>3 DEF Followed, JoinParent
  <2>5. /\ call.task # "create" /\ callers = <<>> /\ call.i.pnode # NoNode
        /\ call.i.parent \in DOMAIN store /\ call.i.parent < call.i.id
        /\ call.i.pnode \in DOMAIN Schemas[P.schema].bind
    BY <1>2, <2>2, CallIs DEF Reports, Working, Inst
  <2>6. Inst(P) /\ P.id = call.i.parent
    BY <2>2, <2>5, CallIs DEF Stored
  <2>7. call.i.pnode \in NodesOfKind(Schemas[P.schema], "SUBPROCESS")
    BY <2>5, <2>6, SchemaDrawn DEF Drawn, Inst
  <2>8. /\ call.i.pnode \in NodesOf(Schemas[P.schema])
        /\ Schemas[P.schema].kind[call.i.pnode] = "SUBPROCESS"
    BY <2>7 DEF NodesOfKind, NodesOf
  <2>9. /\ Moved(Schemas[P.schema], P, J, call.i.pnode, "COMPLETED") /\ Family(P, J)
        /\ J.state = P.state
    BY <2>3, <2>6, JoinNodeIs DEF Inst
  <2>10. JoinsOf(call, P, J)
    BY <2>2, <2>5, <2>6, <2>8, <2>9 DEF JoinsOf
  <2>11. QED
    BY <2>4, <2>5, <2>10
<1>3. QED
  BY <1>1, <1>2

LEMMA MarkingFollowed ==
  ASSUME Shape, Marking, ParentsPlain, call # Idle, call.pc = "follow", Followed(call)
  PROVE  Marking'
<1>1. Settled(Effective(call.i), call.i) /\ Neat(call.i)
  BY DEF Marking, Marks, Neat
<1>2. CASE Return(call.i)
  BY <1>1, <1>2, MarkingReturn
<1>3. ASSUME callers' = <<>>, store' = PutIn(store, call.i),
             NEW P, NEW J, JoinsOf(call, P, J), call' = Begin("join", J)
      PROVE  Marking'
  <2>1. AllNeat(PutIn(store, call.i))
    BY <1>1, CallIs, NeatPut DEF Marking
  <2>2. /\ Inst(P) /\ P = store[call.i.parent] /\ P.id = call.i.parent
        /\ call.i.pnode # NoNode /\ call.i.pnode \in NodesOf(Schemas[P.schema])
        /\ Moved(Schemas[P.schema], P, J, call.i.pnode, "COMPLETED")
    BY <1>3 DEF JoinsOf
  <2>3. P.own = <<>>
    <3>1. Kin(store[call.i.id], call.i) /\ call.i.id \in DOMAIN store
      BY CallIs
    <3>2. store[call.i.id].pnode # NoNode /\ store[call.i.id].parent = call.i.parent
      BY <2>2, <3>1 DEF Kin
    <3>3. QED
      BY <2>2, <3>1, <3>2 DEF ParentsPlain
  <2>4. Effective(P) = Schemas[P.schema] /\ J.own = <<>>
    BY <2>2, <2>3 DEF Effective, Moved, Kin
  <2>5. Fit(Effective(P), P)
    <3>1. call.i.parent \in DOMAIN store
      <4>1. call.i.parent \in Nat /\ call.i.parent < call.i.id /\ call.i.parent # 0
        BY <2>2, CallIs DEF Inst
      <4>2. QED
        BY <4>1, CallIs
    <3>2. QED
      BY <2>2, <3>1 DEF Marking, AllNeat, Neat
  <2>6. Fit(Effective(J), J)
    BY <2>2, <2>4, <2>5, KinMoved DEF Terminal
  <2>7. Marks(Begin("join", J))
    BY <2>4, <2>6, BeginMarks
  <2>8. QED
    BY <1>3, <2>1, <2>7, SeqEmpty DEF Marking
<1>4. QED
  BY <1>2, <1>3, FollowedIs

LEMMA MarkingClient ==
  ASSUME Shape, Marking, ClientCall
  PROVE  Marking'
<1>1. call = Idle /\ callers = <<>> /\ Stored(store) /\ AllNeat(store) /\ Len(store) \in Nat
  BY SeqDomain DEF ClientCall, Shape, Marking, Stored
<1>2. ASSUME NEW name \in DOMAIN Schemas, NEW I, I = NewInstance(name, Len(store) + 1, Nothing, 0, NoNode),
             Begins(Begin("create", I), Append(store, I))
      PROVE  Marking'
  <2>1. Inst(I) /\ I.id = Len(store) + 1 /\ Neat(I)
    BY <1>2, CreatedAtRoot, NewFit
  <2>2. AllNeat(Append(store, I))
    BY <1>1, <2>1, NeatAppend
  <2>3. Marks(Begin("create", I))
    BY <2>1, BeginMarks DEF Neat
  <2>4. QED
    BY <1>1, <1>2, <2>2, <2>3, SeqEmpty DEF Begins, Marking
<1>3. ASSUME NEW id \in DOMAIN store, NEW J, Starts(store[id], J), Answer(PutIn(store, J), "ok")
      PROVE  Marking'
  <2>1. PICK I : I = store[id]
    OBVIOUS
  <2>2. Inst(I) /\ I.id = id /\ Neat(I)
    BY <1>1, <2>1 DEF Stored, AllNeat
  <2>3. PICK n \in NodesOf(Effective(I)) :
          /\ Kin(I, J) /\ Family(I, J) /\ J.state = I.state /\ J.es = I.es
          /\ Effective(I).kind[n] = "ACTIVITY" /\ I.ns[n] = "ACTIVATED"
          /\ J.ns = [I.ns EXCEPT ![n] = "RUNNING"]
    BY <1>3, <2>1 DEF Starts
  <2>4. Moved(Effective(I), I, J, n, "RUNNING")
    BY <2>3 DEF Moved, Marked, Terminal
  <2>5. Fit(Effective(J), J)
    BY <2>2, <2>3, <2>4, KinMoved DEF Neat, Terminal
  <2>6. Settled(Effective(J), J)
    <3>1. Effective(J) = Effective(I)
      BY <2>3, EffectiveKin
    <3>2. DOMAIN I.ns = NodesOf(Effective(I))
      BY <2>2 DEF Neat, Fit
    <3>3. \A m \in NodesOf(Effective(I)) : J.ns[m] = "NOT_ACTIVATED" => I.ns[m] = "NOT_ACTIVATED"
      BY <2>3, <3>2
    <3>4. \A e \in Effective(I).edges : e[2] \in NodesOf(Effective(I))
      BY <2>2, EdgeEnds DEF Inst
    <3>5. QED
      BY <2>2, <2>3, <3>1, <3>3, <3>4 DEF Neat, Settled
  <2>7. Inst(J) /\ J.id = id
    BY <1>3, <2>1, <2>2, StartedInst
  <2>8. AllNeat(PutIn(store, J))
    BY <1>1, <2>5, <2>6, <2>7, NeatPut DEF Neat
  <2>9. QED
    BY <1>3, <2>8, MarkingAnswer
<1>4. ASSUME NEW id \in DOMAIN store, NEW J, Completes(store[id], J), Begins(Begin("complete", J), store)
      PROVE  Marking'
  <2>1. PICK I : I = store[id]
    OBVIOUS
  <2>2. Inst(I) /\ I.id = id /\ Neat(I)
    BY <1>1, <2>1 DEF Stored, AllNeat
  <2>3. PICK n \in NodesOf(Effective(I)) : Moved(Effective(I), I, J, n, "COMPLETED")
    BY <1>4, <2>1 DEF Completes
  <2>4. Fit(Effective(J), J)
    BY <2>2, <2>3, KinMoved DEF Neat, Terminal
  <2>5. Marks(Begin("complete", J))
    BY <2>4, BeginMarks
  <2>6. QED
    BY <1>1, <1>4, <2>5, SeqEmpty DEF Begins, Marking
<1>5. QED
  BY <1>2, <1>3, <1>4, ClientCallIs

LEMMA MarkingEngine ==
  ASSUME Shape, Marking, ParentsPlain, [Next]_vars
  PROVE  Marking'
<1>1. CASE ClientCall
  BY <1>1, MarkingClient
<1>2. CASE Visit \/ EvaluateTargets \/ TriggerFollowUps
  <2>1. call # Idle /\ Frame(call, store) /\ Stored(store)
    BY <1>2, StepIs, CallIs
  <2>2. Marks(call) /\ AllNeat(store) /\ SchemaOf(call) = Effective(call.i)
    BY <2>1, MarksSchema DEF Marking
  <2>3. CASE Raise
    BY <2>2, <2>3, MarkingAnswer DEF Raise
  <2>4. ASSUME NEW d, Passes(call, d) \/ Works(call, d), Goes(d) PROVE Marking'
    <3>1. Marks(d)
      BY <2>1, <2>2, <2>4, PassesMarks, WorksMarks
    <3>2. QED
      BY <2>4, <3>1 DEF Goes, Marking
  <2>5. ASSUME NEW F, NEW I, SpawnsChild(call, F, I), Create(F, I) PROVE Marking'
    <3>1. Inst(I) /\ I.id = Len(store) + 1
      BY <2>1, <2>5, ChildInst
    <3>2. F.i = call.i /\ F.pc = "visit" /\ F.task = call.task
      BY <2>1, <2>5, SpawnsOnward DEF Onward
    <3>3. Marks(F)
      BY <2>2, <3>2 DEF Marks
    <3>4. Neat(I)
      <4>1. I = Child(SchemaOf(call), call.i, At(F)) /\ Waits(F) /\ SchemaOf(F) = SchemaOf(call)
        BY <2>1, <2>5, SpawnsOnward
      <4>2. SchemaOf(call).bind[At(F)].target \in DOMAIN Schemas
        BY <2>1, <3>2, <4>1, SchemaOfDrawn DEF Waits, Spawns, Frame, Drawn
      <4>3. QED
        BY <4>1, <4>2, NewFit DEF Child
    <3>5. QED
      BY <2>1, <2>5, <3>1, <3>3, <3>4, MarkingCreate
  <2>6. ASSUME call.pc = "follow", call.k \in DOMAIN Links(call),
               Create(call, FollowUp(Links(call)[call.k], call.i))
        PROVE  Marking'
    <3>1. PICK I : I = FollowUp(Links(call)[call.k], call.i)
      OBVIOUS
    <3>2. Inst(I) /\ I.id = Len(store) + 1
      BY <2>1, <2>6, <3>1, FollowInst
    <3>3. Links(call)[call.k].target \in DOMAIN Schemas
      BY <2>1, <2>6, SchemaOfDrawn DEF Links, Drawn, Frame
    <3>4. Neat(I)
      BY <3>1, <3>3, NewFit DEF FollowUp
    <3>5. QED
      BY <2>1, <2>2, <2>6, <3>1, <3>2, <3>4, MarkingCreate
  <2>7. AtRest(call) => Settled(Effective(call.i), call.i)
    <3>1. Drawn(Effective(call.i))
      BY <2>1 DEF Frame, Inst
    <3>2. QED
      BY <2>2, <3>1, RestIsSettled DEF AtRest
  <2>8. CASE AtRest(call) /\ call.i.state = "COMPLETED" /\ Advanced(call)
    BY <2>1, <2>7, <2>8, MarkingAdvanced
  <2>9. CASE AtRest(call) /\ call.i.state # "COMPLETED" /\ Return(call.i)
    BY <2>1, <2>7, <2>9, MarkingReturn
  <2>10. CASE call.pc = "follow" /\ Followed(call)
    BY <2>1, <2>10, MarkingFollowed
  <2>11. QED
    BY <1>2, <2>3, <2>4, <2>5, <2>6, <2>8, <2>9, <2>10, StepIs
<1>3. CASE UNCHANGED vars
  BY <1>3 DEF vars, Marking
<1>4. QED
  BY <1>1, <1>2, <1>3 DEF Next

LEMMA InsertsNeat ==
  ASSUME NEW I, Inst(I), Neat(I), NEW J, NEW T, NEW anchor, NEW next, NEW new,
         Inserts(I, J, T, anchor, next, new)
  PROVE  Neat(J)
<1> DEFINE S == Effective(I)
<1>1. /\ Effective(J) = T /\ Drawn(T) /\ Drawn(S) /\ new \notin NodesOf(S)
      /\ <<anchor, next>> \in S.edges /\ I.es[<<anchor, next>>] = "NOT_SIGNALED"
      /\ J.ns = [n \in DOMAIN I.ns \cup {new} |-> IF n = new THEN "NOT_ACTIVATED" ELSE I.ns[n]]
      /\ J.es = [e \in (DOMAIN I.es \ {<<anchor, next>>}) \cup {<<anchor, new>>, <<new, next>>} |->
                   IF new \in {e[1], e[2]} THEN "NOT_SIGNALED" ELSE I.es[e]]
      /\ NodesOf(T) = NodesOf(S) \cup {new} /\ T.kind[new] = "ACTIVITY"
      /\ \A n \in NodesOf(S) : T.kind[n] = S.kind[n]
      /\ T.edges = (S.edges \ {<<anchor, next>>}) \cup {<<anchor, new>>, <<new, next>>}
  BY DEF Inserts, Varies, Rewrites, MayInsert, InsertedAs, Inst
<1>2. /\ DOMAIN I.ns = NodesOf(S) /\ DOMAIN I.es = S.edges
      /\ \A e \in S.edges : (I.es[e] # "NOT_SIGNALED") <=> (I.ns[e[1]] \in Terminal)
      /\ \A e \in S.edges : S.kind[e[2]] \notin Joins /\ I.ns[e[2]] = "NOT_ACTIVATED" => I.es[e] = "NOT_SIGNALED"
  BY DEF Neat, Fit, Settled
<1>3. /\ DOMAIN J.ns = NodesOf(T) /\ DOMAIN J.es = T.edges
      /\ J.ns[new] = "NOT_ACTIVATED" /\ \A n \in NodesOf(S) : J.ns[n] = I.ns[n]
  BY <1>1, <1>2
<1>4. \A e \in S.edges : e[1] \in NodesOf(S) /\ e[2] \in NodesOf(S) /\ e[1] # new /\ e[2] # new
  BY <1>1, EdgeEnds
<1>5. I.ns[anchor] \notin Terminal /\ anchor \in NodesOf(S) /\ next \in NodesOf(S)
  <2>1. PICK e \in S.edges : e = <<anchor, next>>
    BY <1>1
  <2>2. e[1] = anchor /\ e[2] = next
    BY <2>1
  <2>3. QED
    BY <1>1, <1>2, <1>4, <2>1, <2>2
<1>6. ASSUME NEW e \in T.edges
      PROVE  /\ (J.es[e] # "NOT_SIGNALED") <=> (J.ns[e[1]] \in Terminal)
             /\ T.kind[e[2]] \notin Joins /\ J.ns[e[2]] = "NOT_ACTIVATED" => J.es[e] = "NOT_SIGNALED"
  <2>1. CASE e \in S.edges
    <3>1. e \in DOMAIN I.es /\ e # <<anchor, next>> /\ new \notin {e[1], e[2]}
      <4>1. <<anchor, new>> \notin S.edges /\ <<new, next>> \notin S.edges
        BY <1>4
      <4>2. QED
        BY <1>1, <1>2, <1>4, <1>5, <2>1, <4>1
    <3>2. J.es[e] = I.es[e]
      BY <1>1, <3>1
    <3>3. J.ns[e[1]] = I.ns[e[1]] /\ J.ns[e[2]] = I.ns[e[2]] /\ T.kind[e[2]] = S.kind[e[2]]
      BY <1>1, <1>3, <1>4, <2>1
    <3>4. QED
      BY <1>2, <2>1, <3>2, <3>3
  <2>2. CASE e = <<anchor, new>>
    <3>1. e[1] = anchor /\ e[2] = new
      BY <2>2
    <3>2. J.es[e] = "NOT_SIGNALED" /\ J.ns[e[1]] \notin Terminal
      BY <1>1, <1>3, <1>5, <2>2, <3>1
    <3>3. QED
      BY <3>2
  <2>3. CASE e = <<new, next>>
    <3>1. e[1] = new /\ e[2] = next
      BY <2>3
    <3>2. J.es[e] = "NOT_SIGNALED" /\ J.ns[e[1]] \notin Terminal
      BY <1>1, <1>3, <2>3, <3>1 DEF Terminal
    <3>3. QED
      BY <3>2
  <2>4. QED
    BY <1>1, <2>1, <2>2, <2>3
<1>7. QED
  BY <1>1, <1>3, <1>6 DEF Neat, Fit, Settled

LEMMA DeletesNeat ==
  ASSUME NEW I, Inst(I), Neat(I), NEW J, NEW T, NEW n, NEW prev, NEW next,
         Deletes(I, J, T, n, prev, next)
  PROVE  Neat(J)
<1> DEFINE S == Effective(I)
<1>1. /\ Effective(J) = T /\ Drawn(T) /\ Drawn(S) /\ n \in NodesOf(S) /\ n \notin {prev, next}
      /\ Preds(S, n) = {prev} /\ Succs(S, n) = {next}
      /\ <<prev, n>> \in S.edges /\ <<n, next>> \in S.edges
      /\ S.kind[n] = "ACTIVITY" /\ I.ns[n] = "NOT_ACTIVATED"
      /\ J.ns = [a \in DOMAIN I.ns \ {n} |-> I.ns[a]]
      /\ J.es = [e \in (DOMAIN I.es \ {<<prev, n>>, <<n, next>>}) \cup {<<prev, next>>} |->
                   IF e = <<prev, next>> THEN "NOT_SIGNALED" ELSE I.es[e]]
      /\ NodesOf(T) = NodesOf(S) \ {n}
      /\ \A a \in NodesOf(T) : T.kind[a] = S.kind[a]
      /\ T.edges = {e \in S.edges : n \notin {e[1], e[2]}} \cup {<<prev, next>>}
  BY DEF Deletes, Varies, Rewrites, MayDelete, DeletedAs, Inst
<1>2. /\ DOMAIN I.ns = NodesOf(S) /\ DOMAIN I.es = S.edges
      /\ \A e \in S.edges : (I.es[e] # "NOT_SIGNALED") <=> (I.ns[e[1]] \in Terminal)
      /\ \A e \in S.edges : S.kind[e[2]] \notin Joins /\ I.ns[e[2]] = "NOT_ACTIVATED" => I.es[e] = "NOT_SIGNALED"
  BY DEF Neat, Fit, Settled
<1>3. \A e \in S.edges : e[1] \in NodesOf(S) /\ e[2] \in NodesOf(S) /\ e = <<e[1], e[2]>>
  BY <1>1, EdgeEnds
<1>4. \A e \in S.edges : n \in {e[1], e[2]} <=> e \in {<<prev, n>>, <<n, next>>}
  <2>1. ASSUME NEW e \in S.edges, e[1] = n PROVE e = <<n, next>>
    <3>1. e[2] \in Succs(S, n)
      BY <1>3, <2>1 DEF Succs, OutOf, NodesOf
    <3>2. e[2] = next
      BY <1>1, <3>1
    <3>3. QED
      BY <1>3, <2>1, <3>2
  <2>2. ASSUME NEW e \in S.edges, e[2] = n PROVE e = <<prev, n>>
    <3>1. e[1] \in Preds(S, n)
      BY <1>3, <2>2 DEF Preds, Into, NodesOf
    <3>2. e[1] = prev
      BY <1>1, <3>1
    <3>3. QED
      BY <1>3, <2>2, <3>2
  <2>3. ASSUME NEW e, e \in {<<prev, n>>, <<n, next>>} PROVE n \in {e[1], e[2]}
    BY <2>3
  <2>4. QED
    BY <2>1, <2>2, <2>3
<1>5. DOMAIN J.ns = NodesOf(T) /\ \A a \in NodesOf(T) : J.ns[a] = I.ns[a]
  BY <1>1, <1>2
<1>6. DOMAIN J.es = T.edges
  BY <1>1, <1>2, <1>4
<1>7. I.ns[prev] \notin Terminal /\ prev \in NodesOf(T) /\ next \in NodesOf(T)
  <2>1. PICK e \in S.edges : e = <<prev, n>>
    BY <1>1
  <2>2. e[1] = prev /\ e[2] = n
    BY <2>1
  <2>3. I.es[e] = "NOT_SIGNALED"
    BY <1>1, <1>2, <2>1, <2>2 DEF Joins
  <2>4. PICK f \in S.edges : f = <<n, next>>
    BY <1>1
  <2>5. f[2] = next
    BY <2>4
  <2>6. QED
    BY <1>1, <1>2, <1>3, <2>1, <2>2, <2>3, <2>4, <2>5
<1>8. ASSUME NEW e \in T.edges
      PROVE  /\ (J.es[e] # "NOT_SIGNALED") <=> (J.ns[e[1]] \in Terminal)
             /\ T.kind[e[2]] \notin Joins /\ J.ns[e[2]] = "NOT_ACTIVATED" => J.es[e] = "NOT_SIGNALED"
  <2>1. CASE e = <<prev, next>>
    <3>1. e[1] = prev /\ e[2] = next
      BY <2>1
    <3>2. J.es[e] = "NOT_SIGNALED"
      BY <1>1, <2>1
    <3>3. J.ns[e[1]] \notin Terminal
      BY <1>5, <1>7, <3>1
    <3>4. QED
      BY <3>2, <3>3
  <2>2. CASE e # <<prev, next>>
    <3>1. e \in S.edges /\ n \notin {e[1], e[2]}
      BY <1>1, <2>2
    <3>2. e[1] \in NodesOf(T) /\ e[2] \in NodesOf(T)
      BY <1>1, <1>3, <3>1
    <3>3. e \in (DOMAIN I.es \ {<<prev, n>>, <<n, next>>}) \cup {<<prev, next>>}
      BY <1>2, <1>4, <3>1
    <3>4. J.es[e] = I.es[e]
      BY <1>1, <2>2, <3>3
    <3>5. J.ns[e[1]] = I.ns[e[1]] /\ J.ns[e[2]] = I.ns[e[2]] /\ T.kind[e[2]] = S.kind[e[2]]
      BY <1>1, <1>5, <3>2
    <3>6. QED
      BY <1>2, <3>1, <3>4, <3>5
  <2>3. QED
    BY <2>1, <2>2
<1>9. QED
  BY <1>1, <1>5, <1>6, <1>8 DEF Neat, Fit, Settled

(* What a migration does not look at: a new edge out of a skipped node, and*)
(* a join, not activated yet, whose place another node type takes.         *)
Behind(I, J) ==
  \E e \in Effective(J).edges \ Effective(I).edges :
    e[1] \in DOMAIN I.ns /\ I.ns[e[1]] = "SKIPPED"
Rejoined(I, J) ==
  \E n \in NodesOf(Effective(I)) \cap NodesOf(Effective(J)) :
    /\ I.ns[n] = "NOT_ACTIVATED"
    /\ Effective(I).kind[n] \in Joins /\ Effective(J).kind[n] \notin Joins

LEMMA MigratesNeat ==
  ASSUME NEW I, Inst(I), Neat(I), NEW J, NEW T, Migrates(I, J, T), ~Behind(I, J), ~Rejoined(I, J)
  PROVE  Neat(J)
<1> DEFINE S == Effective(I)
<1>1. /\ Effective(J) = T /\ Drawn(T) /\ Drawn(S)
      /\ J.ns = [n \in NodesOf(T) |-> IF n \in DOMAIN I.ns THEN I.ns[n] ELSE "NOT_ACTIVATED"]
      /\ J.es = [e \in T.edges |-> IF e \in DOMAIN I.es THEN I.es[e] ELSE "NOT_SIGNALED"]
      /\ M3(S, T, I)
  BY DEF Migrates, Rewrites, Inst
<1>2. /\ DOMAIN I.ns = NodesOf(S) /\ DOMAIN I.es = S.edges
      /\ \A e \in S.edges : (I.es[e] # "NOT_SIGNALED") <=> (I.ns[e[1]] \in Terminal)
      /\ \A e \in S.edges : S.kind[e[2]] \notin Joins /\ I.ns[e[2]] = "NOT_ACTIVATED" => I.es[e] = "NOT_SIGNALED"
  BY DEF Neat, Fit, Settled
<1>3. ASSUME NEW e \in T.edges
      PROVE  /\ (J.es[e] # "NOT_SIGNALED") <=> (J.ns[e[1]] \in Terminal)
             /\ T.kind[e[2]] \notin Joins /\ J.ns[e[2]] = "NOT_ACTIVATED" => J.es[e] = "NOT_SIGNALED"
  <2>1. e[1] \in NodesOf(T) /\ e[2] \in NodesOf(T) /\ e = <<e[1], e[2]>>
    BY <1>1, EdgeEnds
  <2>2. CASE e \in S.edges
    <3>1. e[1] \in NodesOf(S) /\ e[2] \in NodesOf(S)
      BY <1>1, <2>2, EdgeEnds
    <3>2. J.es[e] = I.es[e] /\ J.ns[e[1]] = I.ns[e[1]] /\ J.ns[e[2]] = I.ns[e[2]]
      BY <1>1, <1>2, <2>1, <2>2, <3>1
    <3>3. T.kind[e[2]] \notin Joins /\ I.ns[e[2]] = "NOT_ACTIVATED" => S.kind[e[2]] \notin Joins
      BY <1>1, <2>1, <3>1 DEF Rejoined
    <3>4. QED
      BY <1>2, <2>2, <3>2, <3>3
  <2>3. CASE e \notin S.edges
    <3>1. J.es[e] = "NOT_SIGNALED"
      BY <1>1, <1>2, <2>3
    <3>2. SUFFICES ASSUME J.ns[e[1]] \in Terminal PROVE FALSE
      BY <3>1
    <3>3. e[1] \in NodesOf(S) /\ J.ns[e[1]] = I.ns[e[1]]
      BY <1>1, <1>2, <2>1, <3>2 DEF Terminal
    <3>4. CASE I.ns[e[1]] = "COMPLETED"
      <4>1. Succs(S, e[1]) = Succs(T, e[1])
        BY <1>1, <1>2, <2>1, <3>3, <3>4 DEF M3
      <4>2. e[2] \in Succs(T, e[1])
        BY <2>1 DEF Succs, OutOf, NodesOf
      <4>3. PICK f \in S.edges : f[1] = e[1] /\ f[2] = e[2]
        BY <4>1, <4>2 DEF Succs, OutOf
      <4>4. f = e
        BY <1>1, <2>1, <4>3, EdgeEnds
      <4>5. QED
        BY <2>3, <4>3, <4>4
    <3>5. CASE I.ns[e[1]] = "SKIPPED"
      BY <1>1, <1>2, <2>3, <3>3, <3>5 DEF Behind
    <3>6. QED
      BY <3>2, <3>3, <3>4, <3>5 DEF Terminal
  <2>4. QED
    BY <2>2, <2>3
<1>4. DOMAIN J.ns = NodesOf(T) /\ DOMAIN J.es = T.edges
  BY <1>1
<1>5. QED
  BY <1>1, <1>3, <1>4 DEF Neat, Fit, Settled

LEMMA AdaptsNeat ==
  ASSUME NEW I, Inst(I), Neat(I), NEW J, Adapts(I, J)
  PROVE  Neat(J)
<1>1. CASE Renames(I, J)
  BY <1>1 DEF Renames, Varies, Rewrites, Neat, Fit, Settled
<1>2. QED
  BY <1>1, InsertsNeat, DeletesNeat DEF Adapts

(* Migrations that do not put new work behind a skipped node, and that     *)
(* leave a join that waits a join.                                         *)
MigrationsApart ==
  [][Migration => \A id \in DOMAIN store :
       ~Behind(store[id], store'[id]) /\ ~Rejoined(store[id], store'[id])]_evars

LEMMA MarkingChange ==
  ASSUME Shape, Marking, AdhocChange \/ Migration,
         Migration => \A id \in DOMAIN store :
           ~Behind(store[id], store'[id]) /\ ~Rejoined(store[id], store'[id])
  PROVE  Marking'
<1>1. Stored(store) /\ AllNeat(store)
  BY DEF Shape, Marking
<1>2. ASSUME NEW id \in DOMAIN store, NEW J, Inst(J), J.id = id, Neat(J), Answer(PutIn(store, J), "ok")
      PROVE  Marking'
  BY <1>1, <1>2, NeatPut, MarkingAnswer
<1>3. CASE AdhocChange
  <2>1. PICK id, J : id \in DOMAIN store /\ Adapts(store[id], J) /\ Answer(PutIn(store, J), "ok")
    BY <1>3, AdhocIs
  <2>2. Inst(store[id]) /\ store[id].id = id /\ Neat(store[id])
    BY <1>1, <2>1 DEF Stored, AllNeat
  <2>3. Inst(J) /\ J.id = id
    BY <2>1, <2>2, ChangedInst DEF Changes
  <2>4. Neat(J)
    BY <2>1, <2>2, AdaptsNeat
  <2>5. QED
    BY <1>2, <2>1, <2>3, <2>4
<1>4. CASE Migration
  <2>1. PICK id, J :
          /\ id \in DOMAIN store
          /\ (\E T : Migrates(store[id], J, T)) /\ Answer(PutIn(store, J), "ok")
    BY <1>4, MigrationIs
  <2>2. Inst(store[id]) /\ store[id].id = id /\ Neat(store[id])
    BY <1>1, <2>1 DEF Stored, AllNeat
  <2>3. Inst(J) /\ J.id = id
    BY <2>1, <2>2, ChangedInst DEF Changes
  <2>4. store'[id] = J
    <3>1. store' = PutIn(store, J)
      BY <2>1 DEF Answer
    <3>2. PutIn(store, J)[J.id] = J
      BY <1>1, <2>1, <2>3, StoredSet
    <3>3. QED
      BY <2>3, <3>1, <3>2
  <2>5. ~Behind(store[id], J) /\ ~Rejoined(store[id], J)
    BY <1>4, <2>1, <2>4
  <2>6. Neat(J)
    BY <2>1, <2>2, <2>5, MigratesNeat
  <2>7. QED
    BY <1>2, <2>1, <2>3, <2>6
<1>5. QED
  BY <1>3, <1>4

LEMMA MarkingInit == EInit => Marking
BY SeqEmpty DEF EInit, Init, Marking, AllNeat

LEMMA MarkingFits == Shape /\ Marking => MarkingsFit
BY DEF Marking, AllNeat, Neat, Fit, MarkingsFit

(* After any change the markings are ones the engine could have produced   *)
(* (migrate_instance, adhoc_insert_activity, adhoc_delete_node), as long   *)
(* as migrations put no new work behind a skipped node and parents of      *)
(* running children are not changed ad hoc.                                *)
THEOREM MarkingsAlwaysFit ==
  ESpec /\ []ParentsPlain /\ MigrationsApart => []MarkingsFit
<1>1. EInit => Shape /\ Marking
  BY ShapeInit, MarkingInit
<1>2. /\ Shape /\ Marking /\ ParentsPlain /\ [EngineStep \/ AdhocChange \/ Migration]_evars
      /\ [Migration => \A id \in DOMAIN store :
            ~Behind(store[id], store'[id]) /\ ~Rejoined(store[id], store'[id])]_evars
      => (Shape /\ Marking)'
  <2>1. SUFFICES ASSUME Shape, Marking, ParentsPlain, [EngineStep \/ AdhocChange \/ Migration]_evars,
                        [Migration => \A id \in DOMAIN store :
                           ~Behind(store[id], store'[id]) /\ ~Rejoined(store[id], store'[id])]_evars
                 PROVE  Shape' /\ Marking'
    OBVIOUS
  <2>2. Shape'
    BY <2>1, ShapeStep
  <2>3. CASE EngineStep \/ UNCHANGED evars
    <3>1. [Next]_vars
      BY <2>3 DEF EngineStep, evars, vars
    <3>2. QED
      BY <2>1, <2>2, <3>1, MarkingEngine
  <2>4. CASE (AdhocChange \/ Migration) /\ ~UNCHANGED evars
    BY <2>1, <2>2, <2>4, MarkingChange
  <2>5. QED
    BY <2>1, <2>3, <2>4
<1>3. QED
  BY <1>1, <1>2, MarkingFits, PTL DEF ESpec, MigrationsApart

-----------------------------------------------------------------------------
(* Children are recorded.  What a parent has recorded stays; a child its   *)
(* parent's stored copy does not know of is known to the copy a function   *)
(* works on, or is the very instance that function waits for.              *)
Older(I, J) ==
  /\ I.state = "COMPLETED" => J.state = "COMPLETED"
  /\ DOMAIN I.children \subseteq DOMAIN J.children
  /\ \A n \in DOMAIN I.children : I.children[n] # 0 => J.children[n] = I.children[n]
Awaits(F, above, p, n, c) == F.i.id = p /\ F.pc = "visit" /\ At(F) = n /\ above.i.id = c
KnowsOf(F, p, n, c) == F.i.id = p /\ F.i.children[n] = c
Known(st, cl, cs, p, n, c) ==
  \/ st[p].children[n] = c
  \/ KnowsOf(cl, p, n, c)
  \/ \E k \in DOMAIN cs : KnowsOf(cs[k], p, n, c) \/ Awaits(cs[k], Above(cs, cl, k), p, n, c)
Placed(st) ==
  \A c \in DOMAIN st : st[c].pnode # NoNode => st[c].pnode \in DOMAIN st[st[c].parent].children
Olders(st, cl, cs) ==
  /\ Older(st[cl.i.id], cl.i)
  /\ \A k \in DOMAIN cs : Older(st[cs[k].i.id], cs[k].i)
Recorded(st, cl, cs, lost) ==
  /\ Olders(st, cl, cs)
  /\ \A c \in DOMAIN st : st[c].pnode # NoNode =>
       c \in lost \/ Known(st, cl, cs, st[c].parent, st[c].pnode, c)
Recording ==
  /\ Placed(store)
  /\ call # Idle => Recorded(store, call, callers, Unrecorded(past))

SpawnedBy(st, F, I) ==
  I.pnode # NoNode => /\ I.parent = F.i.id /\ F.pc = "visit" /\ I.pnode = At(F)
                      /\ I.pnode \in DOMAIN st[F.i.id].children

LEMMA OlderSelf == \A I : Older(I, I)
BY DEF Older

LEMMA OlderFamily ==
  ASSUME NEW I, NEW J, Family(I, J), I.state = "COMPLETED" => J.state = "COMPLETED"
  PROVE  Older(I, J)
BY DEF Older, Family

LEMMA OlderTransitive ==
  ASSUME NEW I, NEW J, NEW K, Older(I, J), Older(J, K)
  PROVE  Older(I, K)
BY DEF Older

LEMMA ParentStored ==
  ASSUME NEW st, Stored(st), NEW c \in DOMAIN st, st[c].pnode # NoNode
  PROVE  st[c].parent \in DOMAIN st /\ st[c].parent # c
<1>1. DOMAIN st = 1 .. Len(st) /\ Len(st) \in Nat /\ Inst(st[c]) /\ st[c].id = c
  BY SeqDomain DEF Stored
<1>2. QED
  BY <1>1 DEF Inst

LEMMA KnownOnward ==
  ASSUME NEW st, NEW c, NEW d, NEW cs, d.i.id = c.i.id, NEW p, NEW n, NEW x,
         KnowsOf(c, p, n, x) => KnowsOf(d, p, n, x), Known(st, c, cs, p, n, x)
  PROVE  Known(st, d, cs, p, n, x)
<1>1. ASSUME NEW k \in DOMAIN cs, Awaits(cs[k], Above(cs, c, k), p, n, x)
      PROVE  Awaits(cs[k], Above(cs, d, k), p, n, x)
  BY <1>1 DEF Awaits, Above
<1>2. QED
  BY <1>1 DEF Known

LEMMA RecordedOnward ==
  ASSUME NEW st, Stored(st), Placed(st), NEW c, NEW d, NEW cs, NEW lost,
         Recorded(st, c, cs, lost), c.i.id \in DOMAIN st, d.i.id = c.i.id, Older(c.i, d.i)
  PROVE  Recorded(st, d, cs, lost)
<1>1. Olders(st, d, cs)
  BY OlderTransitive DEF Recorded, Olders
<1>2. ASSUME NEW x \in DOMAIN st, st[x].pnode # NoNode, x \notin lost
      PROVE  Known(st, d, cs, st[x].parent, st[x].pnode, x)
  <2>1. PICK p, n : p = st[x].parent /\ n = st[x].pnode
    OBVIOUS
  <2>2. Known(st, c, cs, p, n, x) /\ n \in DOMAIN st[p].children
    BY <1>2, <2>1 DEF Recorded, Placed
  <2>3. x # 0
    BY SeqDomain DEF Stored
  <2>4. KnowsOf(c, p, n, x) => KnowsOf(d, p, n, x)
    <3>1. SUFFICES ASSUME c.i.id = p, c.i.children[n] = x PROVE d.i.children[n] = x
      BY DEF KnowsOf
    <3>2. Older(st[p], c.i)
      BY <3>1 DEF Recorded, Olders
    <3>3. n \in DOMAIN c.i.children
      BY <2>2, <3>2 DEF Older
    <3>4. QED
      BY <2>3, <3>1, <3>3 DEF Older
  <2>5. QED
    BY <2>1, <2>2, <2>4, KnownOnward
<1>3. QED
  BY <1>1, <1>2 DEF Recorded

LEMMA RecordedPut ==
  ASSUME NEW st, Stored(st), Placed(st), NEW c, NEW cs, NEW size, NEW lost, Working(st, c, cs, size),
         Recorded(st, c, cs, lost), NEW st2, st2 = PutIn(st, c.i)
  PROVE  Placed(st2) /\ Recorded(st2, c, cs, lost) /\ st2[c.i.id] = c.i /\ Stored(st2) /\ Working(st2, c, cs, size)
<1>1. Inst(c.i) /\ c.i.id \in DOMAIN st /\ Kin(st[c.i.id], c.i)
  BY DEF Working, Frame
<1>2. /\ Stored(st2) /\ Grows(st, st2) /\ DOMAIN st2 = DOMAIN st /\ st2[c.i.id] = c.i
      /\ \A id \in DOMAIN st : id # c.i.id => st2[id] = st[id]
  BY <1>1, StoredPut
<1>3. Older(st[c.i.id], c.i)
  BY DEF Recorded, Olders
<1>4. \A id \in DOMAIN st : Older(st[id], st2[id]) /\ st2[id].parent = st[id].parent /\ st2[id].pnode = st[id].pnode
  BY <1>1, <1>2, <1>3, OlderSelf DEF Kin
<1>5. Placed(st2)
  <2>1. ASSUME NEW x \in DOMAIN st, st[x].pnode # NoNode
        PROVE  st[x].pnode \in DOMAIN st2[st[x].parent].children
    <3>1. st[x].parent \in DOMAIN st
      BY <2>1, ParentStored
    <3>2. Older(st[st[x].parent], st2[st[x].parent])
      BY <1>4, <3>1
    <3>3. st[x].pnode \in DOMAIN st[st[x].parent].children
      BY <2>1 DEF Placed
    <3>4. QED
      BY <3>2, <3>3 DEF Older
  <2>2. QED
    BY <1>2, <1>4, <2>1 DEF Placed
<1>6. Olders(st2, c, cs)
  <2>1. \A k \in DOMAIN cs : cs[k].i.id \in DOMAIN st /\ cs[k].i.id # c.i.id
    <3>1. DOMAIN st = 1 .. Len(st)
      BY SeqDomain DEF Stored
    <3>2. QED
      BY <1>1, <3>1 DEF Working, Frame
  <2>2. QED
    BY <1>2, <2>1, OlderSelf DEF Recorded, Olders
<1>7. ASSUME NEW x \in DOMAIN st, st[x].pnode # NoNode, x \notin lost
      PROVE  Known(st2, c, cs, st[x].parent, st[x].pnode, x)
  <2>1. PICK p, n : p = st[x].parent /\ n = st[x].pnode
    OBVIOUS
  <2>2. Known(st, c, cs, p, n, x) /\ p \in DOMAIN st /\ n \in DOMAIN st[p].children
    BY <1>7, <2>1, ParentStored DEF Recorded, Placed
  <2>3. x # 0
    BY SeqDomain DEF Stored
  <2>4. st[p].children[n] = x => st2[p].children[n] = x
    BY <1>4, <2>2, <2>3 DEF Older
  <2>5. QED
    BY <2>1, <2>2, <2>4 DEF Known
<1>8. Working(st2, c, cs, size)
  BY <1>2, WorkingGrows
<1>9. QED
  BY <1>2, <1>4, <1>5, <1>6, <1>7, <1>8 DEF Recorded

LEMMA RecordedPush ==
  ASSUME NEW st, Stored(st), Placed(st), NEW c, NEW cs, IsSeq(cs), NEW size, NEW lost,
         Working(st, c, cs, size), Recorded(st, c, cs, lost),
         NEW F, F.i = c.i, NEW I, Inst(I), I.id = Len(st) + 1, SpawnedBy(st, F, I),
         NEW st2, st2 = Append(st, I), NEW d, d = Begin("create", I), NEW as, as = Append(cs, F)
  PROVE  Placed(st2) /\ Recorded(st2, d, as, lost)
<1>1. /\ DOMAIN st2 = DOMAIN st \cup {I.id} /\ I.id \notin DOMAIN st
      /\ st2[I.id] = I /\ \A id \in DOMAIN st : st2[id] = st[id]
  BY StoredAppend
<1>2. /\ DOMAIN as = DOMAIN cs \cup {Len(cs) + 1}
      /\ \A k \in DOMAIN cs : as[k] = cs[k] /\ Above(as, d, k) = Above(cs, F, k)
      /\ as[Len(cs) + 1] = F /\ Above(as, d, Len(cs) + 1) = d
  <2>1. PushedOn(cs, F, as, d)
    BY AboveAppend
  <2>2. QED
    BY <2>1 DEF PushedOn
<1>3. d.i = I
  BY DEF Begin
<1>4. c.i.id \in DOMAIN st /\ \A k \in DOMAIN cs : cs[k].i.id \in DOMAIN st
  BY DEF Working, Frame
<1>5. \A x \in DOMAIN st : st[x].pnode # NoNode => st[x].parent \in DOMAIN st
  BY ParentStored
<1>6. Placed(st2)
  <2>1. I.pnode # NoNode => I.pnode \in DOMAIN st2[I.parent].children
    BY <1>1, <1>4 DEF SpawnedBy
  <2>2. \A x \in DOMAIN st : st[x].pnode # NoNode =>
          st2[x].pnode \in DOMAIN st2[st2[x].parent].children
    BY <1>1, <1>5 DEF Placed
  <2>3. ASSUME NEW x \in DOMAIN st2, st2[x].pnode # NoNode
        PROVE  st2[x].pnode \in DOMAIN st2[st2[x].parent].children
    <3>1. CASE x = I.id
      BY <1>1, <2>1, <2>3, <3>1
    <3>2. CASE x \in DOMAIN st
      <4>1. st[x].pnode # NoNode
        BY <1>1, <2>3, <3>2
      <4>2. QED
        BY <2>2, <3>2, <4>1
    <3>3. QED
      BY <1>1, <3>1, <3>2
  <2>4. QED
    BY <2>3, Zenon DEF Placed
<1>7. Olders(st2, d, as)
  BY <1>1, <1>2, <1>3, <1>4, OlderSelf DEF Recorded, Olders
<1>8. ASSUME NEW x \in DOMAIN st, st[x].pnode # NoNode, x \notin lost
      PROVE  Known(st2, d, as, st[x].parent, st[x].pnode, x)
  <2>1. PICK p, n : p = st[x].parent /\ n = st[x].pnode
    OBVIOUS
  <2>2. Known(st, c, cs, p, n, x) /\ p \in DOMAIN st
    BY <1>5, <1>8, <2>1 DEF Recorded
  <2>3. CASE st[p].children[n] = x
    BY <1>1, <2>1, <2>2, <2>3 DEF Known
  <2>4. CASE KnowsOf(c, p, n, x)
    <3>1. KnowsOf(as[Len(cs) + 1], p, n, x)
      BY <1>2, <2>4 DEF KnowsOf
    <3>2. QED
      BY <1>2, <2>1, <3>1 DEF Known
  <2>5. ASSUME NEW k \in DOMAIN cs, KnowsOf(cs[k], p, n, x) \/ Awaits(cs[k], Above(cs, c, k), p, n, x)
        PROVE  KnowsOf(as[k], p, n, x) \/ Awaits(as[k], Above(as, d, k), p, n, x)
    BY <1>2, <2>5 DEF Awaits, Above
  <2>6. QED
    BY <1>2, <2>1, <2>2, <2>3, <2>4, <2>5 DEF Known
<1>9. I.pnode # NoNode => Known(st2, d, as, I.parent, I.pnode, I.id)
  <2>1. SUFFICES ASSUME I.pnode # NoNode PROVE Known(st2, d, as, I.parent, I.pnode, I.id)
    OBVIOUS
  <2>2. Awaits(as[Len(cs) + 1], Above(as, d, Len(cs) + 1), I.parent, I.pnode, I.id)
    BY <1>2, <1>3, <2>1 DEF Awaits, SpawnedBy
  <2>3. QED
    BY <1>2, <2>2 DEF Known
<1>10. QED
  BY <1>1, <1>6, <1>7, <1>8, <1>9 DEF Recorded

LEMMA RecordedPop ==
  ASSUME NEW st, Stored(st), Placed(st), NEW c, NEW cs, IsSeq(cs), cs # <<>>, NEW size, NEW lost,
         Working(st, c, cs, size), Recorded(st, c, cs, lost), st[c.i.id] = c.i,
         NEW F, F = cs[Len(cs)], NEW d, d.i.id = F.i.id, Older(F.i, d.i),
         F.pc = "visit" => d.i.children[At(F)] = c.i.id,
         NEW fs, fs = SubSeq(cs, 1, Len(cs) - 1)
  PROVE  Recorded(st, d, fs, lost)
<1>1. PoppedTo(cs, F, fs)
  BY AboveFront
<1>2. /\ Len(cs) \in Nat /\ Len(cs) \in DOMAIN cs /\ F = cs[Len(cs)]
      /\ DOMAIN fs = DOMAIN cs \ {Len(cs)} /\ Len(fs) = Len(cs) - 1
      /\ \A k \in DOMAIN fs : fs[k] = cs[k] /\ k \in Nat /\ k > 0 /\ k < Len(cs)
  BY <1>1 DEF PoppedTo
<1>3. Olders(st, d, fs)
  BY <1>2, OlderTransitive DEF Recorded, Olders
<1>4. \A k \in DOMAIN fs : Above(cs, c, k).i.id = Above(fs, d, k).i.id
  <2>1. SUFFICES ASSUME NEW k \in DOMAIN fs PROVE Above(cs, c, k).i.id = Above(fs, d, k).i.id
    OBVIOUS
  <2>2. Above(cs, c, k) = cs[k + 1]
    BY <1>2 DEF Above
  <2>3. CASE k = Len(fs)
    <3>1. k + 1 = Len(cs)
      BY <1>2, <2>3
    <3>2. Above(cs, c, k) = F
      BY <1>2, <2>2, <3>1
    <3>3. Above(fs, d, k) = d
      BY <2>3 DEF Above
    <3>4. QED
      BY <3>2, <3>3
  <2>4. CASE k # Len(fs)
    <3>1. DOMAIN cs = 1 .. Len(cs)
      BY SeqDomain
    <3>2. k + 1 \in DOMAIN fs
      BY <1>2, <2>4, <3>1
    <3>3. QED
      BY <1>2, <2>2, <2>4, <3>2 DEF Above
  <2>5. QED
    BY <2>3, <2>4
<1>5. ASSUME NEW x \in DOMAIN st, st[x].pnode # NoNode, x \notin lost
      PROVE  Known(st, d, fs, st[x].parent, st[x].pnode, x)
  <2>1. PICK p, n : p = st[x].parent /\ n = st[x].pnode
    OBVIOUS
  <2>2. Known(st, c, cs, p, n, x) /\ n \in DOMAIN st[p].children
    BY <1>5, <2>1 DEF Recorded, Placed
  <2>3. x # 0
    BY SeqDomain DEF Stored
  <2>4. CASE KnowsOf(c, p, n, x)
    BY <2>1, <2>4 DEF KnowsOf, Known
  <2>5. CASE KnowsOf(F, p, n, x)
    <3>1. Older(st[p], F.i)
      BY <1>2, <2>5 DEF KnowsOf, Recorded, Olders
    <3>2. n \in DOMAIN F.i.children
      BY <2>2, <3>1 DEF Older
    <3>3. KnowsOf(d, p, n, x)
      BY <2>3, <2>5, <3>2 DEF KnowsOf, Older
    <3>4. QED
      BY <2>1, <3>3 DEF Known
  <2>6. CASE Awaits(F, Above(cs, c, Len(cs)), p, n, x)
    <3>1. KnowsOf(d, p, n, x)
      BY <2>6 DEF Awaits, Above, KnowsOf
    <3>2. QED
      BY <2>1, <3>1 DEF Known
  <2>7. ASSUME NEW k \in DOMAIN fs, KnowsOf(cs[k], p, n, x) \/ Awaits(cs[k], Above(cs, c, k), p, n, x)
        PROVE  KnowsOf(fs[k], p, n, x) \/ Awaits(fs[k], Above(fs, d, k), p, n, x)
    BY <1>2, <1>4, <2>7 DEF Awaits
  <2>8. CASE st[p].children[n] = x
    BY <2>1, <2>8 DEF Known
  <2>9. QED
    BY <1>2, <2>1, <2>2, <2>4, <2>5, <2>6, <2>7, <2>8 DEF Known
<1>6. QED
  BY <1>3, <1>5 DEF Recorded

LEMMA RecordedAlone ==
  ASSUME NEW st, Stored(st), NEW c, NEW lost, Recorded(st, c, <<>>, lost), st[c.i.id] = c.i
  PROVE  \A x \in DOMAIN st : st[x].pnode # NoNode =>
           x \in lost \/ st[st[x].parent].children[st[x].pnode] = x
<1>1. \A x \in DOMAIN st : st[x].pnode # NoNode =>
         x \in lost \/ Known(st, c, <<>>, st[x].parent, st[x].pnode, x)
  BY DEF Recorded
<1>2. ASSUME NEW p, NEW n, NEW x, Known(st, c, <<>>, p, n, x) PROVE st[p].children[n] = x
  BY <1>2, SeqEmpty DEF Known, KnowsOf
<1>3. QED
  BY <1>1, <1>2

LEMMA RecordedAfresh ==
  ASSUME NEW st, Stored(st), NEW d, Older(st[d.i.id], d.i), NEW lost,
         \A x \in DOMAIN st : st[x].pnode # NoNode =>
           x \in lost \/ st[st[x].parent].children[st[x].pnode] = x
  PROVE  Recorded(st, d, <<>>, lost)
BY SeqEmpty DEF Recorded, Olders, Known


LEMMA PassesOlder ==
  ASSUME NEW c, NEW d, NEW st, Frame(c, st), Passes(c, d) \/ Works(c, d)
  PROVE  d.i.id = c.i.id /\ Older(c.i, d.i)
<1>1. CASE Passes(c, d)
  BY <1>1, PassesOnward, OlderSelf
<1>2. CASE Works(c, d)
  <2>1. DOMAIN c = {"task", "pc", "i", "k", "moved"}
    BY DEF Frame
  <2>2. PICK n, J, j : /\ j \in Nat \ {0}
                       /\ d = [c EXCEPT !.i = J, !.k = j, !.moved = TRUE]
                       /\ \/ c.pc = "visit" /\ Visits(SchemaOf(c), c.i, J, n)
                          \/ c.pc = "evaluate" /\ Evaluates(SchemaOf(c), c.i, J, n)
    BY <1>2, Zenon DEF Works
  <2>3. d.i = J
    BY <2>1, <2>2
  <2>4. J.id = c.i.id /\ Family(c.i, J) /\ (c.i.state = "COMPLETED" => J.state = "COMPLETED")
    BY <2>2 DEF Visits, Evaluates, Moved, Kin
  <2>5. QED
    BY <2>3, <2>4, OlderFamily
<1>3. QED
  BY <1>1, <1>2

LEMMA ResumedOlder ==
  ASSUME NEW F, NEW st, Frame(F, st), Waits(F), NEW C, NEW d, d = Resumed(F, C)
  PROVE  /\ d.i.id = F.i.id /\ Older(F.i, d.i)
         /\ F.pc = "visit" => d.i.children[At(F)] = C.id
<1>1. DOMAIN F.i = Fields
  BY DEF Frame, Inst
<1>2. CASE F.pc = "visit"
  <2>1. d.i = Adopt(SchemaOf(F), F.i, At(F), C)
    BY <1>2, ResumedOnward
  <2>2. Adopts(SchemaOf(F), F.i, d.i, At(F), C)
    BY <1>1, <2>1, AdoptIs
  <2>3. /\ d.i.children = [F.i.children EXCEPT ![At(F)] = C.id]
        /\ d.i.state = F.i.state /\ d.i.id = F.i.id
    BY <2>2 DEF Adopts, Moved, Kin
  <2>4. F.i.children[At(F)] = 0 /\ At(F) \in DOMAIN F.i.children
    <3>1. At(F) \in NodesOfKind(SchemaOf(F), "SUBPROCESS")
      BY <1>2 DEF Waits, Spawns, NodesOfKind, NodesOf
    <3>2. At(F) \in DOMAIN F.i.children
      BY <3>1 DEF Frame, Inst, SchemaOf, NodesOfKind, NodesOf
    <3>3. QED
      BY <1>2, <3>2 DEF Waits
  <2>5. QED
    BY <2>3, <2>4 DEF Older
<1>3. CASE F.pc # "visit"
  <2>1. d.i = [F.i EXCEPT !.followups = Append(@, C.id)]
    BY <1>3, ResumedOnward
  <2>2. d.i.id = F.i.id /\ d.i.children = F.i.children /\ d.i.state = F.i.state
    BY <1>1, <2>1 DEF Fields
  <2>3. QED
    BY <1>3, <2>2 DEF Older
<1>4. QED
  BY <1>2, <1>3

LEMMA RecordingCreate ==
  ASSUME Shape, Recording, call # Idle, NEW F, F.i = call.i, Waits(F), SchemaOf(F) = SchemaOf(call),
         NEW I, Inst(I), I.id = Len(store) + 1, MadeFor(F, I), Create(F, I)
  PROVE  Recording'
<1>1. /\ store' = Append(store, I) /\ call' = Begin("create", I) /\ callers' = Append(callers, F)
      /\ past' = past
  BY DEF Create
<1>2. SpawnedBy(store, F, I)
  <2>1. SUFFICES ASSUME I.pnode # NoNode
                 PROVE  /\ I.parent = F.i.id /\ F.pc = "visit" /\ I.pnode = At(F)
                        /\ I.pnode \in DOMAIN store[F.i.id].children
    BY DEF SpawnedBy
  <2>2. I.parent = F.i.id /\ F.pc = "visit" /\ I.pnode = At(F)
    BY <2>1 DEF MadeFor
  <2>3. At(F) \in NodesOfKind(SchemaOf(call), "SUBPROCESS")
    BY <2>2 DEF Waits, Spawns, NodesOfKind, NodesOf
  <2>4. PICK P : P = store[call.i.id]
    OBVIOUS
  <2>5. Inst(P) /\ Kin(P, call.i)
    BY <2>4, CallIs DEF Stored
  <2>6. Effective(P) = Effective(call.i) /\ P.schema = call.i.schema
    BY <2>5, EffectiveKin DEF Kin
  <2>7. At(F) \in DOMAIN P.children
    BY <2>3, <2>5, <2>6 DEF Inst, SchemaOf, NodesOfKind, NodesOf
  <2>8. QED
    BY <2>2, <2>4, <2>7
<1>3. Placed(store) /\ Recorded(store, call, callers, Unrecorded(past))
  BY DEF Recording
<1>4. PICK st, d, as, lost : /\ st = Append(store, I) /\ d = Begin("create", I)
                              /\ as = Append(callers, F) /\ lost = Unrecorded(past)
  OBVIOUS
<1>5. /\ Stored(store) /\ IsSeq(callers) /\ Working(store, call, callers, Len(past))
      /\ Recorded(store, call, callers, lost) /\ Placed(store)
  BY <1>3, <1>4, CallIs
<1>6. Placed(st) /\ Recorded(st, d, as, lost)
  <2>1. PICK size : size = Len(past)
    OBVIOUS
  <2>2. Working(store, call, callers, size)
    BY <1>5, <2>1
  <2>3. \A c, cs, n, l : /\ IsSeq(cs) /\ Working(store, c, cs, n) /\ Recorded(store, c, cs, l)
                           /\ F.i = c.i
            => Placed(Append(store, I)) /\ Recorded(Append(store, I), Begin("create", I), Append(cs, F), l)
    BY <1>2, <1>5, RecordedPush
  <2>4. QED
    BY <1>4, <1>5, <2>2, <2>3
<1>7. QED
  BY <1>1, <1>4, <1>6 DEF Recording

LEMMA RecordingReturn ==
  ASSUME Shape, Recording, call # Idle, Return(call.i)
  PROVE  Recording' /\ (Answered => Unrecorded(store') \subseteq Unrecorded(Found))
<1>1. PICK st : st = PutIn(store, call.i)
  OBVIOUS
<1>2. PICK lost : lost = Unrecorded(past)
  OBVIOUS
<1>3. /\ Placed(st) /\ Recorded(st, call, callers, lost) /\ st[call.i.id] = call.i
      /\ Stored(st) /\ Working(st, call, callers, Len(past))
  BY <1>1, <1>2, CallIs, RecordedPut DEF Recording
<1>4. CASE callers = <<>>
  <2>1. store' = st /\ call' = Idle
    BY <1>1, <1>4 DEF Return, Answer
  <2>2. \A x \in DOMAIN st : st[x].pnode # NoNode =>
          x \in lost \/ st[st[x].parent].children[st[x].pnode] = x
    BY <1>3, <1>4, RecordedAlone
  <2>3. Unrecorded(st) \subseteq lost
    BY <2>2 DEF Unrecorded
  <2>4. QED
    BY <1>2, <1>3, <2>1, <2>3 DEF Found, Recording
<1>5. CASE callers # <<>>
  <2>1. PICK F : F = callers[Len(callers)]
    OBVIOUS
  <2>2. PICK d : d = Resumed(F, call.i)
    OBVIOUS
  <2>3. PICK fs : fs = SubSeq(callers, 1, Len(callers) - 1)
    OBVIOUS
  <2>4. call' = d /\ callers' = fs /\ store' = st /\ past' = past
    BY <1>1, <1>5, <2>1, <2>2, <2>3 DEF Return
  <2>5. Len(callers) \in DOMAIN callers
    BY <1>5, <2>3, CallIs, AboveFront DEF PoppedTo
  <2>6. Frame(F, st) /\ Waits(F)
    BY <1>3, <2>1, <2>5 DEF Working
  <2>7. d.i.id = F.i.id /\ Older(F.i, d.i) /\ (F.pc = "visit" => d.i.children[At(F)] = call.i.id)
    BY <2>2, <2>6, ResumedOlder
  <2>8. Recorded(st, d, fs, lost)
    BY <1>3, <1>5, <2>1, <2>3, <2>7, CallIs, RecordedPop
  <2>9. d.pc \in Places
    BY <2>2, <2>6, ResumedOnward DEF Onward
  <2>10. QED
    BY <1>2, <1>3, <2>4, <2>8, <2>9, NotIdle DEF Recording, Answered
<1>6. QED
  BY <1>4, <1>5

LEMMA RecordingAdvanced ==
  ASSUME Shape, Recording, call # Idle, Advanced(call), call.i.state = "COMPLETED"
  PROVE  Recording' /\ ~Answered
<1>1. PICK d : d = [call EXCEPT !.pc = "follow", !.k = 1]
  OBVIOUS
<1>2. PICK st : st = IF call.task = "create" THEN store ELSE PutIn(store, call.i)
  OBVIOUS
<1>3. call' = d /\ store' = st /\ callers' = callers /\ past' = past
  BY <1>1, <1>2 DEF Advanced
<1>4. Placed(st) /\ Recorded(st, call, callers, Unrecorded(past)) /\ Stored(st) /\ call.i.id \in DOMAIN st
  <2>1. Placed(store) /\ Recorded(store, call, callers, Unrecorded(past))
    BY DEF Recording
  <2>2. CASE call.task = "create"
    BY <1>2, <2>1, <2>2, CallIs
  <2>3. CASE call.task # "create"
    <3>1. st = PutIn(store, call.i)
      BY <1>2, <2>3
    <3>2. Placed(st) /\ Recorded(st, call, callers, Unrecorded(past)) /\ Stored(st)
      BY <2>1, <3>1, CallIs, RecordedPut
    <3>3. DOMAIN st = DOMAIN store
      BY <3>1 DEF PutIn
    <3>4. QED
      BY <3>2, <3>3, CallIs
  <2>4. QED
    BY <2>2, <2>3
<1>5. d.i = call.i /\ d.pc = "follow"
  BY <1>1, CallIs DEF Frame
<1>6. Recorded(st, d, callers, Unrecorded(past))
  BY <1>4, <1>5, OlderSelf, RecordedOnward
<1>7. d # Idle
  BY <1>5, NotIdle DEF Places
<1>8. QED
  BY <1>3, <1>4, <1>6, <1>7 DEF Recording, Answered

LEMMA RecordingFollowed ==
  ASSUME Shape, Recording, call # Idle, Followed(call)
  PROVE  Recording' /\ (Answered => Unrecorded(store') \subseteq Unrecorded(Found))
<1>1. CASE Return(call.i)
  BY <1>1, RecordingReturn
<1>2. ASSUME callers = <<>>, callers' = <<>>, past' = past, store' = PutIn(store, call.i),
             NEW P, NEW J, JoinsOf(call, P, J), call' = Begin("join", J)
      PROVE  Recording' /\ ~Answered
  <2>1. PICK st, lost : st = PutIn(store, call.i) /\ lost = Unrecorded(past)
    OBVIOUS
  <2>2. /\ Placed(st) /\ Recorded(st, call, callers, lost) /\ st[call.i.id] = call.i /\ Stored(st)
    BY <2>1, CallIs, RecordedPut DEF Recording
  <2>3. \A x \in DOMAIN st : st[x].pnode # NoNode =>
          x \in lost \/ st[st[x].parent].children[st[x].pnode] = x
    BY <1>2, <2>2, RecordedAlone
  <2>4. PICK d : d = Begin("join", J)
    OBVIOUS
  <2>5. d.i = J /\ d.pc = "visit"
    BY <2>4 DEF Begin
  <2>6. Older(st[d.i.id], d.i)
    <3>1. /\ P = store[call.i.parent] /\ P.id = call.i.parent /\ P.id < call.i.id /\ Inst(P)
          /\ Kin(P, J) /\ Family(P, J) /\ J.state = P.state /\ call.i.pnode # NoNode
      BY <1>2 DEF JoinsOf, Moved
    <3>2. call.i.parent \in DOMAIN store /\ call.i.parent # call.i.id
      BY <3>1, CallIs DEF Inst
    <3>3. st[call.i.parent] = P
      BY <2>1, <3>1, <3>2 DEF PutIn
    <3>4. QED
      BY <2>5, <3>1, <3>3, OlderFamily DEF Kin
  <2>7. Recorded(st, d, <<>>, lost)
    BY <2>2, <2>3, <2>6, RecordedAfresh
  <2>8. d # Idle
    BY <2>5, NotIdle DEF Places
  <2>9. QED
    BY <1>2, <2>1, <2>2, <2>4, <2>7, <2>8 DEF Recording, Answered
<1>3. QED
  BY <1>1, <1>2, FollowedIs

(* An instance whose children are the same, or more.                       *)
Extends(I, J) ==
  /\ J.id = I.id /\ J.parent = I.parent /\ J.pnode = I.pnode
  /\ DOMAIN I.children \subseteq DOMAIN J.children
  /\ \A n \in DOMAIN I.children : J.children[n] = I.children[n]

LEMMA ExtendsPut ==
  ASSUME NEW st, Stored(st), Placed(st), NEW id \in DOMAIN st, NEW J, Extends(st[id], J)
  PROVE  Placed(PutIn(st, J)) /\ Unrecorded(PutIn(st, J)) \subseteq Unrecorded(st)
<1>1. PICK st2 : st2 = PutIn(st, J)
  OBVIOUS
<1>2. J.id = id
  BY DEF Stored, Extends
<1>3. DOMAIN st2 = DOMAIN st /\ \A x \in DOMAIN st : st2[x] = IF x = id THEN J ELSE st[x]
  BY <1>1, <1>2 DEF PutIn
<1>4. ASSUME NEW x \in DOMAIN st PROVE Extends(st[x], st2[x])
  BY <1>3 DEF Extends
<1>5. ASSUME NEW x \in DOMAIN st2, st2[x].pnode # NoNode
      PROVE  /\ st2[x].pnode \in DOMAIN st2[st2[x].parent].children
             /\ st2[st2[x].parent].children[st2[x].pnode] # x => x \in Unrecorded(st)
  <2>1. x \in DOMAIN st /\ st[x].pnode = st2[x].pnode /\ st[x].parent = st2[x].parent
    BY <1>3, <1>4, <1>5 DEF Extends
  <2>2. PICK p, n : p = st[x].parent /\ n = st[x].pnode
    OBVIOUS
  <2>3. p \in DOMAIN st /\ n \in DOMAIN st[p].children
    BY <1>5, <2>1, <2>2, ParentStored DEF Placed
  <2>4. n \in DOMAIN st2[p].children /\ st2[p].children[n] = st[p].children[n]
    BY <1>4, <2>3 DEF Extends
  <2>5. QED
    BY <1>5, <2>1, <2>2, <2>4 DEF Unrecorded
<1>6. QED
  BY <1>1, <1>5 DEF Placed, Unrecorded

LEMMA ChangesExtend ==
  ASSUME NEW I, NEW J, Changes(I, J)
  PROVE  Extends(I, J)
<1>1. ASSUME NEW T, Varies(I, J, T) PROVE Extends(I, J)
  BY <1>1 DEF Varies, Rewrites, Extends
<1>2. ASSUME NEW T, Migrates(I, J, T) PROVE Extends(I, J)
  <2>1. /\ J.id = I.id /\ J.parent = I.parent /\ J.pnode = I.pnode
        /\ J.children = [n \in NodesOf(T) \cup DOMAIN I.children |->
                           IF n \in DOMAIN I.children THEN I.children[n] ELSE 0]
    BY <1>2 DEF Migrates, Rewrites
  <2>2. QED
    BY <2>1 DEF Extends
<1>3. ASSUME NEW T, NEW anchor, NEW next, NEW new, Inserts(I, J, T, anchor, next, new)
      PROVE  Extends(I, J)
  BY <1>1, <1>3 DEF Inserts
<1>4. ASSUME NEW T, NEW n, NEW prev, NEW next, Deletes(I, J, T, n, prev, next)
      PROVE  Extends(I, J)
  BY <1>1, <1>4 DEF Deletes
<1>5. CASE Renames(I, J)
  BY <1>1, <1>5 DEF Renames
<1>6. QED
  BY <1>2, <1>3, <1>4, <1>5 DEF Changes, Adapts

LEMMA RecordingAnswer ==
  ASSUME Shape, Recording, call = Idle, NEW id \in DOMAIN store, NEW J, Extends(store[id], J),
         Answer(PutIn(store, J), "ok")
  PROVE  Recording' /\ (Answered => Unrecorded(store') \subseteq Unrecorded(Found))
<1>1. PICK st : st = PutIn(store, J)
  OBVIOUS
<1>2. Placed(st) /\ Unrecorded(st) \subseteq Unrecorded(store)
  BY <1>1, ExtendsPut DEF Shape, Recording
<1>3. store' = st /\ call' = Idle
  BY <1>1 DEF Answer
<1>4. QED
  BY <1>2, <1>3 DEF Recording, Found

LEMMA RecordingBegin ==
  ASSUME Shape, Recording, call = Idle, NEW st, Stored(st), DOMAIN store \subseteq DOMAIN st,
         \A x \in DOMAIN store : st[x] = store[x],
         \A x \in DOMAIN st \ DOMAIN store : st[x].pnode = NoNode,
         NEW task, NEW J, J.id \in DOMAIN st, Older(st[J.id], J), Begins(Begin(task, J), st)
  PROVE  Recording' /\ ~Answered
<1>1. PICK lost, d : lost = Unrecorded(store) /\ d = Begin(task, J)
  OBVIOUS
<1>2. call' = d /\ store' = st /\ callers' = <<>> /\ past' = store
  BY <1>1 DEF Begins, Shape
<1>3. d.i = J /\ d.pc = "visit"
  BY <1>1 DEF Begin
<1>4. ASSUME NEW x \in DOMAIN st, st[x].pnode # NoNode
      PROVE  /\ st[x].pnode \in DOMAIN st[st[x].parent].children
             /\ x \in lost \/ st[st[x].parent].children[st[x].pnode] = x
  <2>1. x \in DOMAIN store /\ store[x].pnode # NoNode /\ st[x] = store[x]
    BY <1>4
  <2>2. store[x].parent \in DOMAIN store
    BY <2>1, ParentStored DEF Shape
  <2>3. st[st[x].parent] = store[store[x].parent]
    BY <2>1, <2>2
  <2>4. QED
    BY <1>1, <2>1, <2>3 DEF Recording, Placed, Unrecorded
<1>5. Recorded(st, d, <<>>, lost)
  BY <1>3, <1>4, RecordedAfresh
<1>6. Placed(st)
  BY <1>4 DEF Placed
<1>7. d # Idle
  BY <1>3, NotIdle DEF Places
<1>8. QED
  BY <1>1, <1>2, <1>5, <1>6, <1>7 DEF Recording, Answered

LEMMA RecordingClient ==
  ASSUME Shape, Recording, ClientCall
  PROVE  Recording' /\ (Answered => Unrecorded(store') \subseteq Unrecorded(Found))
<1>1. call = Idle /\ Stored(store) /\ Len(store) \in Nat
  BY SeqDomain DEF ClientCall, Shape, Stored
<1>2. ASSUME NEW name \in DOMAIN Schemas, NEW I, I = NewInstance(name, Len(store) + 1, Nothing, 0, NoNode),
             Begins(Begin("create", I), Append(store, I))
      PROVE  Recording' /\ ~Answered
  <2>1. Inst(I) /\ I.id = Len(store) + 1 /\ I.pnode = NoNode
    BY <1>2, CreatedAtRoot
  <2>2. PICK st : st = Append(store, I)
    OBVIOUS
  <2>3. /\ Stored(st) /\ DOMAIN st = DOMAIN store \cup {I.id} /\ I.id \notin DOMAIN store
        /\ st[I.id] = I /\ \A x \in DOMAIN store : st[x] = store[x]
    BY <1>1, <2>1, <2>2, StoredAppend
  <2>4. Older(st[I.id], I)
    BY <2>3, OlderSelf
  <2>5. /\ DOMAIN store \subseteq DOMAIN st /\ I.id \in DOMAIN st
        /\ \A x \in DOMAIN st \ DOMAIN store : st[x].pnode = NoNode
    BY <2>1, <2>3
  <2>6. Begins(Begin("create", I), st)
    BY <1>2, <2>2
  <2>7. QED
    BY <1>1, <2>3, <2>4, <2>5, <2>6, RecordingBegin
<1>3. ASSUME NEW id \in DOMAIN store, NEW J, Starts(store[id], J), Answer(PutIn(store, J), "ok")
      PROVE  Recording' /\ (Answered => Unrecorded(store') \subseteq Unrecorded(Found))
  <2>1. Kin(store[id], J) /\ Family(store[id], J)
    BY <1>3 DEF Starts
  <2>2. Extends(store[id], J)
    BY <2>1 DEF Kin, Family, Extends
  <2>3. QED
    BY <1>1, <1>3, <2>2, RecordingAnswer
<1>4. ASSUME NEW id \in DOMAIN store, NEW J, Completes(store[id], J), Begins(Begin("complete", J), store)
      PROVE  Recording' /\ ~Answered
  <2>1. Family(store[id], J) /\ J.state = store[id].state /\ J.id = id
    BY <1>1, <1>4 DEF Completes, Moved, Kin, Stored
  <2>2. Older(store[J.id], J)
    BY <2>1, OlderFamily
  <2>3. QED
    BY <1>1, <1>4, <2>1, <2>2, RecordingBegin
<1>5. QED
  BY <1>2, <1>3, <1>4, ClientCallIs

LEMMA RecordingStep ==
  ASSUME Shape, Recording, [EngineStep \/ AdhocChange \/ Migration]_evars
  PROVE  Recording' /\ [Answered => Unrecorded(store') \subseteq Unrecorded(Found)]_vars
<1>1. CASE ClientCall
  BY <1>1, RecordingClient
<1>2. CASE Visit \/ EvaluateTargets \/ TriggerFollowUps
  <2>1. call # Idle /\ Frame(call, store) /\ Stored(store)
    BY <1>2, StepIs, CallIs
  <2>2. Placed(store) /\ Recorded(store, call, callers, Unrecorded(past))
    BY <2>1 DEF Recording
  <2>3. CASE Raise
    BY <2>2, <2>3 DEF Raise, Answer, Answered, Recording
  <2>4. ASSUME NEW d, Passes(call, d) \/ Works(call, d), Goes(d)
        PROVE  Recording' /\ ~Answered
    <3>1. Onward(call, d) /\ d.i.id = call.i.id /\ Older(call.i, d.i)
      BY <2>1, <2>4, PassesOnward, WorksOnward, PassesOlder
    <3>2. Recorded(store, d, callers, Unrecorded(past))
      BY <2>1, <2>2, <3>1, CallIs, RecordedOnward
    <3>3. d # Idle
      BY <3>1, NotIdle DEF Onward
    <3>4. QED
      BY <2>2, <2>4, <3>2, <3>3 DEF Goes, Recording, Answered
  <2>5. ASSUME NEW F, NEW I, SpawnsChild(call, F, I), Create(F, I)
        PROVE  Recording' /\ ~Answered
    <3>1. Inst(I) /\ I.id = Len(store) + 1 /\ MadeFor(F, I)
      BY <2>1, <2>5, ChildInst
    <3>2. F.i = call.i /\ Waits(F) /\ SchemaOf(F) = SchemaOf(call)
      BY <2>1, <2>5, SpawnsOnward
    <3>3. Recording'
      BY <2>1, <2>2, <2>5, <3>1, <3>2, RecordingCreate
    <3>4. Begin("create", I) # Idle
      BY NotIdle DEF Begin, Places
    <3>5. QED
      BY <2>5, <3>3, <3>4 DEF Create, Answered
  <2>6. ASSUME call.pc = "follow", call.k \in DOMAIN Links(call),
               Create(call, FollowUp(Links(call)[call.k], call.i))
        PROVE  Recording' /\ ~Answered
    <3>1. PICK I : I = FollowUp(Links(call)[call.k], call.i)
      OBVIOUS
    <3>2. Inst(I) /\ I.id = Len(store) + 1 /\ MadeFor(call, I)
      BY <2>1, <2>6, <3>1, FollowInst
    <3>3. Recording'
      BY <2>1, <2>6, <3>1, <3>2, RecordingCreate DEF Waits
    <3>4. Begin("create", I) # Idle
      BY NotIdle DEF Begin, Places
    <3>5. QED
      BY <2>6, <3>1, <3>3, <3>4 DEF Create, Answered
  <2>7. CASE AtRest(call) /\ call.i.state = "COMPLETED" /\ Advanced(call)
    BY <2>1, <2>7, RecordingAdvanced
  <2>8. CASE AtRest(call) /\ call.i.state # "COMPLETED" /\ Return(call.i)
    BY <2>1, <2>8, RecordingReturn
  <2>9. CASE call.pc = "follow" /\ Followed(call)
    BY <2>1, <2>9, RecordingFollowed
  <2>10. QED
    BY <1>2, <2>3, <2>4, <2>5, <2>6, <2>7, <2>8, <2>9, StepIs
<1>3. CASE AdhocChange \/ Migration
  <2>1. PICK id, J : id \in DOMAIN store /\ Changes(store[id], J) /\ Answer(PutIn(store, J), "ok")
    BY <1>3, ChangeIs
  <2>2. call = Idle /\ Extends(store[id], J)
    BY <1>3, <2>1, ChangeIs, ChangesExtend
  <2>3. QED
    BY <2>1, <2>2, RecordingAnswer
<1>4. CASE UNCHANGED evars
  BY <1>4 DEF evars, vars, Recording
<1>5. QED
  BY <1>1, <1>2, <1>3, <1>4 DEF EngineStep, Next

LEMMA RecordingInit == EInit => Recording
BY SeqEmpty DEF EInit, Init, Recording, Placed

(* "The parent records the child id" (_handle_subprocess): whatever calls  *)
(* were refused before, and whatever was changed or migrated, a call that  *)
(* is answered leaves no child its parent does not know of, at any level   *)
(* of the instance tree.                                                   *)
THEOREM ChildrenAreRecorded == ESpec => ChildRecorded
<1>1. Shape /\ Recording /\ [EngineStep \/ AdhocChange \/ Migration]_evars
      => Recording' /\ [Answered => Unrecorded(store') \subseteq Unrecorded(Found)]_vars
  BY RecordingStep
<1>2. QED
  BY <1>1, ShapeAlways, RecordingInit, PTL DEF ESpec, ChildRecorded

-----------------------------------------------------------------------------
(* The past is kept and ends are clean.  What has been reached lies behind *)
(* what is finished (Grown); a node with a child waits for it, or the      *)
(* child has completed (Tended).  The copy a function works on only adds   *)
(* to what is stored of the instance (Kept), and the parent of an instance *)
(* that may report waits for it (Claimed).  Every instance the call has    *)
(* found is known to its parent, or has completed (Registered).            *)
Grown(S, I) ==
  /\ \A e \in S.edges : I.ns[e[2]] # "NOT_ACTIVATED" => I.ns[e[1]] \in Terminal
  /\ I.state = "COMPLETED" => \A n \in NodesOf(S) : S.kind[n] = "END" => I.ns[n] \in Terminal
Tends(S, I, st, n) ==
  /\ n \in NodesOf(S) /\ S.kind[n] = "SUBPROCESS"
  /\ I.ns[n] \in {"RUNNING", "COMPLETED"} /\ I.children[n] \in DOMAIN st
  /\ I.ns[n] = "COMPLETED" => st[I.children[n]].state = "COMPLETED"
Tended(I, st) ==
  \A n \in DOMAIN I.children : I.children[n] # 0 => Tends(Effective(I), I, st, n)
Sound(I, st) == Grown(Effective(I), I) /\ Tended(I, st)
AllSound(st) == \A id \in DOMAIN st : Sound(st[id], st)

Kept(I, J) ==
  /\ \A n \in DOMAIN I.ns : n \in DOMAIN J.ns /\ (I.ns[n] \in Terminal => J.ns[n] = I.ns[n])
  /\ \A e \in DOMAIN I.es : e \in DOMAIN J.es /\ (I.es[e] # "NOT_SIGNALED" => J.es[e] = I.es[e])
Claimed(st, I) ==
  I.pnode # NoNode =>
    st[I.parent].children[I.pnode] = I.id /\ st[I.parent].ns[I.pnode] = "RUNNING"
Stands(F, st) ==
  /\ Sound(F.i, st) /\ Kept(st[F.i.id], F.i)
  /\ F.pc = "follow" => F.i.state = "COMPLETED"
  /\ F.task # "create" => Claimed(st, F.i)
Registered(st, size) ==
  \A c \in DOMAIN st : c <= size /\ st[c].pnode # NoNode =>
    st[c].state = "COMPLETED" \/ st[st[c].parent].children[st[c].pnode] = c

AllStand(st, c, cs) == AllSound(st) /\ Stands(c, st) /\ \A k \in DOMAIN cs : Stands(cs[k], st)
Standing ==
  /\ AllSound(store)
  /\ call # Idle => AllStand(store, call, callers) /\ Registered(store, Len(past))

(* The instances of a store are there later, and completed ones stay so.   *)
Later(st, st2) ==
  /\ DOMAIN st \subseteq DOMAIN st2
  /\ \A id \in DOMAIN st : st[id].state = "COMPLETED" => st2[id].state = "COMPLETED"

LEMMA KeptSelf == \A I : Kept(I, I)
BY DEF Kept

LEMMA KeptTransitive ==
  ASSUME NEW I, NEW J, NEW K, Kept(I, J), Kept(J, K)
  PROVE  Kept(I, K)
<1>1. ASSUME NEW n \in DOMAIN I.ns
      PROVE  n \in DOMAIN K.ns /\ (I.ns[n] \in Terminal => K.ns[n] = I.ns[n])
  <2>1. n \in DOMAIN J.ns /\ (I.ns[n] \in Terminal => J.ns[n] = I.ns[n])
    BY DEF Kept
  <2>2. n \in DOMAIN K.ns /\ (J.ns[n] \in Terminal => K.ns[n] = J.ns[n])
    BY <2>1 DEF Kept
  <2>3. QED
    BY <2>1, <2>2
<1>2. ASSUME NEW e \in DOMAIN I.es
      PROVE  e \in DOMAIN K.es /\ (I.es[e] # "NOT_SIGNALED" => K.es[e] = I.es[e])
  <2>1. e \in DOMAIN J.es /\ (I.es[e] # "NOT_SIGNALED" => J.es[e] = I.es[e])
    BY DEF Kept
  <2>2. e \in DOMAIN K.es /\ (J.es[e] # "NOT_SIGNALED" => K.es[e] = J.es[e])
    BY <2>1 DEF Kept
  <2>3. QED
    BY <2>1, <2>2
<1>3. QED
  BY <1>1, <1>2 DEF Kept

LEMMA OneEnd ==
  ASSUME NEW S, Drawn(S), NEW m \in NodesOf(S), NEW n \in NodesOf(S),
         S.kind[m] = "END", S.kind[n] = "END"
  PROVE  m = n
<1>1. Cardinality(NodesOfKind(S, "END")) = 1
  BY DEF Drawn, Valid, K2
<1>2. IsFiniteSet(NodesOfKind(S, "END"))
  <2>1. NodesOfKind(S, "END") \subseteq NodesOf(S)
    BY DEF NodesOfKind, NodesOf
  <2>2. QED
    BY <2>1, FS_Subset DEF Drawn
<1>3. PICK x : NodesOfKind(S, "END") = {x}
  BY <1>1, <1>2, FS_Singleton
<1>4. m \in NodesOfKind(S, "END") /\ n \in NodesOfKind(S, "END")
  BY DEF NodesOfKind, NodesOf
<1>5. QED
  BY <1>3, <1>4

LEMMA StartHasNoWayIn ==
  ASSUME NEW S, Drawn(S), NEW n \in NodesOf(S), S.kind[n] = "START"
  PROVE  Into(S, n) = {}
<1>1. Cardinality(Into(S, n)) = 0
  BY DEF Drawn, Valid, K2, DegreesOK, NodesOf
<1>2. IsFiniteSet(Into(S, n))
  <2>1. IsFiniteSet(NodesOf(S) \X NodesOf(S))
    BY FS_Product DEF Drawn
  <2>2. Into(S, n) \subseteq NodesOf(S) \X NodesOf(S)
    BY DEF Drawn, Into
  <2>3. QED
    BY <2>1, <2>2, FS_Subset
<1>3. QED
  BY <1>1, <1>2, FS_EmptySet

(* A node is marked that has been reached before, or is reached now.       *)
LEMMA GrownMoved ==
  ASSUME NEW S, Drawn(S), NEW I, NEW J, NEW n \in NodesOf(S), NEW s, Fit(S, I), Grown(S, I),
         Moved(S, I, J, n, s), I.ns[n] \notin Terminal,
         I.ns[n] # "NOT_ACTIVATED" \/ \A e \in Into(S, n) : I.ns[e[1]] \in Terminal,
         J.state = I.state \/ (S.kind[n] = "END" /\ s \in Terminal)
  PROVE  Grown(S, J)
<1>1. DOMAIN I.ns = NodesOf(S) /\ J.ns = [I.ns EXCEPT ![n] = s]
  BY DEF Moved, Marked, Fit
<1>2. J.ns[n] = s /\ \A m \in NodesOf(S) : m # n => J.ns[m] = I.ns[m]
  BY <1>1
<1>3. \A m \in NodesOf(S) : I.ns[m] \in Terminal => J.ns[m] \in Terminal
  BY <1>2
<1>4. ASSUME NEW e \in S.edges, J.ns[e[2]] # "NOT_ACTIVATED" PROVE J.ns[e[1]] \in Terminal
  <2>1. e[1] \in NodesOf(S) /\ e[2] \in NodesOf(S)
    BY EdgeEnds
  <2>2. I.ns[e[1]] \in Terminal
    <3>1. CASE e[2] = n /\ I.ns[n] = "NOT_ACTIVATED"
      <4>1. e \in Into(S, n)
        BY <3>1 DEF Into
      <4>2. QED
        BY <3>1, <4>1
    <3>2. CASE e[2] # n \/ I.ns[n] # "NOT_ACTIVATED"
      <4>1. I.ns[e[2]] # "NOT_ACTIVATED"
        BY <1>2, <1>4, <2>1, <3>2
      <4>2. QED
        BY <4>1 DEF Grown
    <3>3. QED
      BY <3>1, <3>2
  <2>3. QED
    BY <1>3, <2>1, <2>2
<1>5. ASSUME J.state = "COMPLETED", NEW m \in NodesOf(S), S.kind[m] = "END"
      PROVE  J.ns[m] \in Terminal
  <2>1. CASE J.state = I.state
    <3>1. I.ns[m] \in Terminal
      BY <1>5, <2>1 DEF Grown
    <3>2. QED
      BY <1>3, <3>1
  <2>2. CASE S.kind[n] = "END" /\ s \in Terminal
    <3>1. m = n
      BY <1>5, <2>2, OneEnd
    <3>2. QED
      BY <1>2, <2>2, <3>1
  <2>3. QED
    BY <2>1, <2>2
<1>6. QED
  BY <1>4, <1>5 DEF Grown

LEMMA KeptMoved ==
  ASSUME NEW S, Drawn(S), NEW I, NEW J, NEW n \in NodesOf(S), NEW s, Fit(S, I),
         Moved(S, I, J, n, s), I.ns[n] \notin Terminal
  PROVE  Kept(I, J)
<1>1. /\ DOMAIN I.ns = NodesOf(S) /\ DOMAIN I.es = S.edges /\ J.ns = [I.ns EXCEPT ![n] = s]
      /\ \A e \in S.edges : (I.es[e] # "NOT_SIGNALED") <=> (I.ns[e[1]] \in Terminal)
  BY DEF Moved, Marked, Fit
<1>2. \A m \in DOMAIN I.ns : m \in DOMAIN J.ns /\ (I.ns[m] \in Terminal => J.ns[m] = I.ns[m])
  BY <1>1
<1>3. ASSUME NEW e \in DOMAIN I.es
      PROVE  e \in DOMAIN J.es /\ (I.es[e] # "NOT_SIGNALED" => J.es[e] = I.es[e])
  <2>1. CASE s \in Terminal
    <3>1. Signed(S, I.es, J.es, n)
      BY <2>1 DEF Moved, Marked
    <3>2. e \in OutOf(S, n) => I.es[e] = "NOT_SIGNALED"
      BY <1>1 DEF OutOf
    <3>3. QED
      BY <3>1, <3>2 DEF Signed
  <2>2. CASE s \notin Terminal
    BY <2>2 DEF Moved, Marked
  <2>3. QED
    BY <2>1, <2>2
<1>4. QED
  BY <1>2, <1>3 DEF Kept

(* A child stays the child of its node: another node is marked, or the     *)
(* child has completed when its node does.                                 *)
LEMMA TendedMoved ==
  ASSUME NEW S, NEW I, NEW J, NEW n, NEW s, NEW st, Fit(S, I), S = Effective(I),
         Tended(I, st), Moved(S, I, J, n, s), J.children = I.children,
         n \in DOMAIN I.children /\ I.children[n] # 0 =>
           s \in {"RUNNING", "COMPLETED"} /\ (s = "COMPLETED" => st[I.children[n]].state = "COMPLETED")
  PROVE  Tended(J, st)
<1>1. Effective(J) = S /\ DOMAIN I.ns = NodesOf(S) /\ J.ns = [I.ns EXCEPT ![n] = s]
  BY EffectiveKin DEF Moved, Marked, Fit
<1>2. SUFFICES ASSUME NEW m \in DOMAIN I.children, I.children[m] # 0 PROVE Tends(S, J, st, m)
  BY <1>1 DEF Tended
<1>3. Tends(S, I, st, m)
  BY <1>2 DEF Tended
<1>4. J.ns[m] = IF m = n THEN s ELSE I.ns[m]
  BY <1>1, <1>3 DEF Tends
<1>5. QED
  BY <1>2, <1>3, <1>4 DEF Tends

LEMMA SoundLater ==
  ASSUME NEW I, NEW st, NEW st2, Sound(I, st), Later(st, st2)
  PROVE  Sound(I, st2)
<1>1. ASSUME NEW n \in DOMAIN I.children, I.children[n] # 0 PROVE Tends(Effective(I), I, st2, n)
  <2>1. Tends(Effective(I), I, st, n)
    BY <1>1 DEF Sound, Tended
  <2>2. QED
    BY <2>1 DEF Tends, Later
<1>2. QED
  BY <1>1 DEF Sound, Tended

LEMMA SoundPut ==
  ASSUME NEW st, Stored(st), AllSound(st), NEW J, Inst(J), J.id \in DOMAIN st, Sound(J, st),
         st[J.id].state = "COMPLETED" => J.state = "COMPLETED"
  PROVE  AllSound(PutIn(st, J)) /\ Later(st, PutIn(st, J))
<1>1. PICK t : t = PutIn(st, J)
  OBVIOUS
<1>2. DOMAIN t = DOMAIN st /\ t[J.id] = J /\ \A id \in DOMAIN st : id # J.id => t[id] = st[id]
  BY <1>1, StoredSet
<1>3. Later(st, t)
  BY <1>2 DEF Later
<1>4. ASSUME NEW id \in DOMAIN t PROVE Sound(t[id], t)
  <2>1. Sound(t[id], st)
    BY <1>2 DEF AllSound
  <2>2. QED
    BY <1>3, <2>1, SoundLater
<1>5. QED
  BY <1>1, <1>3, <1>4 DEF AllSound

LEMMA SoundAppend ==
  ASSUME NEW st, Stored(st), AllSound(st), NEW J, Inst(J), J.id = Len(st) + 1, Sound(J, st)
  PROVE  AllSound(Append(st, J)) /\ Later(st, Append(st, J))
<1>1. PICK t : t = Append(st, J)
  OBVIOUS
<1>2. /\ DOMAIN t = DOMAIN st \cup {J.id} /\ t[J.id] = J
      /\ \A id \in DOMAIN st : t[id] = st[id]
  BY <1>1, StoredAppend
<1>3. Later(st, t)
  BY <1>2 DEF Later
<1>4. ASSUME NEW id \in DOMAIN t PROVE Sound(t[id], t)
  <2>1. Sound(t[id], st)
    BY <1>2 DEF AllSound
  <2>2. QED
    BY <1>3, <2>1, SoundLater
<1>5. QED
  BY <1>1, <1>3, <1>4 DEF AllSound

LEMMA NewSound ==
  ASSUME NEW name \in DOMAIN Schemas, NEW id, NEW seed, NEW parent, NEW pnode,
         NEW I, I = NewInstance(name, id, seed, parent, pnode), NEW st
  PROVE  Sound(I, st)
<1> DEFINE S == Schemas[name]
<1>1. /\ I.ns = [n \in NodesOf(S) |-> IF S.kind[n] = "START" THEN "ACTIVATED" ELSE "NOT_ACTIVATED"]
      /\ Effective(I) = S /\ I.state = "RUNNING" /\ I.children = [n \in NodesOf(S) |-> 0]
  BY DEF NewInstance, Effective
<1>2. Drawn(S)
  BY SchemaDrawn
<1>3. ASSUME NEW e \in S.edges PROVE I.ns[e[2]] = "NOT_ACTIVATED"
  <2>1. e[2] \in NodesOf(S) /\ e \in Into(S, e[2])
    BY <1>2, EdgeEnds DEF Into
  <2>2. S.kind[e[2]] # "START"
    BY <1>2, <2>1, StartHasNoWayIn
  <2>3. QED
    BY <1>1, <2>1, <2>2
<1>4. Grown(S, I)
  BY <1>1, <1>3 DEF Grown
<1>5. QED
  BY <1>1, <1>4 DEF Sound, Tended

LEMMA PassesStands ==
  ASSUME NEW c, NEW d, NEW st, Frame(c, st), Stands(c, st), Passes(c, d)
  PROVE  Stands(d, st)
<1>1. Onward(c, d) /\ d.i = c.i /\ (d.pc = "follow" <=> c.pc = "follow")
  BY PassesOnward
<1>2. QED
  BY <1>1 DEF Onward, Stands

LEMMA WorksStands ==
  ASSUME NEW c, NEW d, NEW st, Frame(c, st), Marks(c), Stands(c, st), Works(c, d)
  PROVE  Stands(d, st)
<1> DEFINE S == Effective(c.i)
           I == c.i
<1>1. /\ DOMAIN c = {"task", "pc", "i", "k", "moved"} /\ Inst(I) /\ SchemaOf(c) = S
      /\ Fit(S, I) /\ Drawn(S)
  BY MarksSchema DEF Frame, Marks, Inst
<1>2. PICK n, J, j : /\ j \in Nat \ {0}
                     /\ d = [c EXCEPT !.i = J, !.k = j, !.moved = TRUE]
                     /\ \/ c.pc = "visit" /\ Visits(SchemaOf(c), c.i, J, n)
                        \/ c.pc = "evaluate" /\ Evaluates(SchemaOf(c), c.i, J, n)
  BY Zenon DEF Works
<1>3. d.i = J /\ d.task = c.task /\ d.pc = c.pc /\ c.pc # "follow"
  BY <1>1, <1>2
<1>4. PICK s : /\ Moved(S, I, J, n, s) /\ n \in NodesOf(S) /\ I.ns[n] \in {"ACTIVATED", "NOT_ACTIVATED"}
               /\ I.ns[n] # "NOT_ACTIVATED" \/ \A e \in Into(S, n) : I.ns[e[1]] \in Terminal
               /\ J.state = I.state \/ (S.kind[n] = "END" /\ s \in Terminal)
               /\ Family(I, J)
  <2>1. CASE Visits(S, I, J, n)
    <3>1. /\ n \in NodesOf(S) /\ I.ns[n] = "ACTIVATED" /\ Moved(S, I, J, n, "COMPLETED") /\ Family(I, J)
          /\ J.state = IF S.kind[n] = "END" THEN "COMPLETED" ELSE I.state
      BY <2>1 DEF Visits
    <3>2. QED
      BY <3>1 DEF Terminal
  <2>2. CASE Evaluates(S, I, J, n)
    <3>1. /\ n \in NodesOf(S) /\ I.ns[n] = "NOT_ACTIVATED" /\ J.state = I.state /\ Family(I, J)
          /\ "NOT_SIGNALED" \notin Signals(S, I, n)
      BY <2>2 DEF Evaluates
    <3>2. PICK s : Moved(S, I, J, n, s)
      BY <2>2 DEF Evaluates
    <3>3. ASSUME NEW e \in Into(S, n) PROVE I.ns[e[1]] \in Terminal
      <4>1. I.es[e] # "NOT_SIGNALED" /\ e \in S.edges
        BY <3>1 DEF Signals, Into
      <4>2. QED
        BY <1>1, <4>1 DEF Fit
    <3>4. QED
      BY <3>1, <3>2, <3>3
  <2>3. QED
    BY <1>1, <1>2, <2>1, <2>2
<1>5. I.ns[n] \notin Terminal /\ Effective(J) = S
  BY <1>4, EffectiveKin DEF Terminal, Moved
<1>6. Grown(S, J)
  BY <1>1, <1>4, <1>5, GrownMoved DEF Stands, Sound
<1>7. Tended(J, st)
  <2>1. Tended(I, st)
    BY DEF Stands, Sound
  <2>2. ~(n \in DOMAIN I.children /\ I.children[n] # 0)
    BY <1>4, <2>1 DEF Tended, Tends
  <2>3. QED
    BY <1>1, <1>4, <2>1, <2>2, TendedMoved DEF Family
<1>8. Kept(st[d.i.id], d.i)
  <2>1. Kept(I, J)
    BY <1>1, <1>4, <1>5, KeptMoved
  <2>2. J.id = I.id
    BY <1>4 DEF Moved, Kin
  <2>3. Kept(st[I.id], J)
    BY <2>1, KeptTransitive DEF Stands
  <2>4. QED
    BY <1>3, <2>2, <2>3
<1>9. c.task # "create" => Claimed(st, J)
  BY <1>4 DEF Stands, Claimed, Moved, Kin
<1>10. QED
  BY <1>3, <1>5, <1>6, <1>7, <1>8, <1>9 DEF Stands, Sound

LEMMA ResumedStands ==
  ASSUME NEW F, NEW st, Frame(F, st), Waits(F), Marks(F), Stands(F, st),
         NEW C, C.id \in DOMAIN st, st[C.id] = C, NEW d, d = Resumed(F, C)
  PROVE  Stands(d, st)
<1> DEFINE S == Effective(F.i)
           I == F.i
           n == At(F)
<1>1. /\ Onward(F, d) /\ d.pc = F.pc
      /\ F.pc = "visit" => d.i = Adopt(SchemaOf(F), F.i, At(F), C)
      /\ F.pc # "visit" => d.i = [F.i EXCEPT !.followups = Append(@, C.id)]
  BY ResumedOnward
<1>2. /\ d.task = F.task /\ Kin(I, d.i) /\ Effective(d.i) = S /\ Inst(I) /\ Drawn(S) /\ DOMAIN I = Fields
      /\ SchemaOf(F) = S /\ Fit(S, I) /\ Sound(I, st) /\ Kept(st[I.id], I)
  BY <1>1, MarksSchema, EffectiveKin DEF Onward, Frame, Inst, Marks, Stands
<1>3. F.task # "create" => Claimed(st, d.i)
  BY <1>2 DEF Stands, Claimed, Kin
<1>4. CASE F.pc = "visit"
  <2>1. n \in NodesOf(S) /\ S.kind[n] = "SUBPROCESS" /\ I.ns[n] = "ACTIVATED"
    BY <1>2, <1>4 DEF Waits, Spawns
  <2>2. PICK J : J = d.i
    OBVIOUS
  <2>3. Adopts(S, I, J, n, C)
    BY <1>1, <1>2, <1>4, <2>2, AdoptIs
  <2>4. PICK s : s = IF C.state = "COMPLETED" THEN "COMPLETED" ELSE "RUNNING"
    OBVIOUS
  <2>5. /\ Moved(S, I, J, n, s) /\ J.children = [I.children EXCEPT ![n] = C.id]
        /\ J.state = I.state /\ I.ns[n] \notin Terminal
    BY <2>1, <2>3, <2>4 DEF Adopts, Terminal
  <2>6. Grown(S, J)
    BY <1>2, <2>1, <2>5, GrownMoved DEF Sound
  <2>7. ASSUME NEW m \in DOMAIN J.children, J.children[m] # 0 PROVE Tends(S, J, st, m)
    <3>1. DOMAIN I.ns = NodesOf(S) /\ J.ns = [I.ns EXCEPT ![n] = s]
      BY <1>2, <2>5 DEF Fit, Moved, Marked
    <3>2. CASE m = n
      <4>1. J.children[n] = C.id /\ J.ns[n] = s
        BY <2>1, <2>5, <2>7, <3>1, <3>2
      <4>2. QED
        BY <2>1, <2>4, <3>2, <4>1 DEF Tends
    <3>3. CASE m # n
      <4>1. m \in DOMAIN I.children /\ J.children[m] = I.children[m]
        BY <2>5, <2>7, <3>3
      <4>2. Tends(S, I, st, m)
        BY <1>2, <2>7, <4>1 DEF Sound, Tended
      <4>3. J.ns[m] = I.ns[m]
        BY <3>1, <3>3, <4>2 DEF Tends
      <4>4. QED
        BY <4>1, <4>2, <4>3 DEF Tends
    <3>4. QED
      BY <3>2, <3>3
  <2>8. Kept(st[J.id], J)
    <3>1. Kept(I, J)
      BY <1>2, <2>1, <2>5, KeptMoved
    <3>2. J.id = I.id
      BY <1>2, <2>2 DEF Kin
    <3>3. Kept(st[I.id], J)
      BY <1>2, <3>1, KeptTransitive
    <3>4. QED
      BY <3>2, <3>3
  <2>9. QED
    BY <1>1, <1>2, <1>3, <1>4, <2>2, <2>6, <2>7, <2>8 DEF Stands, Sound, Tended
<1>5. CASE F.pc # "visit"
  <2>1. PICK J : J = d.i
    OBVIOUS
  <2>2. J = [I EXCEPT !.followups = Append(@, C.id)]
    BY <1>1, <1>5, <2>1
  <2>3. /\ J.ns = I.ns /\ J.es = I.es /\ J.state = I.state /\ J.children = I.children /\ J.id = I.id
    BY <1>2, <2>2 DEF Fields
  <2>4. Grown(S, J)
    BY <1>2, <2>3 DEF Sound, Grown
  <2>5. Tended(J, st)
    BY <1>2, <2>1, <2>3 DEF Sound, Tended, Tends
  <2>6. Kept(st[J.id], J)
    BY <1>2, <2>3 DEF Kept
  <2>7. F.pc = "follow" => J.state = "COMPLETED"
    BY <2>3 DEF Stands
  <2>8. QED
    BY <1>1, <1>2, <1>3, <2>1, <2>4, <2>5, <2>6, <2>7 DEF Stands, Sound
<1>6. QED
  BY <1>4, <1>5

(* A function that waits does not notice what is put for another instance, *)
(* unless it is the parent that waits for the function's instance.         *)
LEMMA StandsLater ==
  ASSUME NEW F, NEW st, NEW st2, Stands(F, st), Later(st, st2), st2[F.i.id] = st[F.i.id],
         F.task # "create" /\ F.i.pnode # NoNode => st2[F.i.parent] = st[F.i.parent]
  PROVE  Stands(F, st2)
<1>1. Sound(F.i, st2)
  BY SoundLater DEF Stands
<1>2. F.task # "create" => Claimed(st2, F.i)
  BY DEF Stands, Claimed
<1>3. QED
  BY <1>1, <1>2 DEF Stands

LEMMA StandPut ==
  ASSUME NEW st, Stored(st), NEW c, NEW cs, NEW size, Working(st, c, cs, size), AllStand(st, c, cs),
         Older(st[c.i.id], c.i)
  PROVE  /\ AllStand(PutIn(st, c.i), c, cs) /\ Later(st, PutIn(st, c.i))
         /\ PutIn(st, c.i)[c.i.id] = c.i
<1>1. PICK t : t = PutIn(st, c.i)
  OBVIOUS
<1>2. Inst(c.i) /\ c.i.id \in DOMAIN st /\ Stands(c, st) /\ AllSound(st) /\ Frame(c, st)
  BY DEF Working, Frame, AllStand
<1>3. /\ DOMAIN t = DOMAIN st /\ t[c.i.id] = c.i
      /\ \A id \in DOMAIN st : id # c.i.id => t[id] = st[id]
  BY <1>1, <1>2, StoredSet
<1>4. AllSound(t) /\ Later(st, t)
  BY <1>1, <1>2, SoundPut DEF Stands, Older
<1>5. ASSUME NEW F, Inst(F.i), F.i.id \in Nat, F.i.id <= c.i.id
      PROVE  F.i.pnode # NoNode => t[F.i.parent] = st[F.i.parent]
  <2>1. SUFFICES ASSUME F.i.pnode # NoNode PROVE t[F.i.parent] = st[F.i.parent]
    OBVIOUS
  <2>2. F.i.parent \in Nat /\ F.i.parent < F.i.id /\ c.i.id \in Nat
    BY <1>2, <1>5 DEF Inst
  <2>3. F.i.parent # c.i.id
    BY <1>5, <2>2
  <2>4. QED
    BY <1>1, <2>3 DEF PutIn
<1>6. Stands(c, t)
  <2>1. Sound(c.i, t)
    BY <1>2, <1>4, SoundLater DEF Stands
  <2>2. Kept(t[c.i.id], c.i)
    BY <1>3, KeptSelf
  <2>3. c.task # "create" => Claimed(t, c.i)
    <3>1. c.i.pnode # NoNode => t[c.i.parent] = st[c.i.parent]
      BY <1>2, <1>5 DEF Inst
    <3>2. QED
      BY <1>2, <3>1 DEF Stands, Claimed
  <2>4. QED
    BY <1>2, <2>1, <2>2, <2>3 DEF Stands
<1>7. ASSUME NEW k \in DOMAIN cs PROVE Stands(cs[k], t)
  <2>1. Stands(cs[k], st) /\ Inst(cs[k].i) /\ cs[k].i.id \in DOMAIN st /\ cs[k].i.id < c.i.id
    BY DEF AllStand, Working, Frame
  <2>2. cs[k].i.id \in Nat /\ c.i.id \in Nat
    BY <1>2, <2>1 DEF Inst
  <2>3. t[cs[k].i.id] = st[cs[k].i.id]
    BY <1>3, <2>1, <2>2
  <2>4. cs[k].i.pnode # NoNode => t[cs[k].i.parent] = st[cs[k].i.parent]
    BY <1>5, <2>1, <2>2
  <2>5. QED
    BY <1>4, <2>1, <2>3, <2>4, StandsLater
<1>8. QED
  BY <1>1, <1>3, <1>4, <1>6, <1>7 DEF AllStand

LEMMA RegisteredPut ==
  ASSUME NEW st, Stored(st), Placed(st), NEW size \in Nat, Registered(st, size),
         NEW J, Inst(J), J.id \in DOMAIN st, Kin(st[J.id], J), Older(st[J.id], J)
  PROVE  Registered(PutIn(st, J), size)
<1>1. PICK t : t = PutIn(st, J)
  OBVIOUS
<1>2. DOMAIN t = DOMAIN st /\ t[J.id] = J /\ \A id \in DOMAIN st : id # J.id => t[id] = st[id]
  BY <1>1, StoredSet
<1>3. \A id \in DOMAIN st : Older(st[id], t[id]) /\ t[id].pnode = st[id].pnode /\ t[id].parent = st[id].parent
  <2>1. TAKE id \in DOMAIN st
  <2>2. CASE id = J.id
    BY <1>2, <2>2 DEF Kin
  <2>3. CASE id # J.id
    BY <1>2, <2>3, OlderSelf
  <2>4. QED
    BY <2>2, <2>3
<1>4. ASSUME NEW c \in DOMAIN t, c <= size, t[c].pnode # NoNode
      PROVE  t[c].state = "COMPLETED" \/ t[t[c].parent].children[t[c].pnode] = c
  <2>1. PICK p, n : p = st[c].parent /\ n = st[c].pnode
    OBVIOUS
  <2>2. c \in DOMAIN st /\ t[c].parent = p /\ t[c].pnode = n /\ st[c].pnode # NoNode
    BY <1>2, <1>3, <1>4, <2>1
  <2>3. p \in DOMAIN st /\ n \in DOMAIN st[p].children /\ c # 0
    <3>1. p \in DOMAIN st
      BY <2>1, <2>2, ParentStored
    <3>2. n \in DOMAIN st[p].children
      BY <2>1, <2>2 DEF Placed
    <3>3. c # 0
      BY <2>2, SeqDomain DEF Stored
    <3>4. QED
      BY <3>1, <3>2, <3>3
  <2>4. CASE st[c].state = "COMPLETED"
    BY <1>3, <2>2, <2>4 DEF Older
  <2>5. CASE st[p].children[n] = c
    <3>1. t[p].children[n] = c
      BY <1>3, <2>3, <2>5 DEF Older
    <3>2. QED
      BY <2>2, <3>1
  <2>6. QED
    BY <1>4, <2>1, <2>2, <2>4, <2>5 DEF Registered
<1>5. QED
  BY <1>1, <1>4 DEF Registered

LEMMA RegisteredAppend ==
  ASSUME NEW st, Stored(st), NEW size \in Nat, size <= Len(st), Registered(st, size),
         NEW I, Inst(I), I.id = Len(st) + 1
  PROVE  Registered(Append(st, I), size)
<1>1. PICK t : t = Append(st, I)
  OBVIOUS
<1>2. DOMAIN t = DOMAIN st \cup {I.id} /\ \A id \in DOMAIN st : t[id] = st[id]
  BY <1>1, StoredAppend
<1>3. Len(st) \in Nat
  BY SeqDomain DEF Stored
<1>4. ASSUME NEW c \in DOMAIN t, c <= size, t[c].pnode # NoNode
      PROVE  t[c].state = "COMPLETED" \/ t[t[c].parent].children[t[c].pnode] = c
  <2>1. c \in DOMAIN st /\ t[c] = st[c]
    BY <1>2, <1>3, <1>4
  <2>2. st[c].parent \in DOMAIN st
    BY <1>4, <2>1, ParentStored
  <2>3. t[t[c].parent] = st[st[c].parent]
    BY <1>2, <2>1, <2>2
  <2>4. QED
    BY <1>4, <2>1, <2>3 DEF Registered
<1>5. QED
  BY <1>1, <1>4 DEF Registered

-----------------------------------------------------------------------------
(* Every node leads to END (K3), so when END is finished, all are.         *)
LEMMA LeadsToEnd ==
  ASSUME NEW S, IsFiniteSet(DOMAIN S.kind), K3(S)
  PROVE  Closes(DOMAIN S.kind, DOMAIN S.kind,
                [m \in DOMAIN S.kind |-> Preds(S, m)], NodesOfKind(S, "END"))
<1> DEFINE IsSearch(r) ==
      r = [k \in Nat |->
             IF k = 0 THEN [seen |-> NodesOfKind(S, "END"), front |-> NodesOfKind(S, "END")]
             ELSE LET q == r[k - 1]
                      new == (UNION {Preds(S, m) : m \in q.front}) \ q.seen
                  IN [seen |-> q.seen \cup new, front |-> new]]
<1>1. PICK N : N = DOMAIN S.kind
  OBVIOUS
<1>2. PICK step : step = [m \in N |-> Preds(S, m)]
  OBVIOUS
<1>3. PICK from : from = NodesOfKind(S, "END")
  OBVIOUS
<1>4. step \in [N -> SUBSET N] /\ from \in SUBSET N
  BY <1>1, <1>2, <1>3 DEF Preds, NodesOfKind
<1>5. ASSUME NEW q, q.front \subseteq N
      PROVE  (UNION {Preds(S, m) : m \in q.front}) \ q.seen = News(step, q)
  BY <1>2, <1>5 DEF News
<1>6. \E r : IsSearch(r)
  <2>1. PICK r \in [Nat -> [seen : SUBSET N, front : SUBSET N]] : Fronts(r, N, step, from)
    BY <1>4, FrontsExist
  <2>2. ASSUME NEW k \in Nat, k # 0
        PROVE  LET q == r[k - 1]
                   new == (UNION {Preds(S, m) : m \in q.front}) \ q.seen
               IN r[k] = [seen |-> q.seen \cup new, front |-> new]
    <3>1. PICK q : q = r[k - 1]
      OBVIOUS
    <3>2. k - 1 \in Nat /\ (k - 1) + 1 = k
      BY <2>2
    <3>3. q.front \subseteq N
      BY <2>1, <3>1, <3>2
    <3>4. r[k] = [seen |-> q.seen \cup News(step, q), front |-> News(step, q)]
      BY <2>1, <3>1, <3>2, <3>3 DEF Fronts
    <3>5. QED
      BY <1>5, <3>1, <3>3, <3>4
  <2>3. r[0] = [seen |-> NodesOfKind(S, "END"), front |-> NodesOfKind(S, "END")]
    BY <1>3, <2>1 DEF Fronts
  <2>4. r = [k \in Nat |-> r[k]]
    BY <2>1
  <2>5. IsSearch(r)
    BY <2>2, <2>3, <2>4
  <2>6. QED
    BY <2>5
<1> DEFINE r == CHOOSE r : IsSearch(r)
<1> HIDE DEF IsSearch
<1>7. IsSearch(r)
  BY <1>6
<1> USE DEF IsSearch
<1>8. r[Cardinality(N)].seen = N
  BY <1>1 DEF K3, Closure
<1> HIDE DEF r
<1>9. Fronts(r, N, step, from)
  <2>1. r[0] = [seen |-> from, front |-> from]
    BY <1>3, <1>7
  <2>2. ASSUME NEW k \in Nat, r[k].front \subseteq N
        PROVE  r[k + 1] = [seen |-> r[k].seen \cup News(step, r[k]), front |-> News(step, r[k])]
    <3>1. PICK q : q = r[k]
      OBVIOUS
    <3>2. k + 1 \in Nat /\ (k + 1) - 1 = k /\ k + 1 # 0
      OBVIOUS
    <3>3. PICK new : new = (UNION {Preds(S, m) : m \in q.front}) \ q.seen
      OBVIOUS
    <3>4. r[k + 1] = [seen |-> q.seen \cup new, front |-> new]
      <4>1. PICK h : h = k + 1
        OBVIOUS
      <4>2. h \in Nat /\ h # 0 /\ h - 1 = k
        BY <3>2, <4>1
      <4>3. r[h] = LET p == r[h - 1]
                       more == (UNION {Preds(S, m) : m \in p.front}) \ p.seen
                   IN [seen |-> p.seen \cup more, front |-> more]
        BY <1>7, <4>2, Zenon
      <4>4. QED
        BY <3>1, <3>3, <4>1, <4>2, <4>3
    <3>5. QED
      BY <1>5, <2>2, <3>1, <3>3, <3>4
  <2>3. QED
    BY <2>1, <2>2 DEF Fronts
<1>10. Closes(N, N, step, from)
  BY <1>1, <1>4, <1>8, <1>9, FrontsClosed
<1>11. QED
  BY <1>1, <1>2, <1>3, <1>10

LEMMA AllFinished ==
  ASSUME NEW S, Drawn(S), NEW I, DOMAIN I.ns = NodesOf(S), Grown(S, I), I.state = "COMPLETED",
         NEW n \in NodesOf(S)
  PROVE  I.ns[n] \in Terminal
<1> DEFINE N == NodesOf(S)
           done == {m \in N : I.ns[m] \in Terminal}
           step == [m \in N |-> Preds(S, m)]
<1>1. Closes(N, N, step, NodesOfKind(S, "END"))
  BY LeadsToEnd DEF Drawn, Valid, NodesOf
<1>2. NodesOfKind(S, "END") \subseteq done
  BY DEF Grown, NodesOfKind, NodesOf
<1>3. ASSUME NEW m \in done PROVE step[m] \subseteq done
  <2>1. SUFFICES ASSUME NEW p \in Preds(S, m) PROVE p \in done
    OBVIOUS
  <2>2. PICK e \in Into(S, m) : e[1] = p /\ p \in N
    BY DEF Preds, NodesOf
  <2>3. e \in S.edges /\ e[2] = m
    BY DEF Into
  <2>4. I.ns[m] # "NOT_ACTIVATED"
    BY DEF Terminal
  <2>5. QED
    BY <2>2, <2>3, <2>4 DEF Grown
<1> HIDE DEF done
<1>4. N \subseteq done
  BY <1>1, <1>2, <1>3 DEF Closes
<1>5. QED
  BY <1>4 DEF done

-----------------------------------------------------------------------------
(* An instance that has not completed and that its parent knows of is one  *)
(* its parent waits for.                                                   *)
LEMMA ClaimedIf ==
  ASSUME NEW st, Stored(st), Placed(st), AllSound(st), NEW c \in DOMAIN st,
         st[c].state # "COMPLETED",
         st[c].pnode # NoNode => st[st[c].parent].children[st[c].pnode] = c
  PROVE  Claimed(st, st[c])
<1>1. SUFFICES ASSUME st[c].pnode # NoNode
               PROVE  /\ st[st[c].parent].children[st[c].pnode] = st[c].id
                      /\ st[st[c].parent].ns[st[c].pnode] = "RUNNING"
  BY DEF Claimed
<1>2. PICK p, n : p = st[c].parent /\ n = st[c].pnode
  OBVIOUS
<1>3. p \in DOMAIN st /\ n \in DOMAIN st[p].children /\ c # 0 /\ st[c].id = c
  <2>1. p \in DOMAIN st
    BY <1>1, <1>2, ParentStored
  <2>2. n \in DOMAIN st[p].children
    BY <1>1, <1>2 DEF Placed
  <2>3. c # 0
    BY SeqDomain DEF Stored
  <2>4. QED
    BY <2>1, <2>2, <2>3 DEF Stored
<1>4. st[p].children[n] = c
  BY <1>1, <1>2
<1>5. Tends(Effective(st[p]), st[p], st, n)
  BY <1>3, <1>4 DEF AllSound, Sound, Tended
<1>6. st[p].ns[n] = "RUNNING"
  BY <1>4, <1>5 DEF Tends
<1>7. QED
  BY <1>2, <1>3, <1>4, <1>6

LEMMA StandingAnswer ==
  ASSUME NEW st, AllSound(st), NEW what, Answer(st, what)
  PROVE  Standing'
BY DEF Answer, Standing

LEMMA StandingCreate ==
  ASSUME Shape, Standing, call # Idle, NEW F, F.i = call.i, F.task = call.task, F.pc = call.pc,
         NEW I, Inst(I), I.id = Len(store) + 1, Sound(I, store), Create(F, I)
  PROVE  Standing'
<1>1. PICK st : st = Append(store, I)
  OBVIOUS
<1>2. PICK d : d = Begin("create", I)
  OBVIOUS
<1>3. PICK as : as = Append(callers, F)
  OBVIOUS
<1>4. store' = st /\ call' = d /\ callers' = as /\ past' = past
  BY <1>1, <1>2, <1>3 DEF Create
<1>5. AllSound(store) /\ AllStand(store, call, callers) /\ Registered(store, Len(past))
  BY DEF Standing
<1>6. /\ DOMAIN st = DOMAIN store \cup {I.id} /\ st[I.id] = I
      /\ \A id \in DOMAIN store : st[id] = store[id]
  BY <1>1, CallIs, StoredAppend
<1>7. AllSound(st) /\ Later(store, st)
  BY <1>1, <1>5, CallIs, SoundAppend
<1>8. Registered(st, Len(past))
  BY <1>1, <1>5, CallIs, RegisteredAppend
<1>9. Stands(d, st)
  <2>1. d.i = I /\ d.pc = "visit" /\ d.task = "create"
    BY <1>2 DEF Begin
  <2>2. Sound(I, st) /\ Kept(st[I.id], I)
    BY <1>6, <1>7, SoundLater, KeptSelf
  <2>3. QED
    BY <2>1, <2>2 DEF Stands
<1>10. ASSUME NEW G, Frame(G, store), Stands(G, store) PROVE Stands(G, st)
  <2>1. G.i.id \in DOMAIN store /\ Kin(store[G.i.id], G.i) /\ Inst(G.i)
    BY <1>10 DEF Frame
  <2>2. G.i.pnode # NoNode => G.i.parent \in DOMAIN store
    <3>1. store[G.i.id].pnode = G.i.pnode /\ store[G.i.id].parent = G.i.parent
      BY <2>1 DEF Kin
    <3>2. QED
      BY <2>1, <3>1, CallIs, ParentStored
  <2>3. QED
    BY <1>6, <1>7, <1>10, <2>1, <2>2, StandsLater
<1>11. Stands(F, st)
  <2>1. Stands(call, st)
    BY <1>5, <1>10, CallIs DEF AllStand
  <2>2. QED
    BY <2>1 DEF Stands
<1>12. \A k \in DOMAIN as : Stands(as[k], st)
  <2>1. /\ DOMAIN as = DOMAIN callers \cup {Len(callers) + 1}
        /\ (\A k \in DOMAIN callers : as[k] = callers[k]) /\ as[Len(callers) + 1] = F
    BY <1>3, CallIs, SeqAppend
  <2>2. \A k \in DOMAIN callers : Stands(callers[k], st)
    BY <1>5, <1>10, CallIs DEF AllStand, Working
  <2>3. QED
    BY <1>11, <2>1, <2>2
<1>13. QED
  BY <1>4, <1>7, <1>8, <1>9, <1>12 DEF Standing, AllStand

LEMMA RecordedOlder ==
  ASSUME Recording, call # Idle
  PROVE  Placed(store) /\ Older(store[call.i.id], call.i)
BY DEF Recording, Recorded, Olders

(* The instance a function works on, put back into the store.              *)
LEMMA StandingPut ==
  ASSUME Shape, Recording, Standing, call # Idle, NEW st, st = PutIn(store, call.i)
  PROVE  /\ AllStand(st, call, callers) /\ Registered(st, Len(past)) /\ Placed(st)
         /\ Stored(st) /\ Working(st, call, callers, Len(past)) /\ st[call.i.id] = call.i
<1>1. AllStand(store, call, callers) /\ Registered(store, Len(past))
  BY DEF Standing
<1>2. Placed(store) /\ Older(store[call.i.id], call.i)
  BY RecordedOlder
<1>3. /\ Stored(st) /\ Working(st, call, callers, Len(past)) /\ Placed(st)
  BY CallIs, RecordedPut DEF Recording
<1>4. AllStand(st, call, callers) /\ st[call.i.id] = call.i
  BY <1>1, <1>2, CallIs, StandPut
<1>5. Registered(st, Len(past))
  BY <1>1, <1>2, CallIs, RegisteredPut
<1>6. QED
  BY <1>3, <1>4, <1>5

LEMMA StandingReturn ==
  ASSUME Shape, Recording, Marking, Standing, call # Idle, Return(call.i)
  PROVE  Standing'
<1>1. PICK st : st = PutIn(store, call.i)
  OBVIOUS
<1>2. /\ AllStand(st, call, callers) /\ Registered(st, Len(past))
      /\ Stored(st) /\ Working(st, call, callers, Len(past)) /\ st[call.i.id] = call.i
  BY <1>1, StandingPut
<1>3. CASE callers = <<>>
  BY <1>1, <1>2, <1>3, StandingAnswer DEF Return, AllStand
<1>4. CASE callers # <<>>
  <2>1. PICK F : F = callers[Len(callers)]
    OBVIOUS
  <2>2. PICK d : d = Resumed(F, call.i)
    OBVIOUS
  <2>3. PICK fs : fs = SubSeq(callers, 1, Len(callers) - 1)
    OBVIOUS
  <2>4. call' = d /\ callers' = fs /\ store' = st /\ past' = past
    BY <1>1, <1>4, <2>1, <2>2, <2>3 DEF Return
  <2>5. PoppedTo(callers, F, fs)
    BY <1>4, <2>1, <2>3, CallIs, AboveFront
  <2>6. Len(callers) \in DOMAIN callers /\ \A k \in DOMAIN fs : k \in DOMAIN callers /\ fs[k] = callers[k]
    BY <2>5 DEF PoppedTo
  <2>7. Frame(F, st) /\ Waits(F) /\ Marks(F) /\ Stands(F, st)
    BY <1>2, <2>1, <2>6 DEF Working, Marking, AllStand
  <2>8. call.i.id \in DOMAIN st
    BY <1>2 DEF Working, Frame
  <2>9. Stands(d, st)
    BY <1>2, <2>2, <2>7, <2>8, ResumedStands
  <2>10. \A k \in DOMAIN fs : Stands(fs[k], st)
    BY <1>2, <2>6 DEF AllStand
  <2>11. QED
    BY <1>2, <2>4, <2>9, <2>10 DEF Standing, AllStand
<1>5. QED
  BY <1>3, <1>4

LEMMA StandingAdvanced ==
  ASSUME Shape, Recording, Standing, call # Idle, Advanced(call), call.i.state = "COMPLETED"
  PROVE  Standing'
<1>1. PICK d : d = [call EXCEPT !.pc = "follow", !.k = 1]
  OBVIOUS
<1>2. PICK st : st = IF call.task = "create" THEN store ELSE PutIn(store, call.i)
  OBVIOUS
<1>3. call' = d /\ store' = st /\ callers' = callers /\ past' = past
  BY <1>1, <1>2 DEF Advanced
<1>4. AllStand(st, call, callers) /\ Registered(st, Len(past))
  BY <1>2, StandingPut DEF Standing
<1>5. d.i = call.i /\ d.task = call.task
  BY <1>1, CallIs DEF Frame
<1>6. Stands(d, st)
  BY <1>4, <1>5 DEF AllStand, Stands
<1>7. QED
  BY <1>3, <1>4, <1>6 DEF Standing, AllStand

(* A child joins the parent that waits for it, which has not completed:    *)
(* a node that runs is not finished.                                       *)
LEMMA StandingFollowed ==
  ASSUME Shape, Recording, Marking, Standing, ParentsPlain,
         call # Idle, call.pc = "follow", Followed(call)
  PROVE  Standing'
<1>1. CASE Return(call.i)
  BY <1>1, StandingReturn
<1>2. ASSUME callers' = <<>>, past' = past, store' = PutIn(store, call.i),
             NEW P, NEW J, JoinsOf(call, P, J), call' = Begin("join", J)
      PROVE  Standing'
  <2>1. PICK st, d : st = PutIn(store, call.i) /\ d = Begin("join", J)
    OBVIOUS
  <2>2. PICK n, S : n = call.i.pnode /\ S = Schemas[P.schema]
    OBVIOUS
  <2>3. /\ AllStand(st, call, callers) /\ Registered(st, Len(past)) /\ Placed(st)
        /\ Stored(st) /\ st[call.i.id] = call.i
    BY <2>1, StandingPut
  <2>4. /\ call.task # "create" /\ P = store[call.i.parent] /\ P.id = call.i.parent
        /\ P.id < call.i.id /\ Inst(P) /\ n # NoNode /\ n \in NodesOf(S) /\ S.kind[n] = "SUBPROCESS"
        /\ Moved(S, P, J, n, "COMPLETED") /\ Family(P, J) /\ J.state = P.state
    BY <1>2, <2>2 DEF JoinsOf
  <2>5. call.i.parent \in DOMAIN store /\ call.i.parent # call.i.id /\ call.i.id <= Len(past)
    <3>1. call.i.parent \in DOMAIN store /\ call.i.parent # call.i.id
      BY <2>2, <2>4, CallParent
    <3>2. Inst(call.i) /\ Working(store, call, callers, Len(past)) /\ Len(past) \in Nat
      BY CallIs
    <3>3. call.i.id \in Nat /\ (call.task = "create" <=> call.i.id > Len(past))
      BY <3>2 DEF Inst, Working
    <3>4. QED
      BY <2>4, <3>1, <3>2, <3>3
  <2>6. DOMAIN st = DOMAIN store /\ st[P.id] = P
    BY <2>1, <2>4, <2>5 DEF PutIn
  <2>7. Effective(P) = S /\ Drawn(S)
    <3>1. Kin(store[call.i.id], call.i) /\ call.i.id \in DOMAIN store
      BY CallIs
    <3>2. store[call.i.id].pnode # NoNode /\ store[call.i.id].parent = call.i.parent
      <4>1. call.i.pnode # NoNode
        BY <2>2, <2>4
      <4>2. QED
        BY <3>1, <4>1 DEF Kin
    <3>3. P.own = <<>>
      BY <2>4, <3>1, <3>2 DEF ParentsPlain
    <3>4. Effective(P) = S
      BY <2>2, <3>3 DEF Effective
    <3>5. QED
      BY <2>4, <3>4 DEF Inst
  <2>8. Fit(S, P) /\ Sound(P, st)
    <3>1. Neat(P)
      BY <2>4, <2>5 DEF Marking, AllNeat
    <3>2. QED
      BY <2>3, <2>4, <2>5, <2>6, <2>7, <3>1 DEF Neat, AllStand, AllSound
  <2>9. P.children[n] = call.i.id /\ P.ns[n] = "RUNNING" /\ call.i.state = "COMPLETED"
    BY <2>2, <2>4 DEF Standing, AllStand, Stands, Claimed
  <2>10. P.ns[n] \notin Terminal /\ P.state # "COMPLETED"
    <3>1. P.ns[n] \notin Terminal
      BY <2>9 DEF Terminal
    <3>2. Grown(S, P) /\ DOMAIN P.ns = NodesOf(S)
      BY <2>7, <2>8 DEF Sound, Fit
    <3>3. QED
      BY <2>4, <2>7, <3>1, <3>2, AllFinished
  <2>11. Grown(S, J)
    BY <2>4, <2>7, <2>8, <2>9, <2>10, GrownMoved DEF Sound
  <2>12. Tended(J, st)
    <3>1. st[P.children[n]].state = "COMPLETED"
      BY <2>3, <2>9
    <3>2. QED
      BY <2>4, <2>7, <2>8, <3>1, TendedMoved DEF Sound, Family
  <2>13. J.id = P.id /\ J.pnode = P.pnode /\ J.parent = P.parent /\ Effective(J) = S
    BY <2>4, <2>7, EffectiveKin DEF Moved, Kin
  <2>14. Kept(st[J.id], J)
    BY <2>4, <2>6, <2>7, <2>8, <2>10, <2>13, KeptMoved
  <2>15. Claimed(st, J)
    <3>1. P.id \in DOMAIN st /\ P.id <= Len(past)
      <4>1. P.id \in Nat /\ call.i.id \in Nat /\ Len(past) \in Nat
        BY <2>4, CallIs DEF Inst
      <4>2. QED
        BY <2>4, <2>5, <2>6, <4>1
    <3>2. st[P.id].pnode # NoNode => st[st[P.id].parent].children[st[P.id].pnode] = P.id
      BY <2>3, <2>6, <2>10, <3>1 DEF Registered
    <3>3. Claimed(st, st[P.id])
      BY <2>3, <2>6, <2>10, <3>1, <3>2, ClaimedIf DEF AllStand
    <3>4. QED
      BY <2>6, <2>13, <3>3 DEF Claimed
  <2>16. d.i = J /\ d.pc = "visit"
    BY <2>1 DEF Begin
  <2>17. Stands(d, st)
    BY <2>11, <2>12, <2>13, <2>14, <2>15, <2>16 DEF Stands, Sound
  <2>18. QED
    BY <1>2, <2>1, <2>3, <2>17 DEF Standing, AllStand
<1>3. QED
  BY <1>1, <1>2, FollowedIs

(* Between calls every instance that runs is known to its parent: none was *)
(* left behind by a call that raised.                                      *)
NoOrphans == call = Idle => \A c \in Unrecorded(store) : store[c].state = "COMPLETED"

LEMMA AllRegistered ==
  ASSUME NoOrphans, call = Idle, NEW size
  PROVE  Registered(store, size)
BY DEF NoOrphans, Unrecorded, Registered

(* A client marks an activity, which has no child.                         *)
LEMMA ClientMoves ==
  ASSUME NEW I, Inst(I), Neat(I), NEW st, Sound(I, st), NEW J, NEW n \in NodesOf(Effective(I)), NEW s,
         Moved(Effective(I), I, J, n, s), Family(I, J), J.state = I.state,
         Effective(I).kind[n] = "ACTIVITY", I.ns[n] \in {"ACTIVATED", "RUNNING"}
  PROVE  Sound(J, st) /\ Kept(I, J)
<1> DEFINE S == Effective(I)
<1>1. Drawn(S) /\ Fit(S, I) /\ Effective(J) = S /\ I.ns[n] \notin Terminal
  BY EffectiveKin DEF Inst, Neat, Moved, Terminal
<1>2. Grown(S, I) /\ Tended(I, st)
  BY DEF Sound
<1>3. Grown(S, J)
  BY <1>1, <1>2, GrownMoved
<1>4. ~(n \in DOMAIN I.children /\ I.children[n] # 0)
  BY <1>2 DEF Tended, Tends
<1>5. Tended(J, st)
  BY <1>1, <1>2, <1>4, TendedMoved DEF Family
<1>6. Kept(I, J)
  BY <1>1, KeptMoved
<1>7. QED
  BY <1>1, <1>3, <1>5, <1>6 DEF Sound

LEMMA StandingClient ==
  ASSUME Shape, Recording, Marking, Standing, NoOrphans, ClientCall
  PROVE  Standing'
<1>1. /\ call = Idle /\ callers = <<>> /\ Stored(store) /\ AllNeat(store) /\ Len(store) \in Nat
      /\ AllSound(store) /\ Placed(store)
  BY SeqDomain DEF ClientCall, Shape, Marking, Stored, Standing, Recording
<1>2. ASSUME NEW name \in DOMAIN Schemas, NEW I, I = NewInstance(name, Len(store) + 1, Nothing, 0, NoNode),
             Begins(Begin("create", I), Append(store, I))
      PROVE  Standing'
  <2>1. Inst(I) /\ I.id = Len(store) + 1 /\ Sound(I, store)
    BY <1>2, CreatedAtRoot, NewSound
  <2>2. PICK st, d : st = Append(store, I) /\ d = Begin("create", I)
    OBVIOUS
  <2>3. st[I.id] = I
    BY <1>1, <2>1, <2>2, StoredAppend
  <2>4. AllSound(st) /\ Later(store, st)
    BY <1>1, <2>1, <2>2, SoundAppend
  <2>5. Registered(st, Len(store))
    <3>1. Registered(store, Len(store))
      BY <1>1, AllRegistered
    <3>2. QED
      BY <1>1, <2>1, <2>2, <3>1, RegisteredAppend
  <2>6. Stands(d, st)
    <3>1. d.i = I /\ d.pc = "visit" /\ d.task = "create"
      BY <2>2 DEF Begin
    <3>2. Sound(I, st) /\ Kept(st[I.id], I)
      BY <2>1, <2>3, <2>4, SoundLater, KeptSelf
    <3>3. QED
      BY <3>1, <3>2 DEF Stands
  <2>7. call' = d /\ store' = st /\ callers' = <<>> /\ past' = store
    BY <1>1, <1>2, <2>2 DEF Begins
  <2>8. QED
    BY <2>4, <2>5, <2>6, <2>7 DEF Standing, AllStand
<1>3. ASSUME NEW id \in DOMAIN store, NEW J, Starts(store[id], J), Answer(PutIn(store, J), "ok")
      PROVE  Standing'
  <2>1. PICK I : I = store[id]
    OBVIOUS
  <2>2. Inst(I) /\ I.id = id /\ Neat(I) /\ Sound(I, store)
    BY <1>1, <2>1 DEF Stored, AllNeat, AllSound
  <2>3. PICK n \in NodesOf(Effective(I)) :
          /\ Kin(I, J) /\ Family(I, J) /\ J.state = I.state /\ J.es = I.es
          /\ Effective(I).kind[n] = "ACTIVITY" /\ I.ns[n] = "ACTIVATED"
          /\ J.ns = [I.ns EXCEPT ![n] = "RUNNING"]
    BY <1>3, <2>1 DEF Starts
  <2>4. Moved(Effective(I), I, J, n, "RUNNING")
    BY <2>3 DEF Moved, Marked, Terminal
  <2>5. Sound(J, store)
    BY <2>2, <2>3, <2>4, ClientMoves
  <2>6. Inst(J) /\ J.id = id
    BY <1>3, <2>1, <2>2, StartedInst
  <2>7. AllSound(PutIn(store, J))
    BY <1>1, <2>1, <2>3, <2>5, <2>6, SoundPut
  <2>8. QED
    BY <1>3, <2>7, StandingAnswer
<1>4. ASSUME NEW id \in DOMAIN store, NEW J, Completes(store[id], J), Begins(Begin("complete", J), store)
      PROVE  Standing'
  <2>1. PICK I : I = store[id]
    OBVIOUS
  <2>2. Inst(I) /\ I.id = id /\ Neat(I) /\ Sound(I, store)
    BY <1>1, <2>1 DEF Stored, AllNeat, AllSound
  <2>3. PICK n \in NodesOf(Effective(I)) :
          /\ Effective(I).kind[n] = "ACTIVITY" /\ I.ns[n] \in {"ACTIVATED", "RUNNING"}
          /\ Moved(Effective(I), I, J, n, "COMPLETED") /\ Family(I, J)
          /\ I.state = "RUNNING" /\ J.state = I.state
    BY <1>4, <2>1 DEF Completes
  <2>4. Sound(J, store) /\ Kept(I, J)
    BY <2>2, <2>3, ClientMoves
  <2>5. PICK d : d = Begin("complete", J)
    OBVIOUS
  <2>6. d.i = J /\ d.pc = "visit"
    BY <2>5 DEF Begin
  <2>7. Claimed(store, J)
    <3>1. I.pnode # NoNode => store[I.parent].children[I.pnode] = id
      BY <1>1, <2>1, <2>3 DEF NoOrphans, Unrecorded
    <3>2. Claimed(store, I)
      BY <1>1, <2>1, <2>3, <3>1, ClaimedIf
    <3>3. QED
      BY <2>3, <3>2 DEF Claimed, Moved, Kin
  <2>8. J.id = id
    BY <2>2, <2>3 DEF Moved, Kin
  <2>9. Stands(d, store)
    BY <2>1, <2>4, <2>6, <2>7, <2>8 DEF Stands
  <2>10. Registered(store, Len(store))
    BY <1>1, AllRegistered
  <2>11. call' = d /\ store' = store /\ callers' = <<>> /\ past' = store
    BY <1>1, <1>4, <2>5 DEF Begins
  <2>12. QED
    BY <1>1, <2>9, <2>10, <2>11 DEF Standing, AllStand
<1>5. QED
  BY <1>2, <1>3, <1>4, ClientCallIs

LEMMA StandingEngine ==
  ASSUME Shape, Recording, Marking, Standing, ParentsPlain, NoOrphans, [Next]_vars
  PROVE  Standing'
<1>1. CASE ClientCall
  BY <1>1, StandingClient
<1>2. CASE Visit \/ EvaluateTargets \/ TriggerFollowUps
  <2>1. call # Idle /\ Frame(call, store) /\ Stored(store)
    BY <1>2, StepIs, CallIs
  <2>2. Marks(call) /\ AllStand(store, call, callers) /\ Registered(store, Len(past))
    BY <2>1 DEF Marking, Standing
  <2>3. CASE Raise
    BY <2>2, <2>3, StandingAnswer DEF Raise, AllStand
  <2>4. ASSUME NEW d, Passes(call, d) \/ Works(call, d), Goes(d) PROVE Standing'
    <3>1. Stands(d, store)
      BY <2>1, <2>2, <2>4, PassesStands, WorksStands DEF AllStand
    <3>2. QED
      BY <2>2, <2>4, <3>1 DEF Goes, Standing, AllStand
  <2>5. ASSUME NEW F, NEW I, SpawnsChild(call, F, I), Create(F, I) PROVE Standing'
    <3>1. Inst(I) /\ I.id = Len(store) + 1
      BY <2>1, <2>5, ChildInst
    <3>2. F.i = call.i /\ F.pc = "visit" /\ F.task = call.task /\ call.pc = "visit"
      BY <2>1, <2>5, SpawnsOnward DEF Onward, SpawnsChild
    <3>3. Sound(I, store)
      <4>1. I = Child(SchemaOf(call), call.i, At(F)) /\ Waits(F) /\ SchemaOf(F) = SchemaOf(call)
        BY <2>1, <2>5, SpawnsOnward
      <4>2. SchemaOf(call).bind[At(F)].target \in DOMAIN Schemas
        BY <2>1, <3>2, <4>1, SchemaOfDrawn DEF Waits, Spawns, Frame, Drawn
      <4>3. QED
        BY <4>1, <4>2, NewSound DEF Child
    <3>4. QED
      BY <2>1, <2>5, <3>1, <3>2, <3>3, StandingCreate
  <2>6. ASSUME call.pc = "follow", call.k \in DOMAIN Links(call),
               Create(call, FollowUp(Links(call)[call.k], call.i))
        PROVE  Standing'
    <3>1. PICK I : I = FollowUp(Links(call)[call.k], call.i)
      OBVIOUS
    <3>2. Inst(I) /\ I.id = Len(store) + 1
      BY <2>1, <2>6, <3>1, FollowInst
    <3>3. Links(call)[call.k].target \in DOMAIN Schemas
      BY <2>1, <2>6, SchemaOfDrawn DEF Links, Drawn, Frame
    <3>4. Sound(I, store)
      BY <3>1, <3>3, NewSound DEF FollowUp
    <3>5. QED
      BY <2>1, <2>6, <3>1, <3>2, <3>4, StandingCreate
  <2>7. CASE AtRest(call) /\ call.i.state = "COMPLETED" /\ Advanced(call)
    BY <2>1, <2>7, StandingAdvanced
  <2>8. CASE AtRest(call) /\ call.i.state # "COMPLETED" /\ Return(call.i)
    BY <2>1, <2>8, StandingReturn
  <2>9. CASE call.pc = "follow" /\ Followed(call)
    BY <2>1, <2>9, StandingFollowed
  <2>10. QED
    BY <1>2, <2>3, <2>4, <2>5, <2>6, <2>7, <2>8, <2>9, StepIs
<1>3. CASE UNCHANGED vars
  BY <1>3 DEF vars, Standing
<1>4. QED
  BY <1>1, <1>2, <1>3 DEF Next

-----------------------------------------------------------------------------
(* What a change leaves as it was: the nodes that are finished or worked   *)
(* on, the edges between them, and their signals.                          *)
Honours(I, J) ==
  /\ \A n \in Frozen(I) :
       /\ n \in DOMAIN J.ns /\ n \in NodesOf(Effective(J))
       /\ Effective(J).kind[n] = Effective(I).kind[n]
       /\ I.ns[n] \in Terminal => J.ns[n] = I.ns[n]
  /\ \A e \in EdgesIn(Effective(I), Frozen(I)) :
       e \in Effective(J).edges /\ (I.es[e] # "NOT_SIGNALED" => J.es[e] = I.es[e])

LEMMA KeptHonours ==
  ASSUME NEW I, NEW J, Kin(I, J), Kept(I, J), Fit(Effective(I), I)
  PROVE  Honours(I, J)
<1> DEFINE S == Effective(I)
<1>1. Effective(J) = S /\ DOMAIN I.ns = NodesOf(S) /\ DOMAIN I.es = S.edges
  BY EffectiveKin DEF Fit
<1>2. ASSUME NEW n \in Frozen(I)
      PROVE  n \in DOMAIN J.ns /\ n \in NodesOf(S) /\ (I.ns[n] \in Terminal => J.ns[n] = I.ns[n])
  BY <1>1 DEF Frozen, Kept
<1>3. ASSUME NEW e \in EdgesIn(S, Frozen(I))
      PROVE  e \in S.edges /\ (I.es[e] # "NOT_SIGNALED" => J.es[e] = I.es[e])
  BY <1>1 DEF EdgesIn, Kept
<1>4. QED
  BY <1>1, <1>2, <1>3 DEF Honours

LEMMA HonoursSelf == \A I : DOMAIN I.ns = NodesOf(Effective(I)) => Honours(I, I)
BY DEF Honours, Frozen, EdgesIn

LEMMA FinishedFrozen ==
  ASSUME NEW I, NEW n \in DOMAIN I.ns, I.ns[n] \in Terminal
  PROVE  n \in Frozen(I)
BY DEF Terminal, Frozen

LEMMA InsertsSound ==
  ASSUME NEW I, Inst(I), Neat(I), NEW st, Sound(I, st), NEW J, NEW T, NEW anchor, NEW next, NEW new,
         Inserts(I, J, T, anchor, next, new)
  PROVE  Sound(J, st) /\ Honours(I, J)
<1> DEFINE S == Effective(I)
<1>1. /\ Effective(J) = T /\ Drawn(T) /\ Drawn(S) /\ new \notin NodesOf(S)
      /\ <<anchor, next>> \in S.edges /\ I.ns[next] = "NOT_ACTIVATED"
      /\ J.ns = [n \in DOMAIN I.ns \cup {new} |-> IF n = new THEN "NOT_ACTIVATED" ELSE I.ns[n]]
      /\ J.es = [e \in (DOMAIN I.es \ {<<anchor, next>>}) \cup {<<anchor, new>>, <<new, next>>} |->
                   IF new \in {e[1], e[2]} THEN "NOT_SIGNALED" ELSE I.es[e]]
      /\ NodesOf(T) = NodesOf(S) \cup {new} /\ T.kind[new] = "ACTIVITY"
      /\ \A n \in NodesOf(S) : T.kind[n] = S.kind[n]
      /\ T.edges = (S.edges \ {<<anchor, next>>}) \cup {<<anchor, new>>, <<new, next>>}
      /\ J.state = I.state /\ J.children = I.children
  BY DEF Inserts, Varies, Rewrites, MayInsert, InsertedAs, Inst
<1>2. DOMAIN I.ns = NodesOf(S) /\ DOMAIN I.es = S.edges /\ Grown(S, I) /\ Tended(I, st)
  BY DEF Neat, Fit, Sound
<1>3. /\ DOMAIN J.ns = NodesOf(T)
      /\ J.ns[new] = "NOT_ACTIVATED" /\ \A n \in NodesOf(S) : J.ns[n] = I.ns[n]
  BY <1>1, <1>2
<1>4. \A e \in S.edges : e[1] \in NodesOf(S) /\ e[2] \in NodesOf(S) /\ e[1] # new /\ e[2] # new
  BY <1>1, EdgeEnds
<1>5. next \in NodesOf(S)
  <2>1. PICK e \in S.edges : e = <<anchor, next>>
    BY <1>1
  <2>2. QED
    BY <1>4, <2>1
<1>6. ASSUME NEW e \in T.edges, J.ns[e[2]] # "NOT_ACTIVATED" PROVE J.ns[e[1]] \in Terminal
  <2>1. CASE e \in S.edges
    <3>1. J.ns[e[1]] = I.ns[e[1]] /\ J.ns[e[2]] = I.ns[e[2]]
      BY <1>3, <1>4, <2>1
    <3>2. QED
      BY <1>2, <1>6, <2>1, <3>1 DEF Grown
  <2>2. CASE e = <<anchor, new>>
    BY <1>3, <1>6, <2>2
  <2>3. CASE e = <<new, next>>
    <3>1. e[2] = next /\ J.ns[next] = I.ns[next]
      BY <1>3, <1>5, <2>3
    <3>2. QED
      BY <1>1, <1>6, <3>1
  <2>4. QED
    BY <1>1, <2>1, <2>2, <2>3
<1>7. ASSUME J.state = "COMPLETED", NEW m \in NodesOf(T), T.kind[m] = "END"
      PROVE  J.ns[m] \in Terminal
  <2>1. m \in NodesOf(S) /\ S.kind[m] = "END"
    BY <1>1, <1>7
  <2>2. I.ns[m] \in Terminal
    BY <1>1, <1>2, <1>7, <2>1 DEF Grown
  <2>3. QED
    BY <1>3, <2>1, <2>2
<1>8. ASSUME NEW m \in DOMAIN J.children, J.children[m] # 0 PROVE Tends(T, J, st, m)
  <2>1. Tends(S, I, st, m)
    BY <1>1, <1>2, <1>8 DEF Tended
  <2>2. m \in NodesOf(S)
    BY <2>1 DEF Tends
  <2>3. m \in NodesOf(T) /\ T.kind[m] = S.kind[m] /\ J.ns[m] = I.ns[m]
    BY <1>1, <1>3, <2>2
  <2>4. QED
    BY <1>1, <2>1, <2>3 DEF Tends
<1>9. Sound(J, st)
  BY <1>1, <1>6, <1>7, <1>8 DEF Sound, Grown, Tended
<1>10. ASSUME NEW n \in Frozen(I)
       PROVE  /\ n \in DOMAIN J.ns /\ n \in NodesOf(T) /\ T.kind[n] = S.kind[n]
              /\ J.ns[n] = I.ns[n]
  <2>1. n \in NodesOf(S)
    BY <1>2 DEF Frozen
  <2>2. QED
    BY <1>1, <1>3, <2>1
<1>11. ASSUME NEW e \in EdgesIn(S, Frozen(I)) PROVE e \in T.edges /\ J.es[e] = I.es[e]
  <2>1. e \in S.edges /\ e[2] \in Frozen(I)
    BY DEF EdgesIn
  <2>2. e # <<anchor, next>>
    BY <1>1, <2>1 DEF Frozen
  <2>3. new \notin {e[1], e[2]}
    BY <1>4, <2>1
  <2>4. QED
    BY <1>1, <1>2, <2>1, <2>2, <2>3
<1>12. Honours(I, J)
  BY <1>1, <1>10, <1>11 DEF Honours
<1>13. QED
  BY <1>9, <1>12

LEMMA DeletesSound ==
  ASSUME NEW I, Inst(I), Neat(I), NEW st, Sound(I, st), NEW J, NEW T, NEW n, NEW prev, NEW next,
         Deletes(I, J, T, n, prev, next)
  PROVE  Sound(J, st) /\ Honours(I, J)
<1> DEFINE S == Effective(I)
<1>1. /\ Effective(J) = T /\ Drawn(T) /\ Drawn(S) /\ n \in NodesOf(S) /\ n \notin {prev, next}
      /\ <<prev, n>> \in S.edges /\ <<n, next>> \in S.edges
      /\ S.kind[n] = "ACTIVITY" /\ I.ns[n] = "NOT_ACTIVATED"
      /\ J.ns = [a \in DOMAIN I.ns \ {n} |-> I.ns[a]]
      /\ J.es = [e \in (DOMAIN I.es \ {<<prev, n>>, <<n, next>>}) \cup {<<prev, next>>} |->
                   IF e = <<prev, next>> THEN "NOT_SIGNALED" ELSE I.es[e]]
      /\ NodesOf(T) = NodesOf(S) \ {n}
      /\ \A a \in NodesOf(T) : T.kind[a] = S.kind[a]
      /\ T.edges = {e \in S.edges : n \notin {e[1], e[2]}} \cup {<<prev, next>>}
      /\ J.state = I.state /\ J.children = I.children
  BY DEF Deletes, Varies, Rewrites, MayDelete, DeletedAs, Inst
<1>2. DOMAIN I.ns = NodesOf(S) /\ DOMAIN I.es = S.edges /\ Grown(S, I) /\ Tended(I, st)
  BY DEF Neat, Fit, Sound
<1>3. \A e \in S.edges : e[1] \in NodesOf(S) /\ e[2] \in NodesOf(S)
  BY <1>1, EdgeEnds
<1>4. DOMAIN J.ns = NodesOf(T) /\ \A a \in NodesOf(T) : J.ns[a] = I.ns[a]
  BY <1>1, <1>2
<1>5. I.ns[next] = "NOT_ACTIVATED" /\ next \in NodesOf(T)
  <2>1. PICK f \in S.edges : f = <<n, next>>
    BY <1>1
  <2>2. f[1] = n /\ f[2] = next
    BY <2>1
  <2>3. I.ns[n] \notin Terminal
    BY <1>1 DEF Terminal
  <2>4. I.ns[next] = "NOT_ACTIVATED"
    BY <1>2, <2>2, <2>3 DEF Grown
  <2>5. next \in NodesOf(S)
    BY <1>3, <2>2
  <2>6. QED
    BY <1>1, <2>4, <2>5
<1>6. ASSUME NEW e \in T.edges, J.ns[e[2]] # "NOT_ACTIVATED" PROVE J.ns[e[1]] \in Terminal
  <2>1. CASE e = <<prev, next>>
    <3>1. e[2] = next
      BY <2>1
    <3>2. QED
      BY <1>4, <1>5, <1>6, <3>1
  <2>2. CASE e # <<prev, next>>
    <3>1. e \in S.edges /\ n \notin {e[1], e[2]}
      BY <1>1, <2>2
    <3>2. e[1] \in NodesOf(T) /\ e[2] \in NodesOf(T)
      BY <1>1, <1>3, <3>1
    <3>3. J.ns[e[1]] = I.ns[e[1]] /\ J.ns[e[2]] = I.ns[e[2]]
      BY <1>4, <3>2
    <3>4. QED
      BY <1>2, <1>6, <3>1, <3>3 DEF Grown
  <2>3. QED
    BY <2>1, <2>2
<1>7. ASSUME J.state = "COMPLETED", NEW m \in NodesOf(T), T.kind[m] = "END"
      PROVE  J.ns[m] \in Terminal
  <2>1. m \in NodesOf(S) /\ S.kind[m] = "END"
    BY <1>1, <1>7
  <2>2. I.ns[m] \in Terminal
    BY <1>1, <1>2, <1>7, <2>1 DEF Grown
  <2>3. QED
    BY <1>4, <1>7, <2>2
<1>8. ASSUME NEW m \in DOMAIN J.children, J.children[m] # 0 PROVE Tends(T, J, st, m)
  <2>1. Tends(S, I, st, m)
    BY <1>1, <1>2, <1>8 DEF Tended
  <2>2. m \in NodesOf(S) /\ m # n
    BY <1>1, <2>1 DEF Tends
  <2>3. m \in NodesOf(T) /\ T.kind[m] = S.kind[m] /\ J.ns[m] = I.ns[m]
    BY <1>1, <1>4, <2>2
  <2>4. QED
    BY <1>1, <2>1, <2>3 DEF Tends
<1>9. Sound(J, st)
  BY <1>1, <1>6, <1>7, <1>8 DEF Sound, Grown, Tended
<1>10. n \notin Frozen(I) /\ next \notin Frozen(I)
  BY <1>1, <1>5 DEF Frozen
<1>11. ASSUME NEW m \in Frozen(I)
       PROVE  /\ m \in DOMAIN J.ns /\ m \in NodesOf(T) /\ T.kind[m] = S.kind[m]
              /\ J.ns[m] = I.ns[m]
  <2>1. m \in NodesOf(S) /\ m # n
    BY <1>2, <1>10 DEF Frozen
  <2>2. QED
    BY <1>1, <1>4, <2>1
<1>12. ASSUME NEW e \in EdgesIn(S, Frozen(I)) PROVE e \in T.edges /\ J.es[e] = I.es[e]
  <2>1. e \in S.edges /\ e[1] # n /\ e[2] # n /\ e[2] # next
    BY <1>10 DEF EdgesIn
  <2>2. e \notin {<<prev, n>>, <<n, next>>, <<prev, next>>}
    BY <2>1
  <2>3. QED
    BY <1>1, <1>2, <2>1, <2>2
<1>13. Honours(I, J)
  BY <1>1, <1>11, <1>12 DEF Honours
<1>14. QED
  BY <1>9, <1>13

LEMMA RenamesSound ==
  ASSUME NEW I, Neat(I), NEW st, Sound(I, st), NEW J, Renames(I, J)
  PROVE  Sound(J, st) /\ Honours(I, J)
<1>1. /\ Effective(J) = Effective(I) /\ J.ns = I.ns /\ J.es = I.es /\ J.state = I.state
      /\ J.children = I.children
  BY DEF Renames, Varies, Rewrites
<1>2. Sound(J, st)
  BY <1>1 DEF Sound, Grown, Tended, Tends
<1>3. Honours(I, J)
  BY <1>1 DEF Neat, Fit, Honours, Frozen, EdgesIn
<1>4. QED
  BY <1>2, <1>3

(* What a migration does not look at either: a new edge into a join that   *)
(* has been reached, or into a node that waits with nothing completed in   *)
(* front of it, as a START does that was never left (M3 keeps the edges    *)
(* out of what is completed).                                              *)
Reopened(I, J) ==
  \E e \in Effective(J).edges \ Effective(I).edges :
    /\ e[2] \in DOMAIN I.ns /\ I.ns[e[2]] # "NOT_ACTIVATED"
    /\ \/ Effective(J).kind[e[2]] \in Joins
       \/ /\ e[2] \notin Frozen(I)
          /\ \A f \in Into(Effective(I), e[2]) : I.ns[f[1]] # "COMPLETED"

LEMMA SomeWayIn ==
  ASSUME NEW S, Drawn(S), NEW n \in NodesOf(S), S.kind[n] # "START"
  PROVE  Into(S, n) # {}
<1>1. DegreesOK(S, n)
  BY DEF Drawn, Valid, K2, NodesOf
<1>2. S.kind[n] \in {"END", "ACTIVITY", "SUBPROCESS"} \cup Splits \cup Joins
  BY DEF Drawn, NodeTypes
<1>3. Cardinality(Into(S, n)) = 1 \/ Cardinality(Into(S, n)) >= 2
  BY <1>1, <1>2 DEF DegreesOK
<1>4. Cardinality(Into(S, n)) # 0
  BY <1>3
<1>5. QED
  BY <1>4, FS_EmptySet

(* A node that is finished or worked on keeps the ways into it.            *)
LEMMA FrozenWayIn ==
  ASSUME NEW I, NEW S, NEW T, Drawn(S), Drawn(T), Fit(S, I), Grown(S, I), M2(S, T, I),
         NEW e \in T.edges, e[2] \in Frozen(I), T.kind[e[2]] \notin Joins
  PROVE  e \in S.edges
<1>1. PICK n : n = e[2]
  OBVIOUS
<1>2. DOMAIN I.ns = NodesOf(S)
  BY DEF Fit
<1>3. n \in NodesOf(S) /\ n \in NodesOf(T) /\ T.kind[n] = S.kind[n] /\ I.ns[n] # "NOT_ACTIVATED"
  BY <1>1, <1>2 DEF Frozen, M2
<1>4. e \in Into(T, n)
  BY <1>1 DEF Into
<1>5. T.kind[n] # "START"
  BY <1>3, <1>4, StartHasNoWayIn
<1>6. PICK f : f \in Into(S, n)
  BY <1>3, <1>5, SomeWayIn
<1>7. f \in S.edges /\ f[2] = n /\ f[1] \in NodesOf(S)
  <2>1. f \in S.edges /\ f[2] = n
    BY <1>6 DEF Into
  <2>2. QED
    BY <2>1, EdgeEnds
<1>8. I.ns[f[1]] \in Terminal
  BY <1>3, <1>7 DEF Grown
<1>9. f[1] \in Frozen(I) /\ f[2] \in Frozen(I)
  BY <1>1, <1>2, <1>7, <1>8, FinishedFrozen
<1>10. f \in EdgesIn(S, Frozen(I))
  BY <1>7, <1>9 DEF EdgesIn
<1>11. f \in Into(T, n)
  BY <1>7, <1>10 DEF M2, EdgesIn, Into
<1>12. e = f
  BY <1>1, <1>3, <1>4, <1>11, OneWayIn
<1>13. QED
  BY <1>7, <1>12

(* So does a node that waits behind something completed.                   *)
LEMMA WaitingWayIn ==
  ASSUME NEW I, NEW S, NEW T, Drawn(S), Drawn(T), Fit(S, I), M2(S, T, I), M3(S, T, I),
         NEW e \in T.edges, T.kind[e[2]] \notin Joins,
         NEW f \in Into(S, e[2]), I.ns[f[1]] = "COMPLETED"
  PROVE  e \in S.edges
<1>1. f \in S.edges /\ f[2] = e[2] /\ f[1] \in NodesOf(S) /\ f = <<f[1], f[2]>>
  <2>1. f \in S.edges /\ f[2] = e[2]
    BY DEF Into
  <2>2. QED
    BY <2>1, EdgeEnds
<1>2. f[1] \in DOMAIN I.ns /\ f[1] \in Frozen(I)
  BY <1>1 DEF Fit, Frozen
<1>3. f[1] \in NodesOf(T)
  BY <1>2 DEF M2
<1>4. Succs(S, f[1]) = Succs(T, f[1])
  BY <1>2, <1>3 DEF M3
<1>5. f[2] \in Succs(S, f[1])
  <2>1. f \in OutOf(S, f[1]) /\ f[2] \in DOMAIN S.kind
    BY <1>1, EdgeEnds DEF OutOf, NodesOf
  <2>2. QED
    BY <2>1 DEF Succs
<1>6. f[2] \in Succs(T, f[1])
  BY <1>4, <1>5
<1>7. f \in T.edges
  <2>1. PICK g \in OutOf(T, f[1]) : g[2] = f[2]
    BY <1>6 DEF Succs
  <2>2. g \in T.edges /\ g[1] = f[1]
    BY <2>1 DEF OutOf
  <2>3. g = <<f[1], f[2]>>
    BY <2>1, <2>2, EdgeEnds
  <2>4. QED
    BY <1>1, <2>2, <2>3
<1>8. f \in Into(T, e[2]) /\ e \in Into(T, e[2])
  BY <1>1, <1>7 DEF Into
<1>9. e[2] \in NodesOf(T)
  BY EdgeEnds
<1>10. e = f
  BY <1>8, <1>9, OneWayIn
<1>11. QED
  BY <1>1, <1>10

(* An instance that has completed is all finished, so its END is kept.     *)
LEMMA EndKept ==
  ASSUME NEW I, NEW S, NEW T, Drawn(S), Drawn(T), Fit(S, I), Grown(S, I), M2(S, T, I),
         I.state = "COMPLETED", NEW m \in NodesOf(T), T.kind[m] = "END"
  PROVE  m \in NodesOf(S) /\ I.ns[m] \in Terminal
<1>1. PICK x \in NodesOf(S) : S.kind[x] = "END"
  <2>1. Cardinality(NodesOfKind(S, "END")) = 1
    BY DEF Drawn, Valid, K2
  <2>2. NodesOfKind(S, "END") # {}
    BY <2>1, FS_EmptySet
  <2>3. QED
    BY <2>2 DEF NodesOfKind, NodesOf
<1>2. DOMAIN I.ns = NodesOf(S)
  BY DEF Fit
<1>3. I.ns[x] \in Terminal
  BY <1>1 DEF Grown
<1>4. x \in Frozen(I)
  BY <1>1, <1>2, <1>3, FinishedFrozen
<1>5. x \in NodesOf(T) /\ T.kind[x] = "END"
  BY <1>1, <1>4 DEF M2
<1>6. m = x
  BY <1>5, OneEnd
<1>7. QED
  BY <1>1, <1>3, <1>6

LEMMA MigratesSound ==
  ASSUME NEW I, Inst(I), Neat(I), NEW st, Sound(I, st), NEW J, NEW T, Migrates(I, J, T), ~Reopened(I, J)
  PROVE  Sound(J, st) /\ Honours(I, J)
<1> DEFINE S == Effective(I)
<1>1. /\ Effective(J) = T /\ Drawn(T) /\ Drawn(S)
      /\ J.ns = [n \in NodesOf(T) |-> IF n \in DOMAIN I.ns THEN I.ns[n] ELSE "NOT_ACTIVATED"]
      /\ J.es = [e \in T.edges |-> IF e \in DOMAIN I.es THEN I.es[e] ELSE "NOT_SIGNALED"]
      /\ J.children = [n \in NodesOf(T) \cup DOMAIN I.children |->
                         IF n \in DOMAIN I.children THEN I.children[n] ELSE 0]
      /\ J.state = I.state /\ M2(S, T, I) /\ M3(S, T, I)
  BY DEF Migrates, Rewrites, Inst
<1>2. /\ DOMAIN I.ns = NodesOf(S) /\ DOMAIN I.es = S.edges /\ Fit(S, I) /\ Grown(S, I) /\ Tended(I, st)
  BY DEF Neat, Fit, Sound
<1>3. ASSUME NEW n \in Frozen(I)
      PROVE  /\ n \in DOMAIN J.ns /\ n \in NodesOf(T) /\ T.kind[n] = S.kind[n]
             /\ J.ns[n] = I.ns[n] /\ n \in NodesOf(S)
  <2>1. n \in NodesOf(T) /\ T.kind[n] = S.kind[n] /\ n \in DOMAIN I.ns
    BY <1>1 DEF M2, Frozen
  <2>2. QED
    BY <1>1, <1>2, <2>1
<1>4. ASSUME NEW e \in T.edges, J.ns[e[2]] # "NOT_ACTIVATED" PROVE J.ns[e[1]] \in Terminal
  <2>1. e[1] \in NodesOf(T) /\ e[2] \in NodesOf(T)
    BY <1>1, EdgeEnds
  <2>2. e[2] \in NodesOf(S) /\ I.ns[e[2]] # "NOT_ACTIVATED"
    BY <1>1, <1>2, <1>4, <2>1
  <2>3. e \in S.edges
    <3>1. SUFFICES ASSUME e \notin S.edges PROVE FALSE
      OBVIOUS
    <3>2. /\ T.kind[e[2]] \notin Joins
          /\ e[2] \in Frozen(I) \/ \E f \in Into(S, e[2]) : I.ns[f[1]] = "COMPLETED"
      BY <1>1, <1>2, <2>2, <3>1 DEF Reopened
    <3>3. CASE e[2] \in Frozen(I)
      BY <1>1, <1>2, <3>1, <3>2, <3>3, FrozenWayIn
    <3>4. CASE \E f \in Into(S, e[2]) : I.ns[f[1]] = "COMPLETED"
      BY <1>1, <1>2, <3>1, <3>2, <3>4, WaitingWayIn
    <3>5. QED
      BY <3>2, <3>3, <3>4
  <2>4. I.ns[e[1]] \in Terminal /\ e[1] \in NodesOf(S)
    BY <1>1, <1>2, <2>2, <2>3, EdgeEnds DEF Grown
  <2>5. e[1] \in Frozen(I)
    BY <1>2, <2>4, FinishedFrozen
  <2>6. QED
    BY <1>3, <2>4, <2>5
<1>5. ASSUME J.state = "COMPLETED", NEW m \in NodesOf(T), T.kind[m] = "END"
      PROVE  J.ns[m] \in Terminal
  <2>1. m \in NodesOf(S) /\ I.ns[m] \in Terminal
    BY <1>1, <1>2, <1>5, EndKept
  <2>2. QED
    BY <1>2, <1>3, <2>1, FinishedFrozen
<1>6. ASSUME NEW m \in DOMAIN J.children, J.children[m] # 0 PROVE Tends(T, J, st, m)
  <2>1. m \in DOMAIN I.children /\ J.children[m] = I.children[m]
    BY <1>1, <1>6
  <2>2. Tends(S, I, st, m)
    BY <1>2, <1>6, <2>1 DEF Tended
  <2>3. m \in Frozen(I)
    BY <1>2, <2>2 DEF Tends, Frozen
  <2>4. m \in NodesOf(T) /\ T.kind[m] = S.kind[m] /\ J.ns[m] = I.ns[m]
    BY <1>3, <2>3
  <2>5. QED
    BY <2>1, <2>2, <2>4 DEF Tends
<1>7. Sound(J, st)
  BY <1>1, <1>4, <1>5, <1>6 DEF Sound, Grown, Tended
<1>8. ASSUME NEW e \in EdgesIn(S, Frozen(I)) PROVE e \in T.edges /\ J.es[e] = I.es[e]
  <2>1. e \in EdgesIn(T, Frozen(I)) /\ e \in S.edges
    BY <1>1 DEF M2, EdgesIn
  <2>2. e \in T.edges
    BY <2>1 DEF EdgesIn
  <2>3. QED
    BY <1>1, <1>2, <2>1, <2>2
<1>9. Honours(I, J)
  BY <1>1, <1>3, <1>8 DEF Honours
<1>10. QED
  BY <1>7, <1>9

LEMMA AdaptsSound ==
  ASSUME NEW I, Inst(I), Neat(I), NEW st, Sound(I, st), NEW J, Adapts(I, J)
  PROVE  Sound(J, st) /\ Honours(I, J)
<1>1. CASE Renames(I, J)
  BY <1>1, RenamesSound
<1>2. QED
  BY <1>1, InsertsSound, DeletesSound DEF Adapts

(* What a step makes of an instance honours what it had done.              *)
AllHonoured(st, st2) == \A id \in DOMAIN st : Honours(st[id], st2[id])

LEMMA StandingChange ==
  ASSUME Shape, Marking, Standing, AdhocChange \/ Migration,
         Migration => \A id \in DOMAIN store : ~Reopened(store[id], store'[id])
  PROVE  Standing' /\ AllHonoured(store, store')
<1>1. Stored(store) /\ AllNeat(store) /\ AllSound(store)
  BY DEF Shape, Marking, Standing
<1>2. ASSUME NEW id \in DOMAIN store, NEW J, Inst(J), J.id = id, J.state = store[id].state,
             Sound(J, store), Honours(store[id], J), Answer(PutIn(store, J), "ok")
      PROVE  Standing' /\ AllHonoured(store, store')
  <2>1. AllSound(PutIn(store, J))
    BY <1>1, <1>2, SoundPut
  <2>2. PICK st : st = PutIn(store, J)
    OBVIOUS
  <2>3. st[id] = J /\ \A x \in DOMAIN store : x # id => st[x] = store[x]
    BY <1>1, <1>2, <2>2, StoredSet
  <2>4. ASSUME NEW x \in DOMAIN store PROVE Honours(store[x], st[x])
    <3>1. CASE x = id
      BY <1>2, <2>3, <3>1
    <3>2. CASE x # id
      <4>1. DOMAIN store[x].ns = NodesOf(Effective(store[x]))
        BY <1>1 DEF AllNeat, Neat, Fit
      <4>2. QED
        BY <2>3, <3>2, <4>1, HonoursSelf
    <3>3. QED
      BY <3>1, <3>2
  <2>5. store' = st
    BY <1>2, <2>2 DEF Answer
  <2>6. AllHonoured(store, store')
    BY <2>4, <2>5 DEF AllHonoured
  <2>7. Standing'
    BY <1>2, <2>1, StandingAnswer
  <2>8. QED
    BY <2>6, <2>7
<1>3. CASE AdhocChange
  <2>1. PICK id, J : id \in DOMAIN store /\ Adapts(store[id], J) /\ Answer(PutIn(store, J), "ok")
    BY <1>3, AdhocIs
  <2>2. Inst(store[id]) /\ store[id].id = id /\ Neat(store[id]) /\ Sound(store[id], store)
    BY <1>1, <2>1 DEF Stored, AllNeat, AllSound
  <2>3. Inst(J) /\ J.id = id
    BY <2>1, <2>2, ChangedInst DEF Changes
  <2>4. Sound(J, store) /\ Honours(store[id], J)
    BY <2>1, <2>2, AdaptsSound
  <2>5. J.state = store[id].state
    <3>1. \E T : Varies(store[id], J, T)
      BY <2>1, Zenon DEF Adapts, Inserts, Deletes, Renames
    <3>2. QED
      BY <3>1 DEF Varies, Rewrites
  <2>6. QED
    BY <1>2, <2>1, <2>3, <2>4, <2>5
<1>4. CASE Migration
  <2>1. PICK id, J :
          /\ id \in DOMAIN store
          /\ (\E T : Migrates(store[id], J, T)) /\ Answer(PutIn(store, J), "ok")
    BY <1>4, MigrationIs
  <2>2. Inst(store[id]) /\ store[id].id = id /\ Neat(store[id]) /\ Sound(store[id], store)
    BY <1>1, <2>1 DEF Stored, AllNeat, AllSound
  <2>3. Inst(J) /\ J.id = id
    BY <2>1, <2>2, ChangedInst DEF Changes
  <2>4. store'[id] = J
    <3>1. store' = PutIn(store, J)
      BY <2>1 DEF Answer
    <3>2. PutIn(store, J)[J.id] = J
      BY <1>1, <2>1, <2>3, StoredSet
    <3>3. QED
      BY <2>3, <3>1, <3>2
  <2>5. ~Reopened(store[id], J)
    BY <1>4, <2>1, <2>4
  <2>6. Sound(J, store) /\ Honours(store[id], J)
    BY <2>1, <2>2, <2>5, MigratesSound
  <2>7. J.state = store[id].state
    BY <2>1 DEF Migrates, Rewrites
  <2>8. QED
    BY <1>2, <2>1, <2>3, <2>6, <2>7
<1>5. QED
  BY <1>3, <1>4

LEMMA HonouredStay ==
  ASSUME NEW st, AllNeat(st), NEW st2, \A id \in DOMAIN st : st2[id] = st[id]
  PROVE  AllHonoured(st, st2)
<1>1. ASSUME NEW id \in DOMAIN st PROVE Honours(st[id], st2[id])
  <2>1. DOMAIN st[id].ns = NodesOf(Effective(st[id]))
    BY DEF AllNeat, Neat, Fit
  <2>2. QED
    BY <2>1, HonoursSelf
<1>2. QED
  BY <1>1 DEF AllHonoured

LEMMA HonouredPut ==
  ASSUME NEW st, Stored(st), AllNeat(st), NEW J, Inst(J), J.id \in DOMAIN st,
         Kin(st[J.id], J), Kept(st[J.id], J)
  PROVE  AllHonoured(st, PutIn(st, J))
<1>1. PICK t : t = PutIn(st, J)
  OBVIOUS
<1>2. t[J.id] = J /\ \A id \in DOMAIN st : id # J.id => t[id] = st[id]
  BY <1>1, StoredSet
<1>3. ASSUME NEW id \in DOMAIN st PROVE Honours(st[id], t[id])
  <2>1. Fit(Effective(st[id]), st[id])
    BY DEF AllNeat, Neat
  <2>2. CASE id = J.id
    BY <1>2, <2>1, <2>2, KeptHonours
  <2>3. CASE id # J.id
    BY <1>2, <2>1, <2>3, HonoursSelf DEF Fit
  <2>4. QED
    BY <2>2, <2>3
<1>4. QED
  BY <1>1, <1>3 DEF AllHonoured

LEMMA HonouredCall ==
  ASSUME Shape, Marking, Standing, call # Idle, store' = PutIn(store, call.i)
  PROVE  AllHonoured(store, store')
<1>1. AllNeat(store) /\ Kept(store[call.i.id], call.i)
  BY DEF Marking, Standing, AllStand, Stands
<1>2. AllHonoured(store, PutIn(store, call.i))
  BY <1>1, CallIs, HonouredPut
<1>3. QED
  BY <1>2

LEMMA HonouredAppend ==
  ASSUME Shape, Marking, NEW I, Inst(I), I.id = Len(store) + 1, store' = Append(store, I)
  PROVE  AllHonoured(store, store')
<1>1. Stored(store) /\ AllNeat(store)
  BY DEF Shape, Marking
<1>2. PICK st : st = Append(store, I)
  OBVIOUS
<1>3. \A id \in DOMAIN store : st[id] = store[id]
  BY <1>1, <1>2, StoredAppend
<1>4. AllHonoured(store, st)
  BY <1>1, <1>3, HonouredStay
<1>5. QED
  BY <1>2, <1>4

LEMMA EngineHonours ==
  ASSUME Shape, Marking, Standing, [Next]_vars
  PROVE  AllHonoured(store, store')
<1>1. Stored(store) /\ AllNeat(store) /\ AllSound(store)
  BY DEF Shape, Marking, Standing
<1>2. store' = store => AllHonoured(store, store')
  BY <1>1, HonouredStay
<1>3. CASE ClientCall
  <2>1. ASSUME NEW name \in DOMAIN Schemas, NEW I, I = NewInstance(name, Len(store) + 1, Nothing, 0, NoNode),
               Begins(Begin("create", I), Append(store, I))
        PROVE  AllHonoured(store, store')
    <3>1. Inst(I) /\ I.id = Len(store) + 1
      BY <2>1, CreatedAtRoot
    <3>2. store' = Append(store, I)
      BY <2>1 DEF Begins
    <3>3. QED
      BY <3>1, <3>2, HonouredAppend
  <2>2. ASSUME NEW id \in DOMAIN store, NEW J, Starts(store[id], J), Answer(PutIn(store, J), "ok")
        PROVE  AllHonoured(store, store')
    <3>1. PICK I : I = store[id]
      OBVIOUS
    <3>2. Inst(I) /\ I.id = id /\ Neat(I) /\ Sound(I, store)
      BY <1>1, <3>1 DEF Stored, AllNeat, AllSound
    <3>3. PICK n \in NodesOf(Effective(I)) :
            /\ Kin(I, J) /\ Family(I, J) /\ J.state = I.state /\ J.es = I.es
            /\ Effective(I).kind[n] = "ACTIVITY" /\ I.ns[n] = "ACTIVATED"
            /\ J.ns = [I.ns EXCEPT ![n] = "RUNNING"]
      BY <2>2, <3>1 DEF Starts
    <3>4. Moved(Effective(I), I, J, n, "RUNNING")
      BY <3>3 DEF Moved, Marked, Terminal
    <3>5. Kept(I, J)
      BY <3>2, <3>3, <3>4, ClientMoves
    <3>6. Inst(J) /\ J.id = id
      BY <2>2, <3>1, <3>2, StartedInst
    <3>7. AllHonoured(store, PutIn(store, J))
      BY <1>1, <3>1, <3>3, <3>5, <3>6, HonouredPut
    <3>8. QED
      BY <2>2, <3>7 DEF Answer
  <2>3. ASSUME NEW J, Begins(Begin("complete", J), store) PROVE AllHonoured(store, store')
    BY <1>2, <2>3 DEF Begins
  <2>4. QED
    BY <1>3, <2>1, <2>2, <2>3, ClientCallIs
<1>4. CASE Visit \/ EvaluateTargets \/ TriggerFollowUps
  <2>1. call # Idle /\ Frame(call, store)
    BY <1>4, StepIs, CallIs
  <2>2. CASE Raise
    BY <1>2, <2>2 DEF Raise, Answer
  <2>3. ASSUME NEW d, Goes(d) PROVE AllHonoured(store, store')
    BY <1>2, <2>3 DEF Goes
  <2>4. ASSUME NEW F, NEW I, SpawnsChild(call, F, I), Create(F, I) PROVE AllHonoured(store, store')
    <3>1. Inst(I) /\ I.id = Len(store) + 1
      BY <1>1, <2>1, <2>4, ChildInst
    <3>2. store' = Append(store, I)
      BY <2>4 DEF Create
    <3>3. QED
      BY <3>1, <3>2, HonouredAppend
  <2>5. ASSUME call.pc = "follow", call.k \in DOMAIN Links(call),
               Create(call, FollowUp(Links(call)[call.k], call.i))
        PROVE  AllHonoured(store, store')
    <3>1. PICK I : I = FollowUp(Links(call)[call.k], call.i)
      OBVIOUS
    <3>2. Inst(I) /\ I.id = Len(store) + 1
      BY <1>1, <2>1, <2>5, <3>1, FollowInst
    <3>3. store' = Append(store, I)
      BY <2>5, <3>1 DEF Create
    <3>4. QED
      BY <3>2, <3>3, HonouredAppend
  <2>6. CASE Advanced(call) /\ call.i.state = "COMPLETED"
    <3>1. store' = store \/ store' = PutIn(store, call.i)
      BY <2>6 DEF Advanced
    <3>2. QED
      BY <1>2, <2>1, <3>1, HonouredCall
  <2>7. CASE Return(call.i)
    <3>1. store' = PutIn(store, call.i)
      BY <2>7 DEF Return, Answer
    <3>2. QED
      BY <2>1, <3>1, HonouredCall
  <2>8. CASE Followed(call)
    <3>1. store' = PutIn(store, call.i)
      BY <2>8 DEF Followed, Return, Answer
    <3>2. QED
      BY <2>1, <3>1, HonouredCall
  <2>9. QED
    BY <1>4, <2>2, <2>3, <2>4, <2>5, <2>6, <2>7, <2>8, StepIs
<1>5. CASE UNCHANGED vars
  BY <1>2, <1>5 DEF vars
<1>6. QED
  BY <1>3, <1>4, <1>5 DEF Next

(* Migrations that open no such way into what has been reached.            *)
NothingReopened ==
  [][Migration => \A id \in DOMAIN store : ~Reopened(store[id], store'[id])]_evars

Consistent == Shape /\ Recording /\ Marking /\ Standing

LEMMA ConsistentInit == EInit => Consistent
<1>1. EInit => Standing
  BY SeqEmpty DEF EInit, Init, Standing, AllSound
<1>2. QED
  BY <1>1, ShapeInit, RecordingInit, MarkingInit DEF Consistent

LEMMA ConsistentStep ==
  ASSUME Consistent, ParentsPlain, NoOrphans, [EngineStep \/ AdhocChange \/ Migration]_evars,
         [Migration => \A id \in DOMAIN store :
            ~Behind(store[id], store'[id]) /\ ~Rejoined(store[id], store'[id])]_evars,
         [Migration => \A id \in DOMAIN store : ~Reopened(store[id], store'[id])]_evars
  PROVE  Consistent' /\ AllHonoured(store, store')
<1>1. Shape /\ Recording /\ Marking /\ Standing
  BY DEF Consistent
<1>2. Shape' /\ Recording'
  BY <1>1, ShapeStep, RecordingStep
<1>3. CASE EngineStep \/ UNCHANGED evars
  <2>1. [Next]_vars
    BY <1>3 DEF EngineStep, evars, vars
  <2>2. QED
    BY <1>1, <1>2, <2>1, MarkingEngine, StandingEngine, EngineHonours DEF Consistent
<1>4. CASE (AdhocChange \/ Migration) /\ ~UNCHANGED evars
  <2>1. /\ Migration => \A id \in DOMAIN store :
             ~Behind(store[id], store'[id]) /\ ~Rejoined(store[id], store'[id])
        /\ Migration => \A id \in DOMAIN store : ~Reopened(store[id], store'[id])
    BY <1>4
  <2>2. Marking'
    BY <1>1, <1>4, <2>1, MarkingChange
  <2>3. Standing' /\ AllHonoured(store, store')
    BY <1>1, <1>4, <2>1, StandingChange
  <2>4. QED
    BY <1>2, <2>2, <2>3 DEF Consistent
<1>5. QED
  BY <1>3, <1>4

LEMMA ConsistentEnds == Consistent => CleanEnd
<1>1. SUFFICES ASSUME Consistent, NEW i \in DOMAIN store, store[i].state = "COMPLETED"
               PROVE  /\ \A n \in DOMAIN store[i].ns : store[i].ns[n] \in Terminal
                      /\ \A n \in Subs(store[i]) : store[i].children[n] # 0 =>
                           store[store[i].children[n]].state = "COMPLETED"
  BY DEF CleanEnd
<1>2. PICK I : I = store[i]
  OBVIOUS
<1>3. PICK S : S = Effective(I)
  OBVIOUS
<1>4. Inst(I) /\ Drawn(S) /\ Fit(S, I) /\ Sound(I, store)
  BY <1>1, <1>2, <1>3 DEF Consistent, Shape, Stored, Marking, AllNeat, Neat, Standing, AllSound, Inst
<1>5. DOMAIN I.ns = NodesOf(S) /\ Grown(S, I) /\ Tended(I, store)
  BY <1>3, <1>4 DEF Fit, Sound
<1>6. \A n \in DOMAIN I.ns : I.ns[n] \in Terminal
  BY <1>1, <1>2, <1>4, <1>5, AllFinished
<1>7. ASSUME NEW n \in Subs(I), I.children[n] # 0 PROVE store[I.children[n]].state = "COMPLETED"
  <2>1. n \in NodesOf(S) /\ S.kind[n] = "SUBPROCESS"
    BY <1>3, <1>5 DEF Subs
  <2>2. n \in DOMAIN I.children
    BY <1>3, <1>4, <2>1 DEF Inst, NodesOfKind, NodesOf
  <2>3. Tends(S, I, store, n)
    BY <1>3, <1>5, <1>7, <2>2 DEF Tended
  <2>4. I.ns[n] = "COMPLETED"
    BY <1>5, <1>6, <2>1, <2>3 DEF Tends, Terminal
  <2>5. QED
    BY <2>3, <2>4 DEF Tends
<1>8. QED
  BY <1>2, <1>6, <1>7

(* "under any reachable end marking every node is COMPLETED or SKIPPED"    *)
(* (execution.py), with its children completed: at every step of a call,   *)
(* whatever was changed ad hoc or migrated before.                         *)
THEOREM CleanEndings ==
  ESpec /\ []ParentsPlain /\ []NoOrphans /\ MigrationsApart /\ NothingReopened => []CleanEnd
<1>1. /\ Consistent /\ ParentsPlain /\ NoOrphans /\ [EngineStep \/ AdhocChange \/ Migration]_evars
      /\ [Migration => \A id \in DOMAIN store :
            ~Behind(store[id], store'[id]) /\ ~Rejoined(store[id], store'[id])]_evars
      /\ [Migration => \A id \in DOMAIN store : ~Reopened(store[id], store'[id])]_evars
      => Consistent'
  BY ConsistentStep
<1>2. QED
  BY <1>1, ConsistentInit, ConsistentEnds, PTL DEF ESpec, MigrationsApart, NothingReopened

(* "the past stays producible" (adhoc.py, migration.py): no step, of the   *)
(* engine or of a change, rewrites what an instance has finished, or takes *)
(* away what it works on.                                                  *)
THEOREM HistoryIsKept ==
  ESpec /\ []ParentsPlain /\ []NoOrphans /\ MigrationsApart /\ NothingReopened => HistoryKept
<1>1. /\ Consistent /\ ParentsPlain /\ NoOrphans /\ [EngineStep \/ AdhocChange \/ Migration]_evars
      /\ [Migration => \A id \in DOMAIN store :
            ~Behind(store[id], store'[id]) /\ ~Rejoined(store[id], store'[id])]_evars
      /\ [Migration => \A id \in DOMAIN store : ~Reopened(store[id], store'[id])]_evars
      => Consistent' /\ [AllHonoured(store, store')]_evars
  BY ConsistentStep
<1>2. QED
  BY <1>1, ConsistentInit, PTL DEF ESpec, MigrationsApart, NothingReopened, HistoryKept, AllHonoured, Honours

-----------------------------------------------------------------------------
(* Nobody waits in vain.  While a call is at work, what counts of an       *)
(* instance is the copy the function on it will store, or what is stored   *)
(* when there is no such function (Copies).  None of these waits for a     *)
(* child that has completed, but for children that already were unheard    *)
(* when the call began, and for one whose function starts its follow-ups   *)
(* and reports when they are started (Tells).                              *)
Longs(I, n, x) ==
  /\ n \in DOMAIN I.ns /\ n \in DOMAIN I.children
  /\ I.ns[n] = "RUNNING" /\ I.children[n] = x
Tells(F, x) == F.i.id = x /\ F.pc = "follow" /\ F.task # "create"
Told(c, cs, x) == Tells(c, x) \/ \E k \in DOMAIN cs : Tells(cs[k], x)
Handled(c, cs, p) == c.i.id = p \/ \E k \in DOMAIN cs : cs[k].i.id = p
Copies(st, c, cs) ==
  {c.i} \cup {cs[k].i : k \in DOMAIN cs} \cup {st[p] : p \in {q \in DOMAIN st : ~Handled(c, cs, q)}}
Awaited(J, x, I) == I.id = J.parent /\ Longs(I, J.pnode, x)
Completed(st) == {x \in DOMAIN st : st[x].pnode # NoNode /\ st[x].state = "COMPLETED"}
Heard(st, c, cs, lost) ==
  \A x \in Completed(st) \ lost :
    Told(c, cs, x) \/ \A I \in Copies(st, c, cs) : ~Awaited(st[x], x, I)

(* A client's own instance is nobody's child.                              *)
Anchored(c, cs) ==
  LET F == IF cs = <<>> THEN c ELSE cs[1]
  IN F.task = "create" => F.i.pnode = NoNode
Hearing ==
  call # Idle => Heard(store, call, callers, Unheard(past)) /\ Anchored(call, callers)

(* A later copy of an instance that waits for nobody new.                  *)
Calmer(I, J) == J.id = I.id /\ \A n, x : x # 0 /\ Longs(J, n, x) => Longs(I, n, x)

LEMMA CalmerSelf == \A I : Calmer(I, I)
BY DEF Calmer

LEMMA CalmerMoved ==
  ASSUME NEW S, NEW I, NEW J, NEW n, NEW s, Moved(S, I, J, n, s), s # "RUNNING",
         J.children = I.children
  PROVE  Calmer(I, J)
<1>1. J.id = I.id /\ J.ns = [I.ns EXCEPT ![n] = s]
  BY DEF Moved, Kin, Marked
<1>2. ASSUME NEW m, NEW x, Longs(J, m, x) PROVE Longs(I, m, x)
  <2>1. m \in DOMAIN I.ns /\ J.ns[m] = "RUNNING"
    BY <1>1, <1>2 DEF Longs
  <2>2. I.ns[m] = "RUNNING"
    BY <1>1, <2>1
  <2>3. QED
    BY <1>2, <2>1, <2>2 DEF Longs
<1>3. QED
  BY <1>1, <1>2 DEF Calmer

LEMMA HeardOnward ==
  ASSUME NEW st, Stored(st), NEW c, NEW d, NEW cs, NEW lost, Heard(st, c, cs, lost),
         Calmer(c.i, d.i), \A x : Tells(c, x) => Tells(d, x)
  PROVE  Heard(st, d, cs, lost)
<1>1. SUFFICES ASSUME NEW x \in Completed(st) \ lost, ~Told(d, cs, x), NEW I \in Copies(st, d, cs),
                      Awaited(st[x], x, I)
               PROVE  FALSE
  BY DEF Heard
<1>2. ~Told(c, cs, x)
  BY <1>1 DEF Told
<1>3. \A K \in Copies(st, c, cs) : ~Awaited(st[x], x, K)
  BY <1>1, <1>2 DEF Heard
<1>4. d.i.id = c.i.id /\ x # 0
  BY SeqDomain DEF Calmer, Stored, Completed
<1>5. CASE I = d.i
  <2>1. Awaited(st[x], x, c.i)
    BY <1>1, <1>4, <1>5 DEF Awaited, Calmer
  <2>2. QED
    BY <1>3, <2>1 DEF Copies
<1>6. CASE I # d.i
  <2>1. I \in Copies(st, c, cs)
    BY <1>1, <1>4, <1>6 DEF Copies, Handled
  <2>2. QED
    BY <1>1, <1>3, <2>1
<1>7. QED
  BY <1>5, <1>6

(* The copy of the function at work is stored.                             *)
LEMMA HeardPut ==
  ASSUME NEW st, Stored(st), NEW c, NEW cs, NEW lost, Heard(st, c, cs, lost),
         Inst(c.i), c.i.id \in DOMAIN st, Kin(st[c.i.id], c.i), NEW st2, st2 = PutIn(st, c.i)
  PROVE  Heard(st2, c, cs, lost \cup {c.i.id})
<1>1. /\ DOMAIN st2 = DOMAIN st /\ st2[c.i.id] = c.i
      /\ \A id \in DOMAIN st : id # c.i.id => st2[id] = st[id]
  BY StoredPut
<1>2. SUFFICES ASSUME NEW x \in Completed(st2) \ (lost \cup {c.i.id}), ~Told(c, cs, x),
                      NEW I \in Copies(st2, c, cs)
               PROVE  ~Awaited(st2[x], x, I)
  BY DEF Heard
<1>3. st2[x] = st[x] /\ x \in Completed(st) \ lost
  BY <1>1, <1>2 DEF Completed
<1>4. I \in Copies(st, c, cs)
  <2>1. SUFFICES ASSUME NEW p \in DOMAIN st2, ~Handled(c, cs, p) PROVE st2[p] = st[p] /\ p \in DOMAIN st
    BY DEF Copies
  <2>2. QED
    BY <1>1, <2>1 DEF Handled
<1>5. QED
  BY <1>2, <1>3, <1>4 DEF Heard

(* A new instance is stored and advanced.                                  *)
LEMMA HeardPush ==
  ASSUME NEW st, Stored(st), NEW c, NEW cs, IsSeq(cs), NEW size, Working(st, c, cs, size),
         NEW lost, Heard(st, c, cs, lost), Anchored(c, cs),
         NEW F, F.i = c.i, F.pc = c.pc, F.task = c.task,
         NEW I, Inst(I), I.id = Len(st) + 1, I.state # "COMPLETED",
         NEW st2, st2 = Append(st, I), NEW d, d = Begin("create", I), NEW as, as = Append(cs, F)
  PROVE  Heard(st2, d, as, lost) /\ Anchored(d, as)
<1>1. /\ DOMAIN st2 = DOMAIN st \cup {I.id} /\ I.id \notin DOMAIN st
      /\ st2[I.id] = I /\ \A id \in DOMAIN st : st2[id] = st[id]
  BY StoredAppend
<1>2. /\ DOMAIN as = DOMAIN cs \cup {Len(cs) + 1} /\ Len(cs) + 1 \notin DOMAIN cs
      /\ \A k \in DOMAIN cs : as[k] = cs[k]
      /\ as[Len(cs) + 1] = F
  BY AboveAppend DEF PushedOn
<1>3. d.i = I
  BY DEF Begin
<1>4. c.i.id \in DOMAIN st /\ \A k \in DOMAIN cs : cs[k].i.id \in DOMAIN st
  BY DEF Working, Frame
<1>5. \A p \in DOMAIN st : Handled(d, as, p) <=> Handled(c, cs, p)
  BY <1>1, <1>2, <1>3 DEF Handled
<1>6. Heard(st2, d, as, lost)
  <2>1. SUFFICES ASSUME NEW x \in Completed(st2) \ lost, ~Told(d, as, x), NEW K \in Copies(st2, d, as),
                        Awaited(st2[x], x, K)
                 PROVE  FALSE
    BY DEF Heard
  <2>2. x \in Completed(st) \ lost /\ st2[x] = st[x]
    BY <1>1, <2>1 DEF Completed
  <2>3. ~Told(c, cs, x)
    <3>1. ASSUME Tells(c, x) PROVE FALSE
      <4>1. Tells(as[Len(cs) + 1], x)
        BY <1>2, <3>1 DEF Tells
      <4>2. QED
        BY <1>2, <2>1, <4>1 DEF Told
    <3>2. QED
      BY <1>2, <2>1, <3>1 DEF Told
  <2>4. st[x].parent \in DOMAIN st
    BY <2>2, ParentStored DEF Completed
  <2>5. K.id # I.id
    BY <1>1, <2>1, <2>2, <2>4 DEF Awaited
  <2>6. K \in Copies(st, c, cs)
    <3>1. CASE K \in {as[k].i : k \in DOMAIN as}
      <4>1. PICK k \in DOMAIN as : K = as[k].i
        BY <3>1
      <4>2. QED
        BY <1>2, <4>1 DEF Copies
    <3>2. CASE K \in {st2[p] : p \in {q \in DOMAIN st2 : ~Handled(d, as, q)}}
      <4>1. PICK p \in DOMAIN st2 : K = st2[p] /\ ~Handled(d, as, p)
        BY <3>2
      <4>2. p # I.id
        BY <1>3, <4>1 DEF Handled
      <4>3. p \in DOMAIN st /\ K = st[p] /\ ~Handled(c, cs, p)
        BY <1>1, <1>5, <4>1, <4>2
      <4>4. QED
        BY <4>3 DEF Copies
    <3>3. QED
      BY <1>3, <2>1, <2>5, <3>1, <3>2 DEF Copies
  <2>7. QED
    BY <2>1, <2>2, <2>3, <2>6 DEF Heard
<1>7. Anchored(d, as)
  <2>1. /\ Len(cs) \in Nat /\ DOMAIN cs = 1 .. Len(cs) /\ as # <<>>
    <3>1. Len(cs) + 1 \in DOMAIN as
      BY <1>2
    <3>2. QED
      BY <3>1, SeqDomain, SeqEmpty
  <2>2. CASE cs = <<>>
    <3>1. as[1] = F
      BY <1>2, <2>2, SeqEmpty
    <3>2. QED
      BY <2>1, <2>2, <3>1 DEF Anchored
  <2>3. CASE cs # <<>>
    <3>1. as[1] = cs[1]
      <4>1. 1 \in DOMAIN cs
        BY <2>3, AboveFront, <2>1 DEF PoppedTo
      <4>2. QED
        BY <1>2, <4>1
    <3>2. QED
      BY <2>1, <2>3, <3>1 DEF Anchored
  <2>4. QED
    BY <2>2, <2>3
<1>8. QED
  BY <1>6, <1>7

(* What the function that has waited for C takes up: it waits for nobody   *)
(* new but C, and for C only if that has not completed.                    *)
Takes(F, C, J) ==
  \A n, x : x # 0 /\ Longs(J, n, x) =>
    \/ Longs(F.i, n, x)
    \/ x = C.id /\ F.pc = "visit" /\ n = At(F) /\ C.state # "COMPLETED"

LEMMA ResumedTakes ==
  ASSUME NEW F, NEW st, Frame(F, st), Waits(F), NEW C, NEW d, d = Resumed(F, C)
  PROVE  Takes(F, C, d.i)
<1> SUFFICES ASSUME NEW n, NEW x, x # 0, Longs(d.i, n, x)
             PROVE  \/ Longs(F.i, n, x)
                    \/ x = C.id /\ F.pc = "visit" /\ n = At(F) /\ C.state # "COMPLETED"
  BY DEF Takes
<1>1. DOMAIN F.i = Fields
  BY DEF Frame, Inst
<1>2. CASE F.pc = "visit"
  <2>1. Adopts(SchemaOf(F), F.i, d.i, At(F), C)
    BY <1>1, <1>2, ResumedOnward, AdoptIs
  <2>2. PICK s : /\ s = IF C.state = "COMPLETED" THEN "COMPLETED" ELSE "RUNNING"
                 /\ d.i.ns = [F.i.ns EXCEPT ![At(F)] = s]
                 /\ d.i.children = [F.i.children EXCEPT ![At(F)] = C.id]
    BY <2>1 DEF Adopts, Moved, Marked
  <2>3. /\ n \in DOMAIN F.i.ns /\ n \in DOMAIN F.i.children
        /\ d.i.ns[n] = "RUNNING" /\ d.i.children[n] = x
    BY <2>2 DEF Longs
  <2>4. CASE n = At(F)
    BY <1>2, <2>2, <2>3, <2>4
  <2>5. CASE n # At(F)
    BY <2>2, <2>3, <2>5 DEF Longs
  <2>6. QED
    BY <2>4, <2>5
<1>3. CASE F.pc # "visit"
  <2>1. d.i = [F.i EXCEPT !.followups = Append(@, C.id)]
    BY <1>3, ResumedOnward
  <2>2. d.i.ns = F.i.ns /\ d.i.children = F.i.children
    BY <1>1, <2>1 DEF Fields
  <2>3. QED
    BY <2>2 DEF Longs
<1>4. QED
  BY <1>2, <1>3

LEMMA HeardPop ==
  ASSUME NEW st, Stored(st), NEW c, NEW cs, IsSeq(cs), cs # <<>>, NEW size, Working(st, c, cs, size),
         st[c.i.id] = c.i, NEW lost, Heard(st, c, cs, lost \cup {c.i.id}), Anchored(c, cs),
         NEW F, F = cs[Len(cs)], NEW d, d = Resumed(F, c.i),
         NEW fs, fs = SubSeq(cs, 1, Len(cs) - 1)
  PROVE  Heard(st, d, fs, lost) /\ Anchored(d, fs)
<1>1. PoppedTo(cs, F, fs)
  BY AboveFront
<1>2. /\ Len(cs) \in Nat /\ Len(cs) \in DOMAIN cs /\ IsSeq(fs)
      /\ DOMAIN fs = DOMAIN cs \ {Len(cs)} /\ Len(fs) = Len(cs) - 1
      /\ \A k \in DOMAIN fs : fs[k] = cs[k] /\ k \in Nat /\ k > 0 /\ k < Len(cs)
  BY <1>1 DEF PoppedTo
<1>3. Frame(F, st) /\ Waits(F) /\ MadeFor(F, c.i) /\ c.task = "create"
  BY <1>2 DEF Working, Above
<1>4. Onward(F, d) /\ d.pc = F.pc
  BY <1>3, ResumedOnward
<1>5. d.i.id = F.i.id /\ d.i.pnode = F.i.pnode /\ d.task = F.task
  BY <1>4 DEF Onward, Kin
<1>6. c.i.id \in DOMAIN st /\ c.i.id # 0 /\ DOMAIN st = 1 .. Len(st)
  BY SeqDomain DEF Working, Frame, Stored
<1>7. Takes(F, c.i, d.i)
  BY <1>3, ResumedTakes
<1>8. ASSUME NEW x, Told(c, cs, x) PROVE Told(d, fs, x)
  <2>1. ~Tells(c, x)
    BY <1>3 DEF Tells
  <2>2. Tells(F, x) => Tells(d, x)
    BY <1>4, <1>5 DEF Tells
  <2>3. PICK k \in DOMAIN cs : Tells(cs[k], x)
    BY <1>8, <2>1 DEF Told
  <2>4. QED
    BY <1>2, <2>2, <2>3 DEF Told
<1>9. \A p : Handled(d, fs, p) => Handled(c, cs, p)
  BY <1>2, <1>5 DEF Handled
<1>10. ASSUME NEW I \in Copies(st, d, fs) PROVE I = d.i \/ I \in Copies(st, c, cs)
  <2>1. CASE I \in {fs[k].i : k \in DOMAIN fs}
    BY <1>2, <2>1 DEF Copies
  <2>2. CASE I \in {st[p] : p \in {q \in DOMAIN st : ~Handled(d, fs, q)}}
    <3>1. PICK p \in DOMAIN st : I = st[p] /\ ~Handled(d, fs, p)
      BY <2>2
    <3>2. CASE p = c.i.id
      BY <3>1, <3>2 DEF Copies
    <3>3. CASE p # c.i.id
      <4>1. ~Handled(c, cs, p)
        BY <1>2, <1>5, <3>1, <3>3 DEF Handled
      <4>2. QED
        BY <3>1, <4>1 DEF Copies
    <3>4. QED
      BY <3>2, <3>3
  <2>3. QED
    BY <2>1, <2>2 DEF Copies
<1>11. Heard(st, d, fs, lost)
  <2>1. SUFFICES ASSUME NEW x \in Completed(st) \ lost, ~Told(d, fs, x), NEW I \in Copies(st, d, fs),
                        Awaited(st[x], x, I)
                 PROVE  FALSE
    BY DEF Heard
  <2>2. ~Told(c, cs, x) /\ x # 0 /\ x \in DOMAIN st
    BY <1>6, <1>8, <2>1 DEF Completed
  <2>3. CASE x # c.i.id
    <3>1. \A K \in Copies(st, c, cs) : ~Awaited(st[x], x, K)
      BY <2>1, <2>2, <2>3 DEF Heard
    <3>2. I = d.i
      BY <1>10, <2>1, <3>1
    <3>3. Longs(F.i, st[x].pnode, x)
      <4>1. PICK n : n = st[x].pnode /\ Longs(d.i, n, x)
        BY <2>1, <3>2 DEF Awaited
      <4>2. Longs(F.i, n, x)
        BY <1>7, <2>2, <2>3, <4>1 DEF Takes
      <4>3. QED
        BY <4>1, <4>2
    <3>4. Awaited(st[x], x, F.i)
      BY <1>5, <2>1, <3>2, <3>3 DEF Awaited
    <3>5. F.i \in Copies(st, c, cs)
      BY <1>2 DEF Copies
    <3>6. QED
      BY <3>1, <3>4, <3>5
  <2>4. CASE x = c.i.id
    <3>1. /\ c.i.pnode # NoNode /\ c.i.state = "COMPLETED"
          /\ I.id = c.i.parent /\ Longs(I, c.i.pnode, x)
      BY <2>1, <2>4 DEF Completed, Awaited
    <3>2. F.pc = "visit" /\ c.i.parent = F.i.id /\ c.i.pnode = At(F)
      BY <1>3, <3>1 DEF MadeFor
    <3>3. CASE I = d.i
      <4>1. Longs(F.i, At(F), x)
        BY <1>7, <2>2, <3>1, <3>2, <3>3 DEF Takes
      <4>2. F.i.children[At(F)] = 0
        BY <1>3, <3>2 DEF Waits
      <4>3. QED
        BY <2>2, <4>1, <4>2 DEF Longs
    <3>4. CASE I \in {fs[k].i : k \in DOMAIN fs}
      <4>1. PICK k \in DOMAIN fs : I = fs[k].i
        BY <3>4
      <4>2. cs[k].i.id < F.i.id /\ cs[k].i.id \in Nat
        BY <1>2, <1>6 DEF Working, Frame
      <4>3. QED
        BY <1>2, <3>1, <3>2, <4>1, <4>2
    <3>5. CASE I \in {st[p] : p \in {q \in DOMAIN st : ~Handled(d, fs, q)}}
      <4>1. PICK p \in DOMAIN st : I = st[p] /\ ~Handled(d, fs, p)
        BY <3>5
      <4>2. p = F.i.id
        BY <3>1, <3>2, <4>1 DEF Stored
      <4>3. QED
        BY <1>5, <4>1, <4>2 DEF Handled
    <3>6. QED
      BY <2>1, <3>3, <3>4, <3>5 DEF Copies
  <2>5. QED
    BY <2>3, <2>4
<1>12. Anchored(d, fs)
  <2>1. CASE fs = <<>>
    <3>1. Len(cs) = 1
      BY <1>2, <2>1, SeqEmpty
    <3>2. QED
      BY <1>5, <2>1, <3>1 DEF Anchored
  <2>2. CASE fs # <<>>
    <3>1. 1 \in DOMAIN fs
      <4>1. PoppedTo(fs, fs[Len(fs)], SubSeq(fs, 1, Len(fs) - 1))
        BY <1>2, <2>2, AboveFront
      <4>2. Len(fs) \in DOMAIN fs
        BY <4>1 DEF PoppedTo
      <4>3. DOMAIN fs = 1 .. Len(fs) /\ Len(fs) \in Nat
        BY <1>2, SeqDomain
      <4>4. QED
        BY <4>2, <4>3
    <3>2. fs[1] = cs[1]
      BY <1>2, <3>1
    <3>3. QED
      BY <2>2, <3>2 DEF Anchored
  <2>3. QED
    BY <2>1, <2>2
<1>13. QED
  BY <1>11, <1>12

(* At rest, who is unheard is waited for, and the other way round.         *)
LEMMA UnheardAwaited ==
  ASSUME NEW st, Stored(st), Placed(st), AllNeat(st), AllSound(st), NEW x \in Unheard(st)
  PROVE  /\ x \in Completed(st) /\ st[x].parent \in DOMAIN st /\ x # 0
         /\ Awaited(st[x], x, st[st[x].parent])
<1>1. PICK p, n : p = st[x].parent /\ n = st[x].pnode
  OBVIOUS
<1>2. /\ x \in DOMAIN st /\ n # NoNode /\ st[x].state = "COMPLETED"
      /\ st[p].children[n] = x /\ st[p].ns[n] = "RUNNING"
  BY <1>1 DEF Unheard, Unrecorded
<1>3. p \in DOMAIN st /\ n \in DOMAIN st[p].children /\ x # 0 /\ st[p].id = p
  BY <1>1, <1>2, ParentStored, SeqDomain DEF Placed, Stored
<1>4. n \in DOMAIN st[p].ns
  <2>1. Tends(Effective(st[p]), st[p], st, n)
    BY <1>2, <1>3 DEF AllSound, Sound, Tended
  <2>2. QED
    BY <1>3, <2>1 DEF Tends, AllNeat, Neat, Fit
<1>5. Awaited(st[x], x, st[p])
  BY <1>1, <1>2, <1>3, <1>4 DEF Awaited, Longs
<1>6. QED
  BY <1>1, <1>2, <1>3, <1>5 DEF Completed

LEMMA AwaitedUnheard ==
  ASSUME NEW st, NEW x \in Completed(st), Awaited(st[x], x, st[st[x].parent])
  PROVE  x \in Unheard(st)
BY DEF Completed, Awaited, Longs, Unheard, Unrecorded

(* No function works on when a call ends: whoever is unheard then was      *)
(* before, or is the instance the call was about.                          *)
LEMMA HeardAlone ==
  ASSUME NEW st, Stored(st), Placed(st), AllNeat(st), AllSound(st), NEW c, st[c.i.id] = c.i,
         NEW lost, Heard(st, c, <<>>, lost), NEW x \in Unheard(st)
  PROVE  x \in lost \/ x = c.i.id
<1>1. PICK p : p = st[x].parent
  OBVIOUS
<1>2. x \in Completed(st) /\ p \in DOMAIN st /\ Awaited(st[x], x, st[p])
  BY <1>1, UnheardAwaited
<1>3. st[p] \in Copies(st, c, <<>>)
  <2>1. CASE Handled(c, <<>>, p)
    <3>1. p = c.i.id
      BY <2>1, SeqEmpty DEF Handled
    <3>2. QED
      BY <3>1 DEF Copies
  <2>2. CASE ~Handled(c, <<>>, p)
    BY <1>2, <2>2 DEF Copies
  <2>3. QED
    BY <2>1, <2>2
<1>4. x \notin lost => Told(c, <<>>, x)
  BY <1>2, <1>3 DEF Heard
<1>5. QED
  BY <1>4, SeqEmpty DEF Told, Tells

(* An instance whose function starts its follow-ups will report.           *)
LEMMA HeardTold ==
  ASSUME NEW st, NEW c, NEW cs, NEW lost, NEW x, Heard(st, c, cs, lost \cup {x}), Told(c, cs, x)
  PROVE  Heard(st, c, cs, lost)
BY DEF Heard

LEMMA HeardAfresh ==
  ASSUME NEW st, Stored(st), NEW st2, Stored(st2), DOMAIN st \subseteq DOMAIN st2,
         \A x \in DOMAIN st : st2[x] = st[x],
         \A x \in DOMAIN st2 \ DOMAIN st : st2[x].pnode = NoNode,
         NEW d, d.i.id \in DOMAIN st2, Calmer(st2[d.i.id], d.i)
  PROVE  Heard(st2, d, <<>>, Unheard(st))
<1>1. SUFFICES ASSUME NEW x \in Completed(st2) \ Unheard(st), NEW I \in Copies(st2, d, <<>>),
                      Awaited(st2[x], x, I)
               PROVE  FALSE
  BY DEF Heard
<1>2. x \in Completed(st) /\ st2[x] = st[x] /\ x # 0
  BY <1>1, SeqDomain DEF Completed, Stored
<1>3. PICK p : p = st[x].parent
  OBVIOUS
<1>4. p \in DOMAIN st /\ st2[p] = st[p]
  BY <1>2, <1>3, ParentStored DEF Completed
<1>5. CASE I = d.i
  <2>1. d.i.id = p /\ Longs(d.i, st[x].pnode, x)
    BY <1>1, <1>2, <1>3, <1>5 DEF Awaited
  <2>2. Longs(st[p], st[x].pnode, x)
    BY <1>2, <1>4, <2>1 DEF Calmer
  <2>3. Awaited(st[x], x, st[p])
    BY <1>3, <1>4, <2>2 DEF Awaited, Stored
  <2>4. QED
    BY <1>1, <1>2, <1>3, <2>3, AwaitedUnheard
<1>6. CASE I # d.i
  <2>1. PICK q \in DOMAIN st2 : I = st2[q]
    BY <1>1, <1>6, SeqEmpty DEF Copies
  <2>2. q = p
    BY <1>1, <1>2, <1>3, <2>1 DEF Awaited, Stored
  <2>3. Awaited(st[x], x, st[p])
    BY <1>1, <1>2, <1>4, <2>1, <2>2
  <2>4. QED
    BY <1>1, <1>2, <1>3, <2>3, AwaitedUnheard
<1>7. QED
  BY <1>5, <1>6

(* A child that joins its parent is waited for no more.                    *)
LEMMA HeardJoin ==
  ASSUME NEW st, Stored(st), NEW c, c.i.id \in DOMAIN st, st[c.i.id] = c.i, NEW lost,
         Heard(st, c, <<>>, lost \cup {c.i.id}),
         NEW P, P.id \in DOMAIN st, st[P.id] = P, P.id = c.i.parent, P.id # c.i.id,
         NEW J, NEW S, Moved(S, P, J, c.i.pnode, "COMPLETED"), J.children = P.children,
         NEW d, d.i = J
  PROVE  Heard(st, d, <<>>, lost)
<1>1. SUFFICES ASSUME NEW x \in Completed(st) \ lost, NEW I \in Copies(st, d, <<>>),
                      Awaited(st[x], x, I)
               PROVE  FALSE
  BY DEF Heard
<1>2. J.id = P.id /\ J.ns = [P.ns EXCEPT ![c.i.pnode] = "COMPLETED"] /\ Calmer(P, J) /\ x # 0
  <2>1. J.id = P.id /\ J.ns = [P.ns EXCEPT ![c.i.pnode] = "COMPLETED"]
    BY DEF Moved, Kin, Marked
  <2>2. Calmer(P, J)
    BY CalmerMoved
  <2>3. x # 0
    BY <1>1, SeqDomain DEF Completed, Stored
  <2>4. QED
    BY <2>1, <2>2, <2>3
<1>3. ASSUME NEW q \in DOMAIN st PROVE st[q] \in Copies(st, c, <<>>)
  BY SeqEmpty DEF Copies, Handled
<1>4. I = J \/ \E q \in DOMAIN st : I = st[q] /\ q # P.id
  BY <1>2, SeqEmpty DEF Copies, Handled
<1>5. CASE x # c.i.id
  <2>1. ~Told(c, <<>>, x)
    BY <1>5, SeqEmpty DEF Told, Tells
  <2>2. \A K \in Copies(st, c, <<>>) : ~Awaited(st[x], x, K)
    BY <1>1, <1>5, <2>1 DEF Heard
  <2>3. I = J
    BY <1>1, <1>3, <1>4, <2>2
  <2>4. Awaited(st[x], x, P)
    BY <1>1, <1>2, <2>3 DEF Awaited, Calmer
  <2>5. QED
    BY <1>3, <2>2, <2>4
<1>6. CASE x = c.i.id
  <2>1. I.id = P.id /\ Longs(I, c.i.pnode, x)
    BY <1>1, <1>6 DEF Awaited
  <2>2. I = J
    BY <1>4, <2>1 DEF Stored
  <2>3. QED
    BY <1>2, <2>1, <2>2 DEF Longs
<1>7. QED
  BY <1>5, <1>6

LEMMA GoesCalmer ==
  ASSUME NEW c, NEW d, NEW st, Frame(c, st), Passes(c, d) \/ Works(c, d)
  PROVE  Calmer(c.i, d.i) /\ d.task = c.task /\ (\A x : Tells(c, x) => Tells(d, x))
<1>1. CASE Passes(c, d)
  <2>1. Onward(c, d) /\ d.i = c.i /\ (d.pc = "follow" <=> c.pc = "follow")
    BY <1>1, PassesOnward
  <2>2. QED
    BY <2>1, CalmerSelf DEF Onward, Tells
<1>2. CASE Works(c, d)
  <2>1. DOMAIN c = {"task", "pc", "i", "k", "moved"}
    BY DEF Frame
  <2>2. PICK n, J, j : /\ j \in Nat \ {0}
                       /\ d = [c EXCEPT !.i = J, !.k = j, !.moved = TRUE]
                       /\ \/ c.pc = "visit" /\ Visits(SchemaOf(c), c.i, J, n)
                          \/ c.pc = "evaluate" /\ Evaluates(SchemaOf(c), c.i, J, n)
    BY <1>2, Zenon DEF Works
  <2>3. d.i = J /\ d.task = c.task /\ c.pc # "follow"
    BY <2>1, <2>2
  <2>4. PICK s \in {"COMPLETED", "ACTIVATED", "SKIPPED"} :
          Moved(SchemaOf(c), c.i, J, n, s) /\ J.children = c.i.children
    BY <2>2 DEF Visits, Evaluates, Family
  <2>5. Calmer(c.i, J)
    BY <2>4, CalmerMoved
  <2>6. QED
    BY <2>3, <2>5 DEF Tells
<1>3. QED
  BY <1>1, <1>2

LEMMA HearingGoes ==
  ASSUME Shape, Hearing, call # Idle, NEW d, Passes(call, d) \/ Works(call, d), Goes(d)
  PROVE  Hearing' /\ ~Answered
<1>1. Frame(call, store) /\ Stored(store)
  BY CallIs
<1>2. Calmer(call.i, d.i) /\ d.task = call.task /\ \A x : Tells(call, x) => Tells(d, x)
  BY <1>1, GoesCalmer
<1>3. Onward(call, d)
  BY <1>1, PassesOnward, WorksOnward
<1>4. Heard(store, d, callers, Unheard(past))
  BY <1>1, <1>2, HeardOnward DEF Hearing
<1>5. Anchored(d, callers)
  BY <1>2, <1>3 DEF Hearing, Anchored, Onward, Kin
<1>6. d # Idle
  BY <1>3, NotIdle DEF Onward
<1>7. QED
  BY <1>4, <1>5, <1>6 DEF Goes, Hearing, Answered

LEMMA HearingCreate ==
  ASSUME Shape, Hearing, call # Idle, NEW F, F.i = call.i, F.pc = call.pc, F.task = call.task,
         NEW I, Inst(I), I.id = Len(store) + 1, I.state # "COMPLETED", Create(F, I)
  PROVE  Hearing' /\ ~Answered
<1>1. PICK st, d, as, lost : /\ st = Append(store, I) /\ d = Begin("create", I)
                              /\ as = Append(callers, F) /\ lost = Unheard(past)
  OBVIOUS
<1>2. store' = st /\ call' = d /\ callers' = as /\ past' = past
  BY <1>1 DEF Create
<1>3. Heard(store, call, callers, lost) /\ Anchored(call, callers)
  BY <1>1 DEF Hearing
<1>4. PICK size : Working(store, call, callers, size)
  BY CallIs
<1>5. Stored(store) /\ IsSeq(callers)
  BY CallIs
<1>6. \A c, cs : /\ IsSeq(cs) /\ Working(store, c, cs, size) /\ Heard(store, c, cs, lost) /\ Anchored(c, cs)
                 /\ F.i = c.i /\ F.pc = c.pc /\ F.task = c.task
        => Heard(st, d, Append(cs, F), lost) /\ Anchored(d, Append(cs, F))
  BY <1>1, <1>5, HeardPush
<1>7. Heard(st, d, as, lost) /\ Anchored(d, as)
  BY <1>1, <1>3, <1>4, <1>5, <1>6
<1>8. d # Idle
  BY <1>1, NotIdle DEF Begin, Places
<1>9. QED
  BY <1>1, <1>2, <1>7, <1>8 DEF Hearing, Answered

LEMMA HearingPut ==
  ASSUME Shape, Hearing, call # Idle, NEW st, st = PutIn(store, call.i), NEW lost, lost = Unheard(past)
  PROVE  Heard(st, call, callers, lost \cup {call.i.id})
<1>1. /\ Stored(store) /\ Inst(call.i) /\ call.i.id \in DOMAIN store
      /\ Kin(store[call.i.id], call.i) /\ Heard(store, call, callers, lost)
  BY CallIs DEF Hearing
<1>2. QED
  BY <1>1, HeardPut

LEMMA HearingAdvanced ==
  ASSUME Shape, Hearing, call # Idle, Advanced(call), call.i.state = "COMPLETED"
  PROVE  Hearing' /\ ~Answered
<1>1. PICK d, st, lost : /\ d = [call EXCEPT !.pc = "follow", !.k = 1]
                         /\ st = (IF call.task = "create" THEN store ELSE PutIn(store, call.i))
                         /\ lost = Unheard(past)
  OBVIOUS
<1>2. call' = d /\ store' = st /\ callers' = callers /\ past' = past
  BY <1>1 DEF Advanced
<1>3. d.i = call.i /\ d.pc = "follow" /\ d.task = call.task
  BY <1>1, CallIs DEF Frame
<1>4. Calmer(call.i, d.i) /\ \A x : Tells(call, x) => Tells(d, x)
  BY <1>3, CalmerSelf DEF Tells
<1>5. Heard(st, d, callers, lost)
  <2>1. CASE call.task = "create"
    <3>1. Heard(store, call, callers, lost) /\ Stored(store) /\ st = store
      BY <1>1, <2>1, CallIs DEF Hearing
    <3>2. QED
      BY <1>4, <3>1, HeardOnward
  <2>2. CASE call.task # "create"
    <3>1. st = PutIn(store, call.i) /\ Stored(st)
      BY <1>1, <2>2, CallIs, ShapePut
    <3>2. Heard(st, call, callers, lost \cup {call.i.id})
      BY <1>1, <3>1, HearingPut
    <3>3. Heard(st, d, callers, lost \cup {call.i.id})
      BY <1>4, <3>1, <3>2, HeardOnward
    <3>4. Told(d, callers, call.i.id)
      BY <1>3, <2>2 DEF Told, Tells
    <3>5. QED
      BY <3>3, <3>4, HeardTold
  <2>3. QED
    BY <2>1, <2>2
<1>6. Anchored(d, callers)
  BY <1>3 DEF Hearing, Anchored
<1>7. d # Idle
  BY <1>3, NotIdle DEF Places
<1>8. QED
  BY <1>1, <1>2, <1>5, <1>6, <1>7 DEF Hearing, Answered

(* What a client or a parent completes is waited for by a node with a      *)
(* binding, so _propagate_completion finds it.                             *)
LEMMA Reporting ==
  ASSUME Shape, Recording, Standing, ParentsPlain, call # Idle, call.task # "create",
         call.i.pnode # NoNode
  PROVE  Reports(call)
<1>1. PICK p, n, x : p = call.i.parent /\ n = call.i.pnode /\ x = call.i.id
  OBVIOUS
<1>2. /\ x \in DOMAIN store /\ store[x].parent = p /\ store[x].pnode = n /\ n # NoNode
      /\ Inst(call.i) /\ Stored(store)
  BY <1>1, CallIs DEF Kin
<1>3. p \in DOMAIN store /\ n \in DOMAIN store[p].children /\ x # 0 /\ p # 0
  BY <1>2, ParentStored, SeqDomain DEF Recording, Placed, Stored
<1>4. store[p].children[n] = x
  BY <1>1, <1>2 DEF Standing, AllStand, Stands, Claimed
<1>5. Tends(Effective(store[p]), store[p], store, n)
  BY <1>3, <1>4 DEF Standing, AllSound, Sound, Tended
<1>6. Effective(store[p]) = Schemas[store[p].schema] /\ store[p].schema \in DOMAIN Schemas
  BY <1>2, <1>3 DEF ParentsPlain, Effective, Stored, Inst
<1>7. n \in NodesOfKind(Schemas[store[p].schema], "SUBPROCESS")
  BY <1>5, <1>6 DEF Tends, NodesOfKind, NodesOf
<1>8. n \in DOMAIN Schemas[store[p].schema].bind
  BY <1>6, <1>7, SchemasAssumption DEF SchemaOK
<1>9. QED
  BY <1>1, <1>3, <1>8 DEF Reports

LEMMA HearingReturn ==
  ASSUME Shape, Recording, Standing, Marking', Hearing, call # Idle, Return(call.i),
         call.i.pnode # NoNode /\ call.task # "create" => call.i.state # "COMPLETED"
  PROVE  Hearing' /\ (Answered => Unheard(store') \subseteq Unheard(Found))
<1>1. PICK st, lost : st = PutIn(store, call.i) /\ lost = Unheard(past)
  OBVIOUS
<1>2. Heard(st, call, callers, lost \cup {call.i.id}) /\ Anchored(call, callers)
  BY <1>1, HearingPut DEF Hearing
<1>3. /\ AllSound(st) /\ Placed(st) /\ Stored(st) /\ st[call.i.id] = call.i
      /\ Working(st, call, callers, Len(past)) /\ IsSeq(callers)
  BY <1>1, StandingPut, CallIs DEF AllStand
<1>4. CASE callers = <<>>
  <2>1. store' = st /\ call' = Idle
    BY <1>1, <1>4 DEF Return, Answer
  <2>2. AllNeat(st)
    BY <2>1 DEF Marking
  <2>3. ASSUME NEW x \in Unheard(st) PROVE x \in lost
    <3>1. x \in lost \cup {call.i.id} \/ x = call.i.id
      BY <1>2, <1>3, <1>4, <2>2, <2>3, HeardAlone
    <3>2. x # call.i.id
      <4>1. SUFFICES ASSUME x = call.i.id PROVE FALSE
        OBVIOUS
      <4>2. call.i.pnode # NoNode /\ call.i.state = "COMPLETED"
        BY <1>3, <2>3, <4>1 DEF Unheard, Unrecorded
      <4>3. call.task # "create"
        BY <1>2, <1>4, <4>2 DEF Anchored
      <4>4. QED
        BY <4>2, <4>3
    <3>3. QED
      BY <3>1, <3>2
  <2>4. QED
    BY <1>1, <2>1, <2>3 DEF Found, Hearing
<1>5. CASE callers # <<>>
  <2>1. PICK F, fs : F = callers[Len(callers)] /\ fs = SubSeq(callers, 1, Len(callers) - 1)
    OBVIOUS
  <2>2. PICK d : d = Resumed(F, call.i)
    OBVIOUS
  <2>3. call' = d /\ callers' = fs /\ store' = st /\ past' = past
    BY <1>1, <1>5, <2>1, <2>2 DEF Return
  <2>4. Len(callers) \in DOMAIN callers
    BY <1>3, <1>5, <2>1, AboveFront DEF PoppedTo
  <2>5. Frame(F, st) /\ Waits(F)
    BY <1>3, <2>1, <2>4 DEF Working
  <2>6. d.pc \in Places
    BY <2>2, <2>5, ResumedOnward DEF Onward
  <2>7. Heard(st, d, fs, lost) /\ Anchored(d, fs)
    BY <1>2, <1>3, <1>5, <2>1, <2>2, HeardPop
  <2>8. QED
    BY <1>1, <2>3, <2>6, <2>7, NotIdle DEF Hearing, Answered
<1>6. QED
  BY <1>4, <1>5

LEMMA HearingFollowed ==
  ASSUME Shape, Recording, Standing, Marking', ParentsPlain, Hearing, call # Idle, Followed(call)
  PROVE  Hearing' /\ (Answered => Unheard(store') \subseteq Unheard(Found))
<1>1. CASE Return(call.i) /\ ~Reports(call)
  BY <1>1, HearingReturn, Reporting
<1>2. ASSUME callers = <<>>, callers' = <<>>, past' = past, store' = PutIn(store, call.i),
             NEW P, NEW J, JoinsOf(call, P, J), call' = Begin("join", J)
      PROVE  Hearing' /\ ~Answered
  <2>1. PICK st, d, lost : st = PutIn(store, call.i) /\ d = Begin("join", J) /\ lost = Unheard(past)
    OBVIOUS
  <2>2. Heard(st, call, <<>>, lost \cup {call.i.id}) /\ Stored(st) /\ st[call.i.id] = call.i
    BY <1>2, <2>1, HearingPut, StandingPut
  <2>3. /\ P = store[call.i.parent] /\ P.id = call.i.parent /\ P.id < call.i.id /\ Inst(P)
        /\ Moved(Schemas[P.schema], P, J, call.i.pnode, "COMPLETED") /\ J.children = P.children
        /\ call.i.pnode # NoNode
    BY <1>2 DEF JoinsOf, Family
  <2>4. P.id \in DOMAIN st /\ st[P.id] = P /\ P.id # call.i.id /\ call.i.id \in DOMAIN st
    <3>1. call.i.parent \in DOMAIN store /\ call.i.parent # call.i.id /\ call.i.id \in DOMAIN store
      BY <2>3, CallIs, CallParent
    <3>2. QED
      BY <2>1, <2>3, <3>1 DEF PutIn
  <2>5. d.i = J /\ d.pc = "visit" /\ d.task = "join"
    BY <2>1 DEF Begin
  <2>6. Heard(st, d, <<>>, lost)
    BY <2>2, <2>3, <2>4, <2>5, HeardJoin
  <2>7. Anchored(d, <<>>)
    BY <2>5 DEF Anchored
  <2>8. d # Idle
    BY <2>5, NotIdle DEF Places
  <2>9. QED
    BY <1>2, <2>1, <2>6, <2>7, <2>8 DEF Hearing, Answered
<1>3. CASE ~Reports(call)
  BY <1>1, <1>3 DEF Followed
<1>4. CASE Reports(call)
  <2>1. callers = <<>>
    BY <1>4, CallIs DEF Reports, Working
  <2>2. call' # Idle
    BY <1>4 DEF Followed, JoinParent, Begin, Idle
  <2>3. ~Return(call.i)
    BY <2>1, <2>2 DEF Return, Answer
  <2>4. QED
    BY <1>2, <2>3, FollowedIs
<1>5. QED
  BY <1>3, <1>4

LEMMA HearingBegin ==
  ASSUME Shape, call = Idle, NEW st, Stored(st), DOMAIN store \subseteq DOMAIN st,
         \A x \in DOMAIN store : st[x] = store[x],
         \A x \in DOMAIN st \ DOMAIN store : st[x].pnode = NoNode,
         NEW task, NEW J, J.id \in DOMAIN st, Calmer(st[J.id], J),
         task = "create" => J.pnode = NoNode, Begins(Begin(task, J), st)
  PROVE  Hearing' /\ ~Answered
<1>1. PICK d, lost : d = Begin(task, J) /\ lost = Unheard(store)
  OBVIOUS
<1>2. call' = d /\ store' = st /\ callers' = <<>> /\ past' = store
  BY <1>1 DEF Begins, Shape
<1>3. d.i = J /\ d.pc = "visit" /\ d.task = task
  BY <1>1 DEF Begin
<1>4. Stored(store)
  BY DEF Shape
<1>5. Heard(st, d, <<>>, lost)
  BY <1>1, <1>3, <1>4, HeardAfresh
<1>6. Anchored(d, <<>>)
  BY <1>3 DEF Anchored
<1>7. d # Idle
  BY <1>3, NotIdle DEF Places
<1>8. QED
  BY <1>1, <1>2, <1>5, <1>6, <1>7 DEF Hearing, Answered

(* A request that changes one instance and ends at once.                   *)
LEMMA HearingAnswer ==
  ASSUME Shape, call = Idle, NEW id \in DOMAIN store, NEW J, J.parent = store[id].parent,
         J.pnode = store[id].pnode, J.state = store[id].state, Calmer(store[id], J),
         Answer(PutIn(store, J), "ok"), (Recording /\ Marking /\ Standing)'
  PROVE  Hearing' /\ (Answered => Unheard(store') \subseteq Unheard(Found))
<1>1. PICK st : st = PutIn(store, J)
  OBVIOUS
<1>2. store' = st /\ call' = Idle
  BY <1>1 DEF Answer
<1>3. Stored(store) /\ J.id = id
  BY DEF Shape, Stored, Calmer
<1>4. DOMAIN st = DOMAIN store /\ \A x \in DOMAIN st : st[x] = IF x = id THEN J ELSE store[x]
  BY <1>1, <1>3 DEF PutIn
<1>5. ASSUME NEW x \in Unheard(st) PROVE x \in Unheard(store)
  <2>1. PICK p, n : p = st[x].parent /\ n = st[x].pnode
    OBVIOUS
  <2>2. /\ x \in DOMAIN st /\ n # NoNode /\ st[x].state = "COMPLETED"
        /\ st[p].children[n] = x /\ st[p].ns[n] = "RUNNING"
    BY <1>5, <2>1 DEF Unheard, Unrecorded
  <2>3. store[x].parent = p /\ store[x].pnode = n /\ store[x].state = "COMPLETED"
    BY <1>4, <2>1, <2>2
  <2>4. p \in DOMAIN store /\ x # 0
    BY <1>3, <1>4, <2>2, <2>3, ParentStored, SeqDomain DEF Stored
  <2>5. n \in DOMAIN st[p].children
    BY <1>2, <2>1, <2>2 DEF Recording, Placed
  <2>6. n \in DOMAIN st[p].ns
    <3>1. Tends(Effective(st[p]), st[p], st, n)
      BY <1>2, <1>4, <2>2, <2>4, <2>5 DEF Standing, AllSound, Sound, Tended
    <3>2. QED
      BY <1>2, <1>4, <2>4, <3>1 DEF Tends, Marking, AllNeat, Neat, Fit
  <2>7. Longs(st[p], n, x)
    BY <2>2, <2>5, <2>6 DEF Longs
  <2>8. Longs(store[p], n, x)
    BY <1>4, <2>4, <2>7 DEF Calmer
  <2>9. Awaited(store[x], x, store[p])
    BY <1>3, <2>3, <2>4, <2>8 DEF Awaited, Stored
  <2>10. x \in Completed(store)
    BY <1>4, <2>2, <2>3 DEF Completed
  <2>11. QED
    BY <2>3, <2>9, <2>10, AwaitedUnheard
<1>6. QED
  BY <1>2, <1>5 DEF Found, Hearing

(* A client starts or completes activities, for which nobody is waited.    *)
LEMMA StartsCalmer ==
  ASSUME NEW I, NEW st, Sound(I, st), NEW J, Starts(I, J)
  PROVE  Calmer(I, J)
<1>1. PICK n \in NodesOf(Effective(I)) :
        /\ J.id = I.id /\ J.children = I.children /\ Effective(I).kind[n] = "ACTIVITY"
        /\ J.ns = [I.ns EXCEPT ![n] = "RUNNING"]
  BY DEF Starts, Kin, Family
<1>2. ASSUME NEW m, NEW x, x # 0, Longs(J, m, x) PROVE Longs(I, m, x)
  <2>1. /\ m \in DOMAIN I.ns /\ m \in DOMAIN I.children /\ I.children[m] = x
        /\ J.ns[m] = "RUNNING"
    BY <1>1, <1>2 DEF Longs
  <2>2. Effective(I).kind[m] = "SUBPROCESS"
    BY <1>2, <2>1 DEF Sound, Tended, Tends
  <2>3. m # n
    BY <1>1, <2>2
  <2>4. I.ns[m] = "RUNNING"
    BY <1>1, <2>1, <2>3
  <2>5. QED
    BY <2>1, <2>4 DEF Longs
<1>3. QED
  BY <1>1, <1>2 DEF Calmer

LEMMA CompletesCalmer ==
  ASSUME NEW I, NEW J, Completes(I, J)
  PROVE  Calmer(I, J)
<1>1. PICK n : Moved(Effective(I), I, J, n, "COMPLETED") /\ J.children = I.children
  BY DEF Completes, Family
<1>2. QED
  BY <1>1, CalmerMoved

LEMMA ChangesCalmer ==
  ASSUME NEW I, NEW J, Changes(I, J)
  PROVE  Calmer(I, J) /\ J.parent = I.parent /\ J.pnode = I.pnode /\ J.state = I.state
<1>1. ASSUME NEW T, Rewrites(I, J, T)
      PROVE  J.id = I.id /\ J.parent = I.parent /\ J.pnode = I.pnode /\ J.state = I.state
  BY <1>1 DEF Rewrites
<1>2. ASSUME \A n \in DOMAIN J.ns : J.ns[n] = "RUNNING" => n \in DOMAIN I.ns /\ I.ns[n] = "RUNNING",
             \A n \in DOMAIN J.children : J.children[n] # 0 =>
               n \in DOMAIN I.children /\ I.children[n] = J.children[n],
             NEW n, NEW x, x # 0, Longs(J, n, x)
      PROVE  Longs(I, n, x)
  BY <1>2 DEF Longs
<1>3. ASSUME NEW T, Varies(I, J, T),
             \A n \in DOMAIN J.ns : J.ns[n] = "RUNNING" => n \in DOMAIN I.ns /\ I.ns[n] = "RUNNING"
      PROVE  Calmer(I, J) /\ J.parent = I.parent /\ J.pnode = I.pnode /\ J.state = I.state
  <2>1. J.children = I.children /\ Rewrites(I, J, T)
    BY <1>3 DEF Varies
  <2>2. QED
    BY <1>1, <1>2, <1>3, <2>1 DEF Calmer
<1>4. ASSUME NEW T, NEW anchor, NEW next, NEW new, Inserts(I, J, T, anchor, next, new)
      PROVE  Calmer(I, J) /\ J.parent = I.parent /\ J.pnode = I.pnode /\ J.state = I.state
  <2>1. /\ Varies(I, J, T)
        /\ J.ns = [n \in DOMAIN I.ns \cup {new} |-> IF n = new THEN "NOT_ACTIVATED" ELSE I.ns[n]]
    BY <1>4 DEF Inserts
  <2>2. QED
    BY <1>3, <2>1
<1>5. ASSUME NEW T, NEW n, NEW prev, NEW next, Deletes(I, J, T, n, prev, next)
      PROVE  Calmer(I, J) /\ J.parent = I.parent /\ J.pnode = I.pnode /\ J.state = I.state
  <2>1. Varies(I, J, T) /\ J.ns = [a \in DOMAIN I.ns \ {n} |-> I.ns[a]]
    BY <1>5 DEF Deletes
  <2>2. QED
    BY <1>3, <2>1
<1>6. CASE Renames(I, J)
  BY <1>3, <1>6 DEF Renames
<1>7. ASSUME NEW T, Migrates(I, J, T)
      PROVE  Calmer(I, J) /\ J.parent = I.parent /\ J.pnode = I.pnode /\ J.state = I.state
  <2>1. /\ Rewrites(I, J, T)
        /\ J.ns = [n \in NodesOf(T) |-> IF n \in DOMAIN I.ns THEN I.ns[n] ELSE "NOT_ACTIVATED"]
        /\ J.children = [n \in NodesOf(T) \cup DOMAIN I.children |->
                           IF n \in DOMAIN I.children THEN I.children[n] ELSE 0]
    BY <1>7 DEF Migrates
  <2>2. QED
    BY <1>1, <1>2, <2>1 DEF Calmer
<1>8. QED
  BY <1>4, <1>5, <1>6, <1>7 DEF Changes, Adapts

LEMMA HearingClient ==
  ASSUME Consistent, Consistent', ClientCall
  PROVE  Hearing' /\ (Answered => Unheard(store') \subseteq Unheard(Found))
<1>1. /\ Shape /\ call = Idle /\ Stored(store) /\ AllSound(store)
      /\ (Recording /\ Marking /\ Standing)'
  BY DEF Consistent, ClientCall, Shape, Standing
<1>2. ASSUME NEW name \in DOMAIN Schemas, NEW I, I = NewInstance(name, Len(store) + 1, Nothing, 0, NoNode),
             Begins(Begin("create", I), Append(store, I))
      PROVE  Hearing' /\ ~Answered
  <2>1. Inst(I) /\ I.id = Len(store) + 1 /\ I.pnode = NoNode
    BY <1>1, <1>2, CreatedAtRoot
  <2>2. PICK st : st = Append(store, I)
    OBVIOUS
  <2>3. /\ Stored(st) /\ DOMAIN st = DOMAIN store \cup {I.id} /\ I.id \notin DOMAIN store
        /\ st[I.id] = I /\ \A x \in DOMAIN store : st[x] = store[x]
    BY <1>1, <2>1, <2>2, StoredAppend
  <2>4. Calmer(st[I.id], I)
    BY <2>3, CalmerSelf
  <2>5. /\ DOMAIN store \subseteq DOMAIN st /\ I.id \in DOMAIN st
        /\ \A x \in DOMAIN st \ DOMAIN store : st[x].pnode = NoNode
    BY <2>1, <2>3
  <2>6. Begins(Begin("create", I), st)
    BY <1>2, <2>2
  <2>7. QED
    BY <1>1, <2>1, <2>3, <2>4, <2>5, <2>6, HearingBegin
<1>3. ASSUME NEW id \in DOMAIN store, NEW J, Starts(store[id], J), Answer(PutIn(store, J), "ok")
      PROVE  Hearing' /\ (Answered => Unheard(store') \subseteq Unheard(Found))
  <2>1. Calmer(store[id], J)
    BY <1>1, <1>3, StartsCalmer DEF AllSound
  <2>2. J.parent = store[id].parent /\ J.pnode = store[id].pnode /\ J.state = store[id].state
    BY <1>3 DEF Starts, Kin
  <2>3. QED
    BY <1>1, <1>3, <2>1, <2>2, HearingAnswer
<1>4. ASSUME NEW id \in DOMAIN store, NEW J, Completes(store[id], J), Begins(Begin("complete", J), store)
      PROVE  Hearing' /\ ~Answered
  <2>1. Calmer(store[id], J)
    BY <1>4, CompletesCalmer
  <2>2. J.id = id
    BY <1>1, <2>1 DEF Calmer, Stored
  <2>3. QED
    BY <1>1, <1>4, <2>1, <2>2, HearingBegin
<1>5. QED
  BY <1>1, <1>2, <1>3, <1>4, ClientCallIs

LEMMA HearingStep ==
  ASSUME Consistent, Consistent', ParentsPlain, Hearing, [EngineStep \/ AdhocChange \/ Migration]_evars
  PROVE  Hearing' /\ [Answered => Unheard(store') \subseteq Unheard(Found)]_vars
<1>1. Shape /\ Recording /\ Marking /\ Standing /\ (Recording /\ Marking /\ Standing)'
  BY DEF Consistent
<1>2. CASE ClientCall
  BY <1>2, HearingClient
<1>3. CASE Visit \/ EvaluateTargets \/ TriggerFollowUps
  <2>1. call # Idle /\ Frame(call, store) /\ Stored(store)
    BY <1>1, <1>3, StepIs, CallIs
  <2>2. CASE Raise
    BY <2>2 DEF Raise, Answer, Answered, Hearing
  <2>3. ASSUME NEW d, Passes(call, d) \/ Works(call, d), Goes(d)
        PROVE  Hearing' /\ ~Answered
    BY <1>1, <2>1, <2>3, HearingGoes
  <2>4. ASSUME NEW F, NEW I, SpawnsChild(call, F, I), Create(F, I)
        PROVE  Hearing' /\ ~Answered
    <3>1. Inst(I) /\ I.id = Len(store) + 1
      BY <2>1, <2>4, ChildInst
    <3>2. F.i = call.i /\ F.pc = call.pc /\ F.task = call.task
      BY <2>1, <2>4, SpawnsOnward DEF Onward, SpawnsChild
    <3>3. I.state # "COMPLETED"
      <4>1. I = Child(SchemaOf(call), call.i, At(F))
        BY <2>1, <2>4, SpawnsOnward
      <4>2. QED
        BY <4>1 DEF Child, NewInstance
    <3>4. QED
      BY <1>1, <2>1, <2>4, <3>1, <3>2, <3>3, HearingCreate
  <2>5. ASSUME call.pc = "follow", call.k \in DOMAIN Links(call),
               Create(call, FollowUp(Links(call)[call.k], call.i))
        PROVE  Hearing' /\ ~Answered
    <3>1. PICK I : I = FollowUp(Links(call)[call.k], call.i)
      OBVIOUS
    <3>2. Inst(I) /\ I.id = Len(store) + 1 /\ I.state # "COMPLETED"
      BY <2>1, <2>5, <3>1, FollowInst DEF FollowUp, NewInstance
    <3>3. QED
      BY <1>1, <2>1, <2>5, <3>1, <3>2, HearingCreate
  <2>6. CASE AtRest(call) /\ call.i.state = "COMPLETED" /\ Advanced(call)
    BY <1>1, <2>1, <2>6, HearingAdvanced
  <2>7. CASE AtRest(call) /\ call.i.state # "COMPLETED" /\ Return(call.i)
    BY <1>1, <2>1, <2>7, HearingReturn
  <2>8. CASE call.pc = "follow" /\ Followed(call)
    BY <1>1, <2>1, <2>8, HearingFollowed
  <2>9. QED
    BY <1>1, <1>3, <2>2, <2>3, <2>4, <2>5, <2>6, <2>7, <2>8, StepIs
<1>4. CASE AdhocChange \/ Migration
  <2>1. PICK id, J : /\ id \in DOMAIN store /\ Changes(store[id], J) /\ Answer(PutIn(store, J), "ok")
                     /\ call = Idle
    BY <1>1, <1>4, ChangeIs
  <2>2. /\ Calmer(store[id], J) /\ J.parent = store[id].parent /\ J.pnode = store[id].pnode
        /\ J.state = store[id].state
    BY <2>1, ChangesCalmer
  <2>3. QED
    BY <1>1, <2>1, <2>2, HearingAnswer
<1>5. CASE UNCHANGED evars
  BY <1>5 DEF evars, vars, Hearing
<1>6. QED
  BY <1>2, <1>3, <1>4, <1>5 DEF EngineStep, Next

(* "Walk up the parent chain, joining each completed child into its        *)
(* parent" (_propagate_completion): after a call that is answered no       *)
(* further node, at any level of the instance tree, waits for a child that *)
(* has completed.                                                          *)
THEOREM NobodyIsMissed ==
  ESpec /\ []ParentsPlain /\ []NoOrphans /\ MigrationsApart /\ NothingReopened => NobodyWaitsInVain
<1>1. /\ Consistent /\ ParentsPlain /\ NoOrphans /\ [EngineStep \/ AdhocChange \/ Migration]_evars
      /\ [Migration => \A id \in DOMAIN store :
            ~Behind(store[id], store'[id]) /\ ~Rejoined(store[id], store'[id])]_evars
      /\ [Migration => \A id \in DOMAIN store : ~Reopened(store[id], store'[id])]_evars
      => Consistent'
  BY ConsistentStep
<1>2. /\ Consistent /\ Consistent' /\ ParentsPlain /\ Hearing
      /\ [EngineStep \/ AdhocChange \/ Migration]_evars
      => Hearing' /\ [Answered => Unheard(store') \subseteq Unheard(Found)]_vars
  BY HearingStep
<1>3. EInit => Hearing
  BY DEF EInit, Init, Hearing
<1>4. QED
  BY <1>1, <1>2, <1>3, ConsistentInit, PTL
  DEF ESpec, MigrationsApart, NothingReopened, NobodyWaitsInVain
=============================================================================
