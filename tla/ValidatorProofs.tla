--------------------------- MODULE ValidatorProofs ---------------------------
(***************************************************************************)
(* Lemmas about the analyses of module Validator, for every graph with     *)
(* finitely many nodes: the searches reach everything they lead to, and    *)
(* what the analyses call written or executed before a node has run, on    *)
(* every route that brings the node to run.                                *)
(***************************************************************************)
EXTENDS Validator, FiniteSetTheorems, WellFoundedInduction, TLAPS

-----------------------------------------------------------------------------
(* Recursion over the natural numbers.                                     *)

LEMMA LeastNumber ==
  ASSUME NEW S \in SUBSET Nat, S # {}
  PROVE  \E k \in S : \A j \in S : k <= j
<1> DEFINE R == OpToRel(<, Nat)
<1>1. \E k \in S : \A j \in S : ~ (<<j, k>> \in R)
  <2>1. IsWellFoundedOn(R, Nat)
    BY NatLessThanWellFounded
  <2> HIDE DEF R
  <2>2. QED  BY <2>1, WFMin
<1>2. R = {p \in Nat \X Nat : p[1] < p[2]}
  BY Zenon DEF OpToRel
<1> HIDE DEF R
<1>3. \A j, k \in S : ~ (<<j, k>> \in R) => k <= j
  BY <1>2
<1>4. QED  BY <1>1, <1>3

(* A set that holds 0 and with each number the next one holds them all.    *)
LEMMA AllNumbers ==
  ASSUME NEW S, 0 \in S, \A k \in Nat : k \in S => k + 1 \in S
  PROVE  Nat \subseteq S
<1> DEFINE Missing == {k \in Nat : k \notin S}
<1>1. SUFFICES ASSUME Missing # {} PROVE FALSE
  OBVIOUS
<1>2. PICK k \in Missing : \A j \in Missing : k <= j
  BY <1>1, LeastNumber
<1>3. k # 0 /\ k - 1 \in Nat /\ k - 1 \notin Missing
  BY <1>2
<1>4. QED
  BY <1>2, <1>3

(* A value and a function to apply to it again and again have a sequence   *)
(* of results: the recursive functions of module Validator exist.          *)
Iterates(r, T, a, g) ==
  r \in [Nat -> T] /\ r[0] = a /\ \A k \in Nat : r[k + 1] = g[r[k]]
LEMMA Iteration ==
  ASSUME NEW T, NEW a \in T, NEW g \in [T -> T]
  PROVE  \E r : Iterates(r, T, a, g)
<1> DEFINE Upto(f, n) == f[0] = a /\ \A k \in Nat : k < n => f[k + 1] = g[f[k]]
           Reached == {n \in Nat : \E f \in [Nat -> T] : Upto(f, n)}
<1>1. Nat \subseteq Reached
  <2>1. 0 \in Reached
    <3>1. Upto([n \in Nat |-> a], 0) /\ [n \in Nat |-> a] \in [Nat -> T]
      OBVIOUS
    <3>2. QED
      BY <3>1
  <2>2. ASSUME NEW n \in Nat, n \in Reached PROVE n + 1 \in Reached
    <3>1. PICK f \in [Nat -> T] : Upto(f, n)
      BY <2>2
    <3> DEFINE h == [f EXCEPT ![n + 1] = g[f[n]]]
    <3>2. h \in [Nat -> T] /\ h[n + 1] = g[f[n]] /\ \A k \in Nat : k # n + 1 => h[k] = f[k]
      OBVIOUS
    <3> HIDE DEF h
    <3>3. Upto(h, n + 1)
      <4>1. h[0] = a
        BY <3>1, <3>2
      <4>2. ASSUME NEW k \in Nat, k < n + 1 PROVE h[k + 1] = g[h[k]]
        <5>1. h[k] = f[k]
          BY <3>2, <4>2
        <5>2. CASE k = n
          BY <3>2, <5>1, <5>2
        <5>3. CASE k < n
          <6>1. h[k + 1] = f[k + 1] /\ f[k + 1] = g[f[k]]
            BY <3>1, <3>2, <5>3
          <6>2. QED
            BY <5>1, <6>1
        <5>4. QED
          BY <4>2, <5>2, <5>3
      <4>3. QED
        BY <4>1, <4>2
    <3>4. QED
      BY <3>2, <3>3
  <2> HIDE DEF Reached
  <2>3. QED
    BY <2>1, <2>2, AllNumbers
<1>2. ASSUME NEW f, NEW h, NEW n \in Nat, NEW m \in Nat, Upto(f, n), Upto(h, m)
      PROVE  \A k \in Nat : k <= n /\ k <= m => f[k] = h[k]
  <2> DEFINE Same == {k \in Nat : k <= n /\ k <= m => f[k] = h[k]}
  <2>1. 0 \in Same
    BY <1>2
  <2>2. ASSUME NEW k \in Nat, k \in Same PROVE k + 1 \in Same
    BY <1>2, <2>2
  <2>3. Nat \subseteq Same
    <3> HIDE DEF Same
    <3>1. QED
      BY <2>1, <2>2, AllNumbers
  <2>4. QED
    BY <2>3
<1> DEFINE F(n) == CHOOSE f \in [Nat -> T] : Upto(f, n)
           r == [n \in Nat |-> F(n)[n]]
<1>3. \A n \in Nat : F(n) \in [Nat -> T] /\ Upto(F(n), n)
  BY <1>1
<1> HIDE DEF F
<1>4. r \in [Nat -> T]
  BY <1>3
<1>5. r[0] = a
  BY <1>3
<1>6. ASSUME NEW k \in Nat PROVE r[k + 1] = g[r[k]]
  <2>1. Upto(F(k + 1), k + 1) /\ Upto(F(k), k)
    BY <1>3
  <2> HIDE DEF Upto
  <2>2. F(k + 1)[k] = F(k)[k]
    BY <1>2, <2>1
  <2>3. F(k + 1)[k + 1] = g[F(k + 1)[k]]
    BY <2>1 DEF Upto
  <2>4. QED
    BY <2>2, <2>3
<1>7. QED
  BY <1>4, <1>5, <1>6 DEF Iterates

-----------------------------------------------------------------------------
(* Searches: a sequence of fronts over a finite set of nodes.              *)
News(step, q) == (UNION {step[n] : n \in q.front}) \ q.seen
Fronts(r, N, step, from) ==
  /\ r[0] = [seen |-> from, front |-> from]
  /\ \A k \in Nat : r[k].front \subseteq N =>
       r[k + 1] = [seen  |-> r[k].seen \cup News(step, r[k]), front |-> News(step, r[k])]

LEMMA FrontsExist ==
  ASSUME NEW N, NEW step \in [N -> SUBSET N], NEW from \in SUBSET N
  PROVE  \E r \in [Nat -> [seen : SUBSET N, front : SUBSET N]] : Fronts(r, N, step, from)
<1>1. PICK T : T = [seen : SUBSET N, front : SUBSET N]
  OBVIOUS
<1>2. PICK a : a = [seen |-> from, front |-> from]
  OBVIOUS
<1>3. PICK g : g = [q \in T |-> [seen |-> q.seen \cup News(step, q), front |-> News(step, q)]]
  OBVIOUS
<1>4. a \in T
  BY <1>1, <1>2
<1>5. g \in [T -> T]
  <2>1. ASSUME NEW q \in T PROVE News(step, q) \in SUBSET N
    BY <1>1 DEF News
  <2>2. QED
    BY <1>1, <1>3, <2>1
<1>6. PICK r : Iterates(r, T, a, g)
  BY <1>4, <1>5, Iteration
<1>7. r \in [Nat -> T] /\ r[0] = a /\ \A k \in Nat : r[k + 1] = g[r[k]]
  BY <1>6 DEF Iterates
<1>8. QED
  BY <1>1, <1>2, <1>3, <1>7 DEF Fronts

(* After round k: what has been seen, and what of it is in front.          *)
Round(k, N, step, from, seen, front) ==
  /\ front \subseteq seen /\ seen \subseteq N /\ from \subseteq seen
  /\ \A n \in seen \ front : step[n] \subseteq seen
  /\ \A n \in seen : n \in from \/ \E m \in seen : n \in step[m]
  /\ \A Z : from \subseteq Z /\ (\A n \in Z \cap N : step[n] \subseteq Z) => seen \subseteq Z
  /\ front = {} \/ Cardinality(seen) > k

LEMMA NextRound ==
  ASSUME NEW N, IsFiniteSet(N), NEW step \in [N -> SUBSET N], NEW from \in SUBSET N,
         NEW k \in Nat, NEW seen, NEW front, NEW new,
         Round(k, N, step, from, seen, front),
         new = (UNION {step[n] : n \in front}) \ seen
  PROVE  Round(k + 1, N, step, from, seen \cup new, new)
<1>1. front \subseteq seen /\ seen \subseteq N /\ from \subseteq seen
  BY DEF Round
<1>2. \A x \in new : x \notin seen /\ \E n \in front : x \in step[n]
  OBVIOUS
<1>3. new \subseteq N
  BY <1>1, <1>2
<1>4. \A n \in (seen \cup new) \ new : step[n] \subseteq seen \cup new
  BY DEF Round
<1>5. \A n \in seen \cup new : n \in from \/ \E m \in seen \cup new : n \in step[m]
  BY <1>1, <1>2 DEF Round
<1>6. ASSUME NEW Z, from \subseteq Z, \A n \in Z \cap N : step[n] \subseteq Z
      PROVE  seen \cup new \subseteq Z
  <2>1. seen \subseteq Z
    BY <1>6 DEF Round
  <2>2. \A n \in front : step[n] \subseteq Z
    BY <1>1, <1>6, <2>1
  <2>3. QED
    BY <1>2, <2>1, <2>2
<1>7. ASSUME new # {} PROVE Cardinality(seen \cup new) > k + 1
  <2>1. PICK x : x \in new
    BY <1>7
  <2>2. front # {} /\ x \notin seen
    BY <1>2, <2>1
  <2>3. IsFiniteSet(seen) /\ IsFiniteSet(seen \cup new)
    <3>1. seen \cup new \subseteq N
      BY <1>1, <1>3
    <3>2. QED
      BY <1>1, <3>1, FS_Subset
  <2>4. Cardinality(seen) \in Nat /\ Cardinality(seen \cup new) \in Nat
    BY <2>3, FS_CardinalityType
  <2>5. Cardinality(seen) > k
    BY <2>2 DEF Round
  <2>6. Cardinality(seen \cup {x}) = Cardinality(seen) + 1
    BY <2>2, <2>3, FS_AddElement
  <2>7. Cardinality(seen \cup {x}) <= Cardinality(seen \cup new)
    <3>1. seen \cup {x} \subseteq seen \cup new
      BY <2>1
    <3>2. QED
      BY <2>3, <3>1, FS_Subset
  <2>8. QED
    BY <2>4, <2>5, <2>6, <2>7
<1>8. QED
  BY <1>1, <1>3, <1>4, <1>5, <1>6, <1>7 DEF Round

(* The search ends within as many rounds as there are nodes, with all that *)
(* the steps lead to and nothing else.                                     *)
Closes(C, N, step, from) ==
  /\ from \subseteq C /\ C \subseteq N
  /\ \A n \in C : step[n] \subseteq C
  /\ \A n \in C : n \in from \/ \E m \in C : n \in step[m]
  /\ \A Z : from \subseteq Z /\ (\A n \in Z \cap N : step[n] \subseteq Z) => C \subseteq Z

LEMMA FrontsClosed ==
  ASSUME NEW N, IsFiniteSet(N), NEW step \in [N -> SUBSET N], NEW from \in SUBSET N,
         NEW r, Fronts(r, N, step, from)
  PROVE  Closes(r[Cardinality(N)].seen, N, step, from)
<1> DEFINE Good == {k \in Nat : Round(k, N, step, from, r[k].seen, r[k].front)}
<1>1. 0 \in Good
  <2>1. r[0].seen = from /\ r[0].front = from
    BY DEF Fronts
  <2>2. from = {} \/ Cardinality(from) > 0
    <3>1. IsFiniteSet(from)
      BY FS_Subset
    <3>2. QED
      BY <3>1, FS_EmptySet, FS_CardinalityType
  <2>3. Round(0, N, step, from, from, from)
    BY <2>2 DEF Round
  <2>4. QED
    BY <2>1, <2>3
<1>2. ASSUME NEW k \in Nat, k \in Good PROVE k + 1 \in Good
  <2>1. Round(k, N, step, from, r[k].seen, r[k].front)
    BY <1>2
  <2>2. r[k].front \subseteq N
    BY <2>1 DEF Round
  <2>3. PICK new : new = News(step, r[k])
    OBVIOUS
  <2>4. r[k + 1] = [seen |-> r[k].seen \cup new, front |-> new]
    <3>1. \A j \in Nat : r[j].front \subseteq N =>
            r[j + 1] = [seen  |-> r[j].seen \cup News(step, r[j]), front |-> News(step, r[j])]
      BY DEF Fronts
    <3>2. QED
      BY <2>2, <2>3, <3>1
  <2>5. Round(k + 1, N, step, from, r[k].seen \cup new, new)
    BY <2>1, <2>3, NextRound DEF News
  <2>6. Round(k + 1, N, step, from, r[k + 1].seen, r[k + 1].front)
    BY <2>4, <2>5
  <2>7. QED
    BY <2>6
<1>3. Nat \subseteq Good
  <2> HIDE DEF Good
  <2>1. QED
    BY <1>1, <1>2, AllNumbers
<1>4. Cardinality(N) \in Nat
  BY FS_CardinalityType
<1>5. PICK seen, front : seen = r[Cardinality(N)].seen /\ front = r[Cardinality(N)].front
  OBVIOUS
<1>6. Round(Cardinality(N), N, step, from, seen, front)
  BY <1>3, <1>4, <1>5
<1>7. front = {}
  <2>1. seen \subseteq N
    BY <1>6 DEF Round
  <2>2. Cardinality(seen) \in Nat /\ Cardinality(seen) <= Cardinality(N)
    BY <2>1, FS_Subset, FS_CardinalityType
  <2>3. QED
    BY <1>4, <1>6, <2>2 DEF Round
<1>8. Closes(seen, N, step, from)
  BY <1>6, <1>7 DEF Round, Closes
<1>9. QED
  BY <1>5, <1>8

-----------------------------------------------------------------------------
(* Reachable and Ran are such searches.                                    *)
LEMMA ReachableCloses ==
  ASSUME NEW S, IsFiniteSet(DOMAIN S.kind), NEW n
  PROVE  Closes(Reachable(S, n), DOMAIN S.kind,
                [m \in DOMAIN S.kind |-> Succs(S, m)], Succs(S, n))
<1> DEFINE IsSearch(r) ==
      r = [k \in Nat |->
             IF k = 0 THEN [seen |-> Succs(S, n), front |-> Succs(S, n)]
             ELSE LET q == r[k - 1]
                      new == (UNION {Succs(S, m) : m \in q.front}) \ q.seen
                  IN [seen |-> q.seen \cup new, front |-> new]]
<1>1. PICK N : N = DOMAIN S.kind
  OBVIOUS
<1>2. PICK step : step = [m \in N |-> Succs(S, m)]
  OBVIOUS
<1>3. PICK from : from = Succs(S, n)
  OBVIOUS
<1>4. step \in [N -> SUBSET N] /\ from \in SUBSET N
  BY <1>1, <1>2, <1>3 DEF Succs
<1>5. ASSUME NEW q, q.front \subseteq N
      PROVE  (UNION {Succs(S, m) : m \in q.front}) \ q.seen = News(step, q)
  BY <1>2, <1>5 DEF News
<1>6. \E r : IsSearch(r)
  <2>1. PICK r \in [Nat -> [seen : SUBSET N, front : SUBSET N]] : Fronts(r, N, step, from)
    BY <1>4, FrontsExist
  <2>2. ASSUME NEW k \in Nat, k # 0
        PROVE  LET q == r[k - 1]
                   new == (UNION {Succs(S, m) : m \in q.front}) \ q.seen
               IN r[k] = [seen |-> q.seen \cup new, front |-> new]
    <3>1. PICK q : q = r[k - 1]
      OBVIOUS
    <3>2. k - 1 \in Nat /\ (k - 1) + 1 = k
      BY <2>2
    <3>3. q.front \subseteq N
      BY <2>1, <3>1, <3>2
    <3>4. r[k] = [seen |-> q.seen \cup News(step, q), front |-> News(step, q)]
      BY <2>1, <3>1, <3>2, <3>3 DEF Fronts
    <3>5. QED
      BY <1>5, <3>1, <3>3, <3>4
  <2>3. r[0] = [seen |-> Succs(S, n), front |-> Succs(S, n)]
    BY <1>3, <2>1 DEF Fronts
  <2>4. r = [k \in Nat |-> r[k]]
    BY <2>1
  <2>5. IsSearch(r)
    BY <2>2, <2>3, <2>4
  <2>6. QED
    BY <2>5
<1> DEFINE r == CHOOSE r : IsSearch(r)
<1>7. IsSearch(r)
  BY <1>6
<1>8. Reachable(S, n) = r[Cardinality(N)].seen
  BY <1>1 DEF Reachable, Closure
<1> HIDE DEF r
<1>9. Fronts(r, N, step, from)
  <2>1. r[0] = [seen |-> from, front |-> from]
    BY <1>3, <1>7
  <2>2. ASSUME NEW k \in Nat, r[k].front \subseteq N
        PROVE  r[k + 1] = [seen |-> r[k].seen \cup News(step, r[k]), front |-> News(step, r[k])]
    <3>1. PICK q : q = r[k]
      OBVIOUS
    <3>2. k + 1 \in Nat /\ (k + 1) - 1 = k /\ k + 1 # 0
      OBVIOUS
    <3>3. PICK new : new = (UNION {Succs(S, m) : m \in q.front}) \ q.seen
      OBVIOUS
    <3>4. r[k + 1] = [seen |-> q.seen \cup new, front |-> new]
      BY <1>7, <3>1, <3>2, <3>3
    <3>5. QED
      BY <1>5, <2>2, <3>1, <3>3, <3>4
  <2>3. QED
    BY <2>1, <2>2 DEF Fronts
<1>10. Closes(Reachable(S, n), N, step, from)
  BY <1>1, <1>4, <1>8, <1>9, FrontsClosed
<1>11. QED
  BY <1>1, <1>2, <1>3, <1>10

(* The nodes that an execution goes on to behind node n on route c.        *)
Following(S, c, n) == {e[2] : e \in {e \in OutOf(S, n) : Taken(S, c, e)}} \cap DOMAIN S.kind

LEMMA RanCloses ==
  ASSUME NEW S, IsFiniteSet(DOMAIN S.kind), NEW c
  PROVE  Closes(Ran(S, c), DOMAIN S.kind,
                [m \in DOMAIN S.kind |-> Following(S, c, m)], NodesOfKind(S, "START"))
<1> DEFINE IsSearch(r) ==
      r = [k \in Nat |->
             IF k = 0 THEN [seen |-> NodesOfKind(S, "START"), front |-> NodesOfKind(S, "START")]
             ELSE LET q == r[k - 1]
                      new == (UNION {Following(S, c, m) : m \in q.front}) \ q.seen
                  IN [seen |-> q.seen \cup new, front |-> new]]
<1>1. PICK N : N = DOMAIN S.kind
  OBVIOUS
<1>2. PICK step : step = [m \in N |-> Following(S, c, m)]
  OBVIOUS
<1>3. PICK from : from = NodesOfKind(S, "START")
  OBVIOUS
<1>4. step \in [N -> SUBSET N] /\ from \in SUBSET N
  BY <1>1, <1>2, <1>3 DEF Following, NodesOfKind
<1>5. ASSUME NEW q, q.front \subseteq N
      PROVE  (UNION {Following(S, c, m) : m \in q.front}) \ q.seen = News(step, q)
  BY <1>2, <1>5 DEF News
<1>6. \E r : IsSearch(r)
  <2>1. PICK r \in [Nat -> [seen : SUBSET N, front : SUBSET N]] : Fronts(r, N, step, from)
    BY <1>4, FrontsExist
  <2>2. ASSUME NEW k \in Nat, k # 0
        PROVE  LET q == r[k - 1]
                   new == (UNION {Following(S, c, m) : m \in q.front}) \ q.seen
               IN r[k] = [seen |-> q.seen \cup new, front |-> new]
    <3>1. PICK q : q = r[k - 1]
      OBVIOUS
    <3>2. k - 1 \in Nat /\ (k - 1) + 1 = k
      BY <2>2
    <3>3. q.front \subseteq N
      BY <2>1, <3>1, <3>2
    <3>4. r[k] = [seen |-> q.seen \cup News(step, q), front |-> News(step, q)]
      BY <2>1, <3>1, <3>2, <3>3 DEF Fronts
    <3>5. QED
      BY <1>5, <3>1, <3>3, <3>4
  <2>3. r[0] = [seen |-> NodesOfKind(S, "START"), front |-> NodesOfKind(S, "START")]
    BY <1>3, <2>1 DEF Fronts
  <2>4. r = [k \in Nat |-> r[k]]
    BY <2>1
  <2>5. IsSearch(r)
    BY <2>2, <2>3, <2>4
  <2>6. QED
    BY <2>5
<1> DEFINE r == CHOOSE r : IsSearch(r)
<1>7. IsSearch(r)
  BY <1>6
<1>8. Ran(S, c) = r[Cardinality(N)].seen
  BY <1>1 DEF Ran, Closure, Following
<1> HIDE DEF r
<1>9. Fronts(r, N, step, from)
  <2>1. r[0] = [seen |-> from, front |-> from]
    BY <1>3, <1>7
  <2>2. ASSUME NEW k \in Nat, r[k].front \subseteq N
        PROVE  r[k + 1] = [seen |-> r[k].seen \cup News(step, r[k]), front |-> News(step, r[k])]
    <3>1. PICK q : q = r[k]
      OBVIOUS
    <3>2. k + 1 \in Nat /\ (k + 1) - 1 = k /\ k + 1 # 0
      OBVIOUS
    <3>3. PICK new : new = (UNION {Following(S, c, m) : m \in q.front}) \ q.seen
      OBVIOUS
    <3>4. r[k + 1] = [seen |-> q.seen \cup new, front |-> new]
      BY <1>7, <3>1, <3>2, <3>3
    <3>5. QED
      BY <1>5, <2>2, <3>1, <3>3, <3>4
  <2>3. QED
    BY <2>1, <2>2 DEF Fronts
<1>10. Closes(Ran(S, c), N, step, from)
  BY <1>1, <1>4, <1>8, <1>9, FrontsClosed
<1>11. QED
  BY <1>1, <1>2, <1>3, <1>10

-----------------------------------------------------------------------------
(* The topological order, level by level.                                  *)
Levels(lv, S) ==
  /\ lv \in [Nat -> SUBSET DOMAIN S.kind] /\ lv[0] = {}
  /\ \A k \in Nat : lv[k + 1] = {n \in DOMAIN S.kind : Preds(S, n) \subseteq lv[k]}

LEMMA OrderedLevels ==
  ASSUME NEW S, IsFiniteSet(DOMAIN S.kind)
  PROVE  \E lv : Levels(lv, S) /\ Ordered(S) = lv[Cardinality(DOMAIN S.kind)]
<1> DEFINE IsOrder(r) ==
      r = [k \in Nat |->
             IF k = 0 THEN {}
             ELSE LET q == r[k - 1] IN {n \in DOMAIN S.kind : Preds(S, n) \subseteq q}]
<1>1. PICK T : T = SUBSET DOMAIN S.kind
  OBVIOUS
<1>2. PICK g : g = [q \in T |-> {n \in DOMAIN S.kind : Preds(S, n) \subseteq q}]
  OBVIOUS
<1>3. {} \in T /\ g \in [T -> T]
  BY <1>1, <1>2
<1>4. PICK lv : Iterates(lv, T, {}, g)
  BY <1>3, Iteration
<1>5. Levels(lv, S)
  BY <1>1, <1>2, <1>4 DEF Levels, Iterates
<1>6. IsOrder(lv)
  <2>1. ASSUME NEW k \in Nat, k # 0
        PROVE  lv[k] = {n \in DOMAIN S.kind : Preds(S, n) \subseteq lv[k - 1]}
    <3>1. k - 1 \in Nat /\ (k - 1) + 1 = k
      BY <2>1
    <3>2. QED
      BY <1>5, <3>1 DEF Levels
  <2>2. lv = [k \in Nat |-> lv[k]] /\ lv[0] = {}
    BY <1>5 DEF Levels
  <2>3. QED
    BY <2>1, <2>2
<1> DEFINE r == CHOOSE r : IsOrder(r)
<1>7. IsOrder(r)
  BY <1>6
<1>8. Ordered(S) = r[Cardinality(DOMAIN S.kind)]
  BY DEF Ordered
<1> HIDE DEF r
<1>9. Levels(r, S)
  <2> DEFINE Typed == {k \in Nat : r[k] \in SUBSET DOMAIN S.kind}
  <2>1. r[0] = {}
    BY <1>7
  <2>2. ASSUME NEW k \in Nat
        PROVE  r[k + 1] = {n \in DOMAIN S.kind : Preds(S, n) \subseteq r[k]}
    <3>1. k + 1 \in Nat /\ (k + 1) - 1 = k /\ k + 1 # 0
      OBVIOUS
    <3>2. QED
      BY <1>7, <3>1
  <2>3. Nat \subseteq Typed
    <3>1. 0 \in Typed /\ \A k \in Nat : k \in Typed => k + 1 \in Typed
      BY <2>1, <2>2
    <3> HIDE DEF Typed
    <3>2. QED
      BY <3>1, AllNumbers
  <2>4. r = [k \in Nat |-> r[k]]
    BY <1>7
  <2>5. r \in [Nat -> SUBSET DOMAIN S.kind]
    BY <2>3, <2>4
  <2>6. QED
    BY <2>1, <2>2, <2>5 DEF Levels
<1>10. QED
  BY <1>8, <1>9

LEMMA LevelsGrow ==
  ASSUME NEW S, NEW lv, Levels(lv, S)
  PROVE  \A k \in Nat : lv[k] \subseteq lv[k + 1]
<1> DEFINE Grown == {k \in Nat : lv[k] \subseteq lv[k + 1]}
<1>1. 0 \in Grown
  BY DEF Levels
<1>2. ASSUME NEW k \in Nat, k \in Grown PROVE k + 1 \in Grown
  <2>1. /\ lv[k + 1] = {n \in DOMAIN S.kind : Preds(S, n) \subseteq lv[k]}
        /\ lv[(k + 1) + 1] = {n \in DOMAIN S.kind : Preds(S, n) \subseteq lv[k + 1]}
    BY DEF Levels
  <2>2. QED
    BY <1>2, <2>1
<1>3. Nat \subseteq Grown
  <2> HIDE DEF Grown
  <2>1. QED
    BY <1>1, <1>2, AllNumbers
<1>4. QED
  BY <1>3

-----------------------------------------------------------------------------
(* The must-analyses: what a node hands on is what it has itself (own) and *)
(* what it was handed (f); joined as before a node.                        *)
Handed(S, n, after) ==
  IF n \notin Ordered(S) THEN {}
  ELSE IF S.kind[n] = "AND_JOIN" THEN UNION after
  ELSE {x \in UNION after : \A had \in after : x \in had}
Joined(S, n, f, own) == Handed(S, n, {f[p] \cup own[p] : p \in Preds(S, n)})

LEMMA JoinedLocal ==
  ASSUME NEW S, NEW n, NEW f, NEW g, NEW own, \A p \in Preds(S, n) : f[p] = g[p]
  PROVE  Joined(S, n, f, own) = Joined(S, n, g, own)
<1>1. {f[p] \cup own[p] : p \in Preds(S, n)} = {g[p] \cup own[p] : p \in Preds(S, n)}
  OBVIOUS
<1>2. QED
  BY <1>1 DEF Joined, Handed

LEMMA JoinedType ==
  ASSUME NEW S, NEW n, NEW X, NEW own \in [DOMAIN S.kind -> SUBSET X],
         NEW f \in [DOMAIN S.kind -> SUBSET X]
  PROVE  Joined(S, n, f, own) \in SUBSET X
<1>1. Preds(S, n) \subseteq DOMAIN S.kind
  BY DEF Preds
<1>2. \A p \in Preds(S, n) : f[p] \cup own[p] \subseteq X
  BY <1>1
<1>3. UNION {f[p] \cup own[p] : p \in Preds(S, n)} \subseteq X
  BY <1>2
<1>4. QED
  BY <1>3 DEF Joined, Handed

IsBefore(f, S, own) == f = [n \in DOMAIN S.kind |-> Joined(S, n, f, own)]

(* The equations of an analysis have a solution: beyond its level in the   *)
(* topological order, nothing changes at a node any more.                  *)
LEMMA BeforeExists ==
  ASSUME NEW S, IsFiniteSet(DOMAIN S.kind), NEW X, NEW own \in [DOMAIN S.kind -> SUBSET X]
  PROVE  \E f : IsBefore(f, S, own)
<1>1. PICK N : N = DOMAIN S.kind
  OBVIOUS
<1>2. PICK T : T = [N -> SUBSET X]
  OBVIOUS
<1>3. PICK g : g = [f \in T |-> [n \in N |-> Joined(S, n, f, own)]]
  OBVIOUS
<1>4. g \in [T -> T]
  BY <1>1, <1>2, <1>3, JoinedType
<1>5. PICK a : a = [n \in N |-> {}]
  OBVIOUS
<1>6. a \in T
  BY <1>2, <1>5
<1>7. PICK B : Iterates(B, T, a, g)
  BY <1>4, <1>6, Iteration
<1>8. B \in [Nat -> T] /\ \A k \in Nat : \A n \in N : B[k + 1][n] = Joined(S, n, B[k], own)
  BY <1>3, <1>7 DEF Iterates
<1>9. PICK lv : Levels(lv, S) /\ Ordered(S) = lv[Cardinality(N)]
  BY <1>1, OrderedLevels
<1>10. \A n : Preds(S, n) \subseteq N
  BY <1>1 DEF Preds
<1> DEFINE Stable == {k \in Nat : \A n \in lv[k] : B[k + 1][n] = B[k][n]}
<1>11. 0 \in Stable
  BY <1>9 DEF Levels
<1>12. ASSUME NEW k \in Nat, k \in Stable PROVE k + 1 \in Stable
  <2>1. ASSUME NEW n \in lv[k + 1] PROVE B[(k + 1) + 1][n] = B[k + 1][n]
    <3>1. n \in N /\ Preds(S, n) \subseteq lv[k]
      BY <1>1, <1>9, <2>1 DEF Levels
    <3>2. \A p \in Preds(S, n) : B[k + 1][p] = B[k][p]
      BY <1>12, <3>1
    <3>3. Joined(S, n, B[k + 1], own) = Joined(S, n, B[k], own)
      BY <3>2, JoinedLocal
    <3>4. B[(k + 1) + 1][n] = Joined(S, n, B[k + 1], own) /\ B[k + 1][n] = Joined(S, n, B[k], own)
      BY <1>8, <3>1
    <3>5. QED
      BY <3>3, <3>4
  <2>2. QED
    BY <2>1
<1>13. Nat \subseteq Stable
  <2> HIDE DEF Stable
  <2>1. QED
    BY <1>11, <1>12, AllNumbers
<1>14. PICK K : K = Cardinality(N)
  OBVIOUS
<1>15. K \in Nat
  BY <1>1, <1>14, FS_CardinalityType
<1>16. \A n \in Ordered(S) : B[K + 1][n] = B[K][n]
  BY <1>9, <1>13, <1>14, <1>15
<1>17. \A n \in Ordered(S) : Preds(S, n) \subseteq Ordered(S)
  <2>1. lv[K] \subseteq lv[K + 1]
    BY <1>9, <1>15, LevelsGrow
  <2>2. lv[K + 1] = {n \in DOMAIN S.kind : Preds(S, n) \subseteq lv[K]}
    BY <1>9, <1>15 DEF Levels
  <2>3. QED
    BY <1>9, <1>14, <2>1, <2>2
<1>18. PICK f : f = B[K + 1]
  OBVIOUS
<1>19. f \in T
  BY <1>8, <1>15, <1>18
<1>20. ASSUME NEW n \in N PROVE f[n] = Joined(S, n, f, own)
  <2>1. f[n] = Joined(S, n, B[K], own)
    BY <1>8, <1>15, <1>18
  <2>2. CASE n \in Ordered(S)
    <3>1. \A p \in Preds(S, n) : B[K][p] = f[p]
      BY <1>16, <1>17, <1>18, <2>2
    <3>2. QED
      BY <2>1, <3>1, JoinedLocal
  <2>3. CASE n \notin Ordered(S)
    BY <2>1, <2>3 DEF Joined, Handed
  <2>4. QED
    BY <2>2, <2>3
<1>21. QED
  BY <1>1, <1>2, <1>19, <1>20 DEF IsBefore

-----------------------------------------------------------------------------
(* Routes on which an AND_JOIN that runs is reached over all its branches. *)
Whole(S, c) ==
  \A n \in Ran(S, c) : S.kind[n] = "AND_JOIN" => Preds(S, n) \subseteq Ran(S, c)
Rooted(S) == \A n \in NodesOfKind(S, "START") : Preds(S, n) = {}

(* Whatever an analysis finds before a node has been gained, on any such   *)
(* route that runs the node, at a node that ran and lies in front of it.   *)
LEMMA MustSound ==
  ASSUME NEW S, IsFiniteSet(DOMAIN S.kind), NEW own, NEW f, IsBefore(f, S, own),
         NEW c, Whole(S, c), Rooted(S), NEW n \in Ran(S, c), NEW x \in f[n]
  PROVE  \E p \in Ran(S, c) : x \in own[p] /\ n \in Reachable(S, p)
<1>1. PICK N : N = DOMAIN S.kind
  OBVIOUS
<1>2. PICK R : R = Ran(S, c)
  OBVIOUS
<1>3. PICK lv : Levels(lv, S) /\ Ordered(S) = lv[Cardinality(N)]
  BY <1>1, OrderedLevels
<1>4. /\ R \subseteq N
      /\ \A m \in R : m \in NodesOfKind(S, "START") \/ \E p \in R : m \in Following(S, c, p)
  BY <1>1, <1>2, RanCloses DEF Closes
<1>5. ASSUME NEW m, NEW p \in N, m \in Following(S, c, p) PROVE p \in Preds(S, m)
  BY <1>1, <1>5 DEF Following, Preds, Into, OutOf
<1>6. ASSUME NEW m \in N, NEW p \in Preds(S, m) PROVE p \in N /\ m \in Succs(S, p)
  BY <1>1, <1>6 DEF Preds, Succs, Into, OutOf
<1>7. ASSUME NEW p, NEW q \in N, NEW m \in Succs(S, q), q = p \/ q \in Reachable(S, p)
      PROVE  m \in Reachable(S, p)
  <2>1. PICK C : C = Reachable(S, p)
    OBVIOUS
  <2>2. Succs(S, p) \subseteq C /\ \A j \in C : j \in N => Succs(S, j) \subseteq C
    BY <1>1, <2>1, ReachableCloses DEF Closes
  <2>3. QED
    BY <1>7, <2>1, <2>2
<1> DEFINE Gained(m) == \A y \in f[m] : \E p \in R : y \in own[p] /\ m \in Reachable(S, p)
           Sound == {k \in Nat : \A m \in lv[k] \cap R : Gained(m)}
<1>8. 0 \in Sound
  BY <1>3 DEF Levels
<1>9. ASSUME NEW k \in Nat, k \in Sound PROVE k + 1 \in Sound
  <2>1. ASSUME NEW m \in lv[k + 1] \cap R, NEW y \in f[m]
        PROVE  \E p \in R : y \in own[p] /\ m \in Reachable(S, p)
    <3>1. m \in N /\ Preds(S, m) \subseteq lv[k]
      BY <1>1, <1>3, <2>1 DEF Levels
    <3>2. f[m] = Joined(S, m, f, own)
      BY <1>1, <3>1 DEF IsBefore
    <3>3. \E q \in Preds(S, m) \cap R : y \in f[q] \cup own[q]
      <4>1. CASE S.kind[m] = "AND_JOIN"
        <5>1. Preds(S, m) \subseteq R
          BY <1>2, <2>1, <4>1 DEF Whole
        <5>2. QED
          BY <2>1, <3>2, <4>1, <5>1 DEF Joined, Handed
      <4>2. CASE S.kind[m] # "AND_JOIN"
        <5> DEFINE after == {f[p] \cup own[p] : p \in Preds(S, m)}
        <5>0. y \in {z \in UNION after : \A had \in after : z \in had}
          BY <2>1, <3>2, <4>2 DEF Joined, Handed
        <5>1. \A q \in Preds(S, m) : y \in f[q] \cup own[q]
          BY <5>0
        <5>2. Preds(S, m) # {}
          BY <5>0
        <5>3. PICK q \in R : m \in Following(S, c, q)
          BY <1>4, <2>1, <5>2 DEF Rooted
        <5>4. q \in Preds(S, m)
          BY <1>4, <1>5, <5>3
        <5>5. QED
          BY <5>1, <5>3, <5>4
      <4>3. QED
        BY <4>1, <4>2
    <3>4. PICK q \in Preds(S, m) \cap R : y \in f[q] \cup own[q]
      BY <3>3
    <3>5. q \in N /\ m \in Succs(S, q)
      BY <1>6, <3>1
    <3>6. CASE y \in own[q]
      BY <1>7, <3>4, <3>5, <3>6
    <3>7. CASE y \in f[q]
      <4>1. PICK p \in R : y \in own[p] /\ q \in Reachable(S, p)
        BY <1>9, <3>1, <3>4, <3>7
      <4>2. QED
        BY <1>7, <3>5, <4>1
    <3>8. QED
      BY <3>4, <3>6, <3>7
  <2>2. QED
    BY <2>1
<1>10. Nat \subseteq Sound
  <2> HIDE DEF Sound
  <2>1. QED
    BY <1>8, <1>9, AllNumbers
<1>11. Cardinality(N) \in Nat
  BY <1>1, FS_CardinalityType
<1>12. n \in Ordered(S)
  <2>1. n \in N
    BY <1>2, <1>4
  <2>2. f[n] = Joined(S, n, f, own)
    BY <1>1, <2>1 DEF IsBefore
  <2>3. QED
    BY <2>2 DEF Joined, Handed
<1>13. QED
  BY <1>2, <1>3, <1>10, <1>11, <1>12

-----------------------------------------------------------------------------
(* What validator.py calls written before a node is written, on every      *)
(* route that runs the node, by a node that ran and lies in front of it.   *)
THEOREM WrittenBefore ==
  ASSUME NEW S, IsFiniteSet(DOMAIN S.kind), NEW c, Whole(S, c), Rooted(S),
         NEW n \in Ran(S, c), NEW x \in MustWrittenBefore(S)[n]
  PROVE  \E w \in S.writes : w[2] = x /\ w[1] \in Ran(S, c) /\ n \in Reachable(S, w[1])
<1>1. PICK own : own = [p \in DOMAIN S.kind |-> WrittenAt(S, p)]
  OBVIOUS
<1> DEFINE IsWritten(f) ==
      f = [m \in DOMAIN S.kind |->
             Handed(S, m, {f[p] \cup WrittenAt(S, p) : p \in Preds(S, m)})]
<1>2. ASSUME NEW f, NEW m
      PROVE  {f[p] \cup WrittenAt(S, p) : p \in Preds(S, m)} = {f[p] \cup own[p] : p \in Preds(S, m)}
  BY <1>1 DEF Preds
<1>3. \A f : IsWritten(f) <=> IsBefore(f, S, own)
  <2>1. \A f, m : Joined(S, m, f, own) = Handed(S, m, {f[p] \cup WrittenAt(S, p) : p \in Preds(S, m)})
    BY <1>2 DEF Joined
  <2>2. QED
    BY <2>1 DEF IsBefore
<1>4. own \in [DOMAIN S.kind -> SUBSET {w[2] : w \in S.writes}]
  BY <1>1 DEF WrittenAt
<1>5. PICK g : IsBefore(g, S, own)
  BY <1>4, BeforeExists
<1>6. MustWrittenBefore(S) = CHOOSE f : IsWritten(f)
  BY DEF MustWrittenBefore, Handed
<1>7. IsBefore(MustWrittenBefore(S), S, own)
  <2> HIDE DEF IsWritten
  <2>1. QED
    BY <1>3, <1>5, <1>6
<1> HIDE DEF IsWritten
<1>8. PICK p \in Ran(S, c) : x \in own[p] /\ n \in Reachable(S, p)
  BY <1>7, MustSound
<1>9. p \in DOMAIN S.kind
  BY RanCloses DEF Closes
<1>10. QED
  BY <1>1, <1>8, <1>9 DEF WrittenAt

(* What it calls executed before a node has run, on every route that runs  *)
(* the node, and lies in front of it.                                      *)
THEOREM ExecutedBefore ==
  ASSUME NEW S, IsFiniteSet(DOMAIN S.kind), NEW c, Whole(S, c), Rooted(S),
         NEW n \in Ran(S, c), NEW p \in MustExecutedBefore(S)[n]
  PROVE  p \in Ran(S, c) /\ n \in Reachable(S, p)
<1>1. PICK own : own = [q \in DOMAIN S.kind |-> {q}]
  OBVIOUS
<1> DEFINE IsExecuted(f) ==
      f = [m \in DOMAIN S.kind |->
             Handed(S, m, {f[q] \cup {q} : q \in Preds(S, m)})]
<1>2. ASSUME NEW f, NEW m
      PROVE  {f[q] \cup {q} : q \in Preds(S, m)} = {f[q] \cup own[q] : q \in Preds(S, m)}
  BY <1>1 DEF Preds
<1>3. \A f : IsExecuted(f) <=> IsBefore(f, S, own)
  <2>1. \A f, m : Joined(S, m, f, own) = Handed(S, m, {f[q] \cup {q} : q \in Preds(S, m)})
    BY <1>2 DEF Joined
  <2>2. QED
    BY <2>1 DEF IsBefore
<1>4. own \in [DOMAIN S.kind -> SUBSET DOMAIN S.kind]
  BY <1>1
<1>5. PICK g : IsBefore(g, S, own)
  BY <1>4, BeforeExists
<1>6. MustExecutedBefore(S) = CHOOSE f : IsExecuted(f)
  BY DEF MustExecutedBefore, Handed
<1>7. IsBefore(MustExecutedBefore(S), S, own)
  <2> HIDE DEF IsExecuted
  <2>1. QED
    BY <1>3, <1>5, <1>6
<1> HIDE DEF IsExecuted
<1>8. PICK q \in Ran(S, c) : p \in own[q] /\ n \in Reachable(S, q)
  BY <1>7, MustSound
<1>9. q \in DOMAIN S.kind
  BY RanCloses DEF Closes
<1>10. QED
  BY <1>1, <1>8, <1>9
=============================================================================
