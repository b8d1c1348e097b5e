--------------------------- MODULE StaffingProofs ---------------------------
(***************************************************************************)
(* Theorems about staffing, for every organisation, every set of rules,    *)
(* every control flow and any number of schemas, edits and instances.      *)
(***************************************************************************)
EXTENDS Staffing, ValidatorProofs

-----------------------------------------------------------------------------
(* Units form trees.                                                       *)
Tree(o) ==
  /\ IsFiniteSet(Units(o))
  /\ \A u \in Units(o) : o.units[u].parent \in Units(o) \cup {None}
  /\ \E depth \in [Units(o) -> Nat] : \A u \in Units(o) :
       o.units[u].parent # None => depth[o.units[u].parent] < depth[u]
OrgInv(o) == OrgTyped(o) /\ Tree(o)

LEMMA NoneIsNoUnit ==
  ASSUME NEW o, OrgTyped(o)
  PROVE  None \notin Units(o)
BY OrganisationAssumption DEF OrgTyped

LEMMA ForestIsTree ==
  ASSUME NEW o, Forest(o)
  PROVE  Tree(o)
<1>1. PICK depth \in [Units(o) -> 0 .. Cardinality(Units(o))] : \A u \in Units(o) :
        o.units[u].parent # None => depth[o.units[u].parent] < depth[u]
  BY DEF Forest
<1>2. Cardinality(Units(o)) \in Nat
  BY FS_CardinalityType DEF Forest
<1>3. depth \in [Units(o) -> Nat]
  BY <1>1, <1>2
<1>4. QED
  BY <1>1, <1>3 DEF Forest, Tree

LEMMA EmptyTree == OrgInv(EmptyOrg)
<1>1. EmptyOrg.units = <<>> /\ EmptyOrg.agents = <<>> /\ EmptyOrg.roles = {}
  BY DEF EmptyOrg
<1>2. Units(EmptyOrg) = {} /\ Agents(EmptyOrg) = {}
  BY <1>1 DEF Units, Agents
<1>3. [u \in {} |-> 0] \in [{} -> Nat]
  OBVIOUS
<1>4. Tree(EmptyOrg)
  BY <1>2, <1>3, FS_EmptySet DEF Tree
<1>5. OrgTyped(EmptyOrg)
  BY <1>1, <1>2, FS_EmptySet DEF OrgTyped, EmptyOrg
<1>6. QED
  BY <1>4, <1>5 DEF OrgInv

(* The walk upwards from unit u.                                           *)
Walks(up, o, u) ==
  /\ up \in [Nat -> Units(o) \cup {None}] /\ up[0] = u
  /\ \A k \in Nat : up[k + 1] = IF up[k] = None THEN None ELSE o.units[up[k]].parent

LEMMA AboveIsWalk ==
  ASSUME NEW o, Tree(o), NEW u \in Units(o)
  PROVE  \E up : /\ Walks(up, o, u)
                 /\ Above(o, u) = {up[k] : k \in 1 .. Cardinality(Units(o))} \ {None}
<1> DEFINE IsWalk(up) ==
      up = [k \in Nat |-> IF k = 0 THEN u
                          ELSE IF up[k - 1] = None THEN None ELSE o.units[up[k - 1]].parent]
<1>1. PICK T : T = Units(o) \cup {None}
  OBVIOUS
<1>2. PICK g : g = [x \in T |-> IF x = None THEN None ELSE o.units[x].parent]
  OBVIOUS
<1>3. u \in T /\ g \in [T -> T]
  BY <1>1, <1>2 DEF Tree
<1>4. PICK w : Iterates(w, T, u, g)
  BY <1>3, Iteration
<1>5. IsWalk(w)
  <2>1. ASSUME NEW k \in Nat, k # 0
        PROVE  w[k] = IF w[k - 1] = None THEN None ELSE o.units[w[k - 1]].parent
    <3>1. k - 1 \in Nat /\ (k - 1) + 1 = k
      BY <2>1
    <3>2. w[k] = g[w[k - 1]] /\ w[k - 1] \in T
      BY <1>4, <3>1 DEF Iterates
    <3>3. QED
      BY <1>2, <3>2
  <2>2. w[0] = u /\ w = [k \in Nat |-> w[k]]
    BY <1>4 DEF Iterates
  <2>3. QED
    BY <2>1, <2>2
<1> DEFINE up == CHOOSE up : IsWalk(up)
<1>6. IsWalk(up)
  BY <1>5
<1>7. Above(o, u) = {up[k] : k \in 1 .. Cardinality(Units(o))} \ {None}
  BY DEF Above
<1> HIDE DEF up
<1>8. up[0] = u /\ \A k \in Nat : up[k + 1] = IF up[k] = None THEN None ELSE o.units[up[k]].parent
  <2>1. ASSUME NEW k \in Nat
        PROVE  up[k + 1] = IF up[k] = None THEN None ELSE o.units[up[k]].parent
    <3>1. k + 1 \in Nat /\ (k + 1) - 1 = k /\ k + 1 # 0
      OBVIOUS
    <3>2. QED
      BY <1>6, <3>1
  <2>2. QED
    BY <1>6, <2>1
<1> DEFINE Typed == {k \in Nat : up[k] \in T}
<1>9. 0 \in Typed /\ \A k \in Nat : k \in Typed => k + 1 \in Typed
  BY <1>1, <1>8 DEF Tree
<1>10. Nat \subseteq Typed
  <2> HIDE DEF Typed
  <2>1. QED
    BY <1>9, AllNumbers
<1>11. up \in [Nat -> T]
  <2>1. up = [k \in Nat |-> up[k]]
    BY <1>6
  <2>2. QED
    BY <1>10, <2>1
<1>12. Walks(up, o, u)
  BY <1>1, <1>8, <1>11 DEF Walks
<1>13. QED
  BY <1>7, <1>12

(* Going up, depths decrease.                                              *)
LEMMA WalkDecreases ==
  ASSUME NEW o, OrgInv(o), NEW u \in Units(o), NEW up, Walks(up, o, u),
         NEW depth \in [Units(o) -> Nat],
         \A v \in Units(o) : o.units[v].parent # None => depth[o.units[v].parent] < depth[v],
         NEW i \in Nat, NEW j \in Nat, i < j, up[j] # None
  PROVE  /\ up[i] \in Units(o) /\ up[j] \in Units(o)
         /\ depth[up[j]] < depth[up[i]]
<1> DEFINE Less == {m \in Nat : up[i + m + 1] # None =>
                       /\ up[i] # None /\ depth[up[i + m + 1]] < depth[up[i]]}
<1>0. None \notin Units(o)
  BY NoneIsNoUnit DEF OrgInv
<1>1. ASSUME NEW k \in Nat, up[k + 1] # None
      PROVE  /\ up[k] # None /\ up[k] \in Units(o) /\ up[k + 1] \in Units(o)
             /\ depth[up[k + 1]] < depth[up[k]]
  <2>1. up[k] \in Units(o) \cup {None} /\ up[k + 1] \in Units(o) \cup {None}
    BY DEF Walks
  <2>2. up[k] # None /\ up[k + 1] = o.units[up[k]].parent
    BY <1>1 DEF Walks
  <2>3. QED
    BY <1>1, <2>1, <2>2
<1>2. 0 \in Less
  <2>1. i + 0 + 1 = i + 1
    OBVIOUS
  <2>2. QED
    BY <1>1, <2>1
<1>3. ASSUME NEW m \in Nat, m \in Less PROVE m + 1 \in Less
  <2>1. i + (m + 1) + 1 = (i + m + 1) + 1 /\ i + m + 1 \in Nat
    OBVIOUS
  <2>2. PICK k \in Nat : k = i + m + 1
    BY <2>1
  <2>3. ASSUME up[k + 1] # None PROVE up[i] # None /\ depth[up[k + 1]] < depth[up[i]]
    <3>1. up[k] # None /\ up[k] \in Units(o) /\ up[k + 1] \in Units(o) /\ depth[up[k + 1]] < depth[up[k]]
      BY <1>1, <2>3
    <3>2. up[i] # None /\ depth[up[k]] < depth[up[i]]
      BY <1>3, <2>2, <3>1
    <3>3. up[i] \in Units(o)
      BY <3>2 DEF Walks
    <3>4. QED
      BY <3>1, <3>2, <3>3
  <2>4. QED
    BY <2>1, <2>2, <2>3
<1>4. Nat \subseteq Less
  <2> HIDE DEF Less
  <2>1. QED
    BY <1>2, <1>3, AllNumbers
<1>5. PICK m \in Nat : j = i + m + 1
  <2>1. (j - i) - 1 \in Nat /\ j = i + ((j - i) - 1) + 1
    OBVIOUS
  <2>2. QED
    BY <2>1
<1>6. up[i] # None /\ depth[up[j]] < depth[up[i]]
  BY <1>4, <1>5
<1>7. QED
  BY <1>6 DEF Walks

LEMMA TreeIsAcyclic ==
  ASSUME NEW o, OrgInv(o)
  PROVE  Acyclic(o)
<1> SUFFICES ASSUME NEW u \in Units(o), u \in Above(o, u) PROVE FALSE
  BY DEF Acyclic
<1>1. Tree(o) /\ None \notin Units(o)
  BY NoneIsNoUnit DEF OrgInv
<1>2. PICK depth \in [Units(o) -> Nat] : \A v \in Units(o) :
        o.units[v].parent # None => depth[o.units[v].parent] < depth[v]
  BY <1>1 DEF Tree
<1>3. PICK up : /\ Walks(up, o, u)
                /\ Above(o, u) = {up[k] : k \in 1 .. Cardinality(Units(o))} \ {None}
  BY <1>1, AboveIsWalk
<1>4. PICK k \in 1 .. Cardinality(Units(o)) : u = up[k]
  BY <1>3
<1>5. k \in Nat /\ 0 < k /\ up[k] # None
  <2>1. Cardinality(Units(o)) \in Nat
    BY <1>1, FS_CardinalityType DEF Tree
  <2>2. QED
    BY <1>1, <1>4, <2>1
<1>6. depth[up[k]] < depth[up[0]]
  BY <1>2, <1>3, <1>5, WalkDecreases
<1>7. up[0] = u /\ depth[u] \in Nat
  BY <1>2, <1>3 DEF Walks
<1>8. QED
  BY <1>4, <1>6, <1>7

-----------------------------------------------------------------------------
(* Every edit of an organisation leaves trees.                             *)
LEMMA SameUnits ==
  ASSUME NEW o, OrgInv(o), NEW p, OrgTyped(p), Units(p) = Units(o),
         \A u \in Units(o) : p.units[u].parent = o.units[u].parent
  PROVE  OrgInv(p)
BY DEF OrgInv, Tree

LEMMA RoleAddedTree ==
  ASSUME NEW o, OrgInv(o), NEW p \in RoleAdded(o)
  PROVE  OrgInv(p)
<1>1. PICK r \in RoleIds : p = [o EXCEPT !.roles = @ \cup {r}]
  BY DEF RoleAdded
<1>2. o = [roles |-> o.roles, units |-> o.units, agents |-> o.agents]
  BY DEF OrgInv, OrgTyped
<1>3. p = [roles |-> o.roles \cup {r}, units |-> o.units, agents |-> o.agents]
  BY <1>1, <1>2
<1>4. p.roles = o.roles \cup {r} /\ p.units = o.units /\ p.agents = o.agents
  BY <1>3
<1>5. OrgTyped(p) /\ Units(p) = Units(o)
  BY <1>3, <1>4 DEF OrgInv, OrgTyped, Units, Agents
<1>6. QED
  BY <1>4, <1>5, SameUnits

(* New agents, new roles, units and deputies of agents.                    *)
LEMMA NewAgents ==
  ASSUME NEW o, OrgInv(o), NEW agents, DOMAIN agents \subseteq AgentIds,
         IsFiniteSet(DOMAIN agents), NEW p, p = [o EXCEPT !.agents = agents]
  PROVE  OrgInv(p)
<1>1. o = [roles |-> o.roles, units |-> o.units, agents |-> o.agents]
  BY DEF OrgInv, OrgTyped
<1>2. p = [roles |-> o.roles, units |-> o.units, agents |-> agents]
  BY <1>1
<1>3. p.roles = o.roles /\ p.units = o.units /\ p.agents = agents
  BY <1>2
<1>4. OrgTyped(p) /\ Units(p) = Units(o)
  BY <1>2, <1>3 DEF OrgInv, OrgTyped, Units, Agents
<1>5. QED
  BY <1>3, <1>4, SameUnits

LEMMA AgentsTree ==
  ASSUME NEW o, OrgInv(o), NEW p \in AgentAdded(o) \cup AgentUpdated(o) \cup DeputySet(o)
  PROVE  OrgInv(p)
<1>1. o = [roles |-> o.roles, units |-> o.units, agents |-> o.agents]
      /\ Agents(o) \subseteq AgentIds /\ IsFiniteSet(Agents(o))
  BY DEF OrgInv, OrgTyped
<1>2. CASE p \in AgentAdded(o)
  <2>1. PICK a, rs, u, d : a \in AgentIds /\
          p = [o EXCEPT !.agents = [b \in Agents(o) \cup {a} |->
                 IF b = a THEN [roles |-> rs, unit |-> u, deputy |-> d] ELSE @[b]]]
    BY <1>2 DEF AgentAdded
  <2>2. PICK agents : agents = [b \in Agents(o) \cup {a} |->
                 IF b = a THEN [roles |-> rs, unit |-> u, deputy |-> d] ELSE o.agents[b]]
    OBVIOUS
  <2>3. p = [o EXCEPT !.agents = agents] /\ DOMAIN agents \subseteq AgentIds
    BY <1>1, <2>1, <2>2
  <2>4. IsFiniteSet(DOMAIN agents)
    BY <1>1, <2>2, FS_AddElement
  <2>5. QED
    BY <2>3, <2>4, NewAgents
<1>3. CASE p \in AgentUpdated(o)
  <2>0. PICK a, rs, u :
          p = [o EXCEPT !.agents[a] = [roles |-> rs, unit |-> u, deputy |-> @.deputy]]
    BY <1>3 DEF AgentUpdated
  <2>1. PICK b : b = [roles |-> rs, unit |-> u, deputy |-> o.agents[a].deputy]
    OBVIOUS
  <2>2. PICK agents : agents = [o.agents EXCEPT ![a] = b]
    OBVIOUS
  <2>3. DOMAIN agents = DOMAIN o.agents /\ p = [o EXCEPT !.agents = agents]
    BY <1>1, <2>0, <2>1, <2>2
  <2>4. QED
    BY <1>1, <2>3, NewAgents DEF Agents
<1>4. CASE p \in DeputySet(o)
  <2>1. PICK a, d : p = [o EXCEPT !.agents[a].deputy = d]
    BY <1>4 DEF DeputySet
  <2>2. PICK agents : agents = [o.agents EXCEPT ![a].deputy = d]
    OBVIOUS
  <2>3. DOMAIN agents = DOMAIN o.agents /\ p = [o EXCEPT !.agents = agents]
    BY <1>1, <2>1, <2>2
  <2>4. QED
    BY <1>1, <2>3, NewAgents DEF Agents
<1>5. QED
  BY <1>2, <1>3, <1>4

LEMMA NewUnits ==
  ASSUME NEW o, OrgInv(o), NEW units, DOMAIN units \subseteq UnitIds,
         NEW p, p = [o EXCEPT !.units = units]
  PROVE  OrgTyped(p) /\ p.units = units /\ Units(p) = DOMAIN units
<1>1. o = [roles |-> o.roles, units |-> o.units, agents |-> o.agents]
  BY DEF OrgInv, OrgTyped
<1>2. p = [roles |-> o.roles, units |-> units, agents |-> o.agents]
  BY <1>1
<1>3. p.roles = o.roles /\ p.units = units /\ p.agents = o.agents
  BY <1>2
<1>4. QED
  BY <1>2, <1>3 DEF OrgInv, OrgTyped, Units, Agents

LEMMA ManagerSetTree ==
  ASSUME NEW o, OrgInv(o), NEW p \in ManagerSet(o)
  PROVE  OrgInv(p)
<1>1. PICK u \in Units(o), m \in AgentIds \cup {None} : p = [o EXCEPT !.units[u].manager = m]
  BY DEF ManagerSet
<1>2. PICK units : units = [o.units EXCEPT ![u].manager = m]
  OBVIOUS
<1>3. p = [o EXCEPT !.units = units]
  BY <1>1, <1>2 DEF OrgInv, OrgTyped
<1>4. DOMAIN units = Units(o) /\ \A v \in Units(o) : units[v].parent = o.units[v].parent
  BY <1>2 DEF Units
<1>5. OrgTyped(p) /\ p.units = units /\ Units(p) = Units(o)
  BY <1>3, <1>4, NewUnits DEF OrgInv, OrgTyped
<1>6. QED
  BY <1>4, <1>5, SameUnits

LEMMA UnitAddedTree ==
  ASSUME NEW o, OrgInv(o), NEW p \in UnitAdded(o)
  PROVE  OrgInv(p)
<1>1. PICK u \in UnitIds \ Units(o), above \in Units(o) \cup {None}, m \in AgentIds \cup {None} :
        p = [o EXCEPT !.units = [v \in Units(o) \cup {u} |->
               IF v = u THEN [parent |-> above, manager |-> m] ELSE @[v]]]
  BY DEF UnitAdded
<1>2. PICK units : units = [v \in Units(o) \cup {u} |->
                      IF v = u THEN [parent |-> above, manager |-> m] ELSE o.units[v]]
  OBVIOUS
<1>3. p = [o EXCEPT !.units = units] /\ DOMAIN units = Units(o) \cup {u}
  BY <1>1, <1>2 DEF OrgInv, OrgTyped
<1>4. OrgTyped(p) /\ p.units = units /\ Units(p) = Units(o) \cup {u}
  BY <1>3, NewUnits DEF OrgInv, OrgTyped
<1>5. /\ p.units[u].parent = above
      /\ \A v \in Units(o) : v # u /\ p.units[v].parent = o.units[v].parent
  BY <1>2, <1>4
<1>6. PICK depth \in [Units(o) -> Nat] : \A v \in Units(o) :
        o.units[v].parent # None => depth[o.units[v].parent] < depth[v]
  BY DEF OrgInv, Tree
<1>7. PICK d : d = [v \in Units(o) \cup {u} |->
                      IF v = u THEN IF above = None THEN 0 ELSE depth[above] + 1 ELSE depth[v]]
  OBVIOUS
<1>8. \A v \in Units(o) : d[v] = depth[v] /\ depth[v] \in Nat
  BY <1>5, <1>6, <1>7
<1>9. d[u] \in Nat /\ (above # None => depth[above] < d[u])
  BY <1>6, <1>7
<1>10. d \in [Units(p) -> Nat]
  BY <1>4, <1>7, <1>8, <1>9
<1>11. None \notin Units(o) /\ \A v \in Units(o) : o.units[v].parent \in Units(o) \cup {None}
  BY NoneIsNoUnit DEF OrgInv, Tree
<1>12. ASSUME NEW v \in Units(p), p.units[v].parent # None
       PROVE  d[p.units[v].parent] < d[v]
  <2>1. CASE v = u
    BY <1>1, <1>5, <1>8, <1>9, <1>12, <2>1
  <2>2. CASE v # u
    <3>1. v \in Units(o) /\ p.units[v].parent = o.units[v].parent
      BY <1>4, <1>5, <2>2
    <3>2. o.units[v].parent \in Units(o) /\ depth[o.units[v].parent] < depth[v]
      BY <1>6, <1>11, <1>12, <3>1
    <3>3. QED
      BY <1>8, <3>1, <3>2
  <2>3. QED
    BY <2>1, <2>2
<1>13. \A v \in Units(p) : p.units[v].parent \in Units(p) \cup {None}
  BY <1>1, <1>4, <1>5, <1>11
<1>14. IsFiniteSet(Units(p))
  BY <1>4, FS_AddElement DEF OrgInv, Tree
<1>15. Tree(p)
  BY <1>10, <1>12, <1>13, <1>14 DEF Tree
<1>16. QED
  BY <1>4, <1>15 DEF OrgInv

(* A unit that the walk from p does not meet in as many steps as there are *)
(* units is not met at all: on the way to it, no unit comes twice.         *)
LEMMA NotAbove ==
  ASSUME NEW o, OrgInv(o), NEW p \in Units(o), NEW up, Walks(up, o, p),
         Above(o, p) = {up[k] : k \in 1 .. Cardinality(Units(o))} \ {None},
         NEW u \in Units(o), u # p, u \notin Above(o, p)
  PROVE  \A k \in Nat : up[k] # u
<1> SUFFICES ASSUME NEW k \in Nat, up[k] = u PROVE FALSE
  OBVIOUS
<1>1. IsFiniteSet(Units(o)) /\ None \notin Units(o)
  BY NoneIsNoUnit DEF OrgInv, Tree
<1>2. PICK depth \in [Units(o) -> Nat] : \A v \in Units(o) :
        o.units[v].parent # None => depth[o.units[v].parent] < depth[v]
  BY DEF OrgInv, Tree
<1>3. PICK I : I = 0 .. k
  OBVIOUS
<1>4. PICK f : f = [i \in I |-> up[i]]
  OBVIOUS
<1>5. ASSUME NEW i \in I PROVE f[i] \in Units(o)
  <2>1. CASE i = k
    BY <1>3, <1>4, <2>1
  <2>2. CASE i # k
    <3>1. i \in Nat /\ i < k
      BY <1>3, <2>2
    <3>2. QED
      BY <1>1, <1>2, <1>4, <3>1, WalkDecreases
  <2>3. QED
    BY <2>1, <2>2
<1>6. ASSUME NEW i \in I, NEW j \in I, i < j PROVE f[i] # f[j]
  <2>1. i \in Nat /\ j \in Nat
    BY <1>3
  <2>2. f[i] \in Units(o) /\ f[j] \in Units(o) /\ f[i] = up[i] /\ f[j] = up[j]
    BY <1>4, <1>5
  <2>3. depth[f[j]] < depth[f[i]]
    BY <1>1, <1>2, <1>6, <2>1, <2>2, WalkDecreases
  <2>4. depth[f[j]] \in Nat
    BY <1>2, <2>2
  <2>5. QED
    BY <2>3, <2>4
<1>7. f \in Injection(I, Units(o))
  <2>1. \A i, j \in I : f[i] = f[j] => i = j
    <3>1. \A i, j \in I : i < j \/ j < i \/ i = j
      BY <1>3
    <3>2. QED
      BY <1>6, <3>1
  <2>2. f \in [I -> Units(o)]
    BY <1>4, <1>5
  <2>3. QED
    BY <2>1, <2>2 DEF Injection, IsInjective
<1>8. Cardinality(I) <= Cardinality(Units(o))
  BY <1>1, <1>7, FS_Injection
<1>9. Cardinality(I) = k + 1
  <2>1. 0 \in Int /\ k \in Int
    OBVIOUS
  <2>2. Cardinality(0 .. k) = IF 0 > k THEN 0 ELSE k - 0 + 1
    BY <2>1, FS_Interval
  <2>3. QED
    BY <1>3, <2>2
<1>10. Cardinality(Units(o)) \in Nat
  BY <1>1, FS_CardinalityType
<1>11. k # 0
  BY DEF Walks
<1>12. k \in 1 .. Cardinality(Units(o))
  BY <1>8, <1>9, <1>10, <1>11
<1>13. QED
  BY <1>1, <1>12

LEMMA ParentSetTree ==
  ASSUME NEW o, OrgInv(o), NEW p \in ParentSet(o)
  PROVE  OrgInv(p)
<1>1. PICK u, above :
        /\ u \in Units(o)
        /\ above \in {v \in Units(o) \ {u} : u \notin Above(o, v)} \cup {None}
        /\ p = [o EXCEPT !.units[u].parent = above]
  BY DEF ParentSet
<1>2. PICK units : units = [o.units EXCEPT ![u].parent = above]
  OBVIOUS
<1>3. p = [o EXCEPT !.units = units]
  BY <1>1, <1>2 DEF OrgInv, OrgTyped
<1>4. o.units[u].parent \in Units(o) \cup {None} /\ Tree(o) /\ None \notin Units(o)
  BY <1>1, NoneIsNoUnit DEF OrgInv, Tree
<1>5. PICK depth \in [Units(o) -> Nat] : \A v \in Units(o) :
        o.units[v].parent # None => depth[o.units[v].parent] < depth[v]
  BY <1>4 DEF Tree
<1>6. DOMAIN units = Units(o) /\ \A v \in Units(o) : v # u => units[v] = o.units[v]
  BY <1>2 DEF Units
<1>7. OrgTyped(p) /\ p.units = units /\ Units(p) = Units(o)
  BY <1>3, <1>6, NewUnits DEF OrgInv, OrgTyped
<1>8. CASE units[u].parent \in {None}
  <2>1. \A v \in Units(p) : p.units[v].parent \in Units(p) \cup {None}
    BY <1>4, <1>6, <1>7, <1>8 DEF Tree
  <2>2. \A v \in Units(p) : p.units[v].parent # None => depth[p.units[v].parent] < depth[v]
    BY <1>5, <1>6, <1>7, <1>8
  <2>3. Tree(p)
    BY <1>4, <1>5, <1>7, <2>1, <2>2 DEF Tree
  <2>4. QED
    BY <1>7, <2>3 DEF OrgInv
<1>9. CASE above \in Units(o) /\ units[u].parent = above
  <2>1. PICK up : /\ Walks(up, o, above)
                  /\ Above(o, above) = {up[k] : k \in 1 .. Cardinality(Units(o))} \ {None}
    BY <1>4, <1>9, AboveIsWalk
  <2>2. PICK chain : chain = {v \in Units(o) : \E k \in Nat : up[k] = v}
    OBVIOUS
  <2>3. u \notin chain
    <3>1. u # above /\ u \notin Above(o, above)
      BY <1>1, <1>4, <1>9
    <3>2. QED
      BY <1>9, <2>1, <2>2, <3>1, NotAbove
  <2>4. above \in chain
    BY <1>9, <2>1, <2>2 DEF Walks
  <2>5. ASSUME NEW v \in chain, o.units[v].parent # None PROVE o.units[v].parent \in chain
    <3>1. PICK k \in Nat : up[k] = v
      BY <2>2
    <3>2. up[k + 1] = o.units[v].parent /\ k + 1 \in Nat
      BY <1>4, <2>1, <2>2, <3>1 DEF Walks
    <3>3. o.units[v].parent \in Units(o)
      BY <1>4, <2>2, <2>5 DEF Tree
    <3>4. QED
      BY <2>2, <3>2, <3>3
  <2>6. PICK d : d = [v \in Units(o) |-> IF v \in chain THEN depth[v] ELSE depth[v] + depth[above] + 1]
    OBVIOUS
  <2>7. depth[above] \in Nat /\ \A v \in Units(o) : depth[v] \in Nat
    BY <1>5, <1>9
  <2>8. d \in [Units(p) -> Nat]
    BY <1>7, <2>6, <2>7
  <2>9. ASSUME NEW v \in Units(o), units[v].parent # None
        PROVE  units[v].parent \in Units(o) /\ d[units[v].parent] < d[v]
    <3>1. CASE v = u
      BY <1>9, <2>3, <2>4, <2>6, <2>7, <3>1
    <3>2. CASE v # u
      <4>1. PICK w : w = o.units[v].parent
        OBVIOUS
      <4>2. units[v].parent = w
        BY <1>6, <3>2, <4>1
      <4>3. w \in Units(o) /\ depth[w] < depth[v]
        BY <1>4, <1>5, <2>9, <4>1, <4>2 DEF Tree
      <4>4. CASE v \in chain
        <5>1. w \in chain
          BY <2>5, <2>9, <4>1, <4>2, <4>4
        <5>2. QED
          BY <2>6, <4>2, <4>3, <4>4, <5>1
      <4>5. CASE v \notin chain
        BY <2>6, <2>7, <4>2, <4>3, <4>5
      <4>6. QED
        BY <4>4, <4>5
    <3>3. QED
      BY <3>1, <3>2
  <2>10. Tree(p)
    BY <1>4, <1>7, <2>8, <2>9 DEF Tree
  <2>11. QED
    BY <1>7, <2>10 DEF OrgInv
<1>10. QED
  <2>1. CASE u \in DOMAIN o.units /\ units[u].parent = above
    BY <1>1, <1>8, <1>9, <2>1
  <2>2. QED
    BY <1>1, <1>2, <2>1 DEF Units

LEMMA EditedTree ==
  ASSUME NEW o, OrgInv(o),
         NEW p \in RoleAdded(o) \cup UnitAdded(o) \cup AgentAdded(o) \cup AgentUpdated(o)
                   \cup ManagerSet(o) \cup ParentSet(o) \cup DeputySet(o)
  PROVE  OrgInv(p)
BY RoleAddedTree, UnitAddedTree, AgentsTree, ManagerSetTree, ParentSetTree

-----------------------------------------------------------------------------
(* What a stored schema looks like, and where its link may lead.           *)
SchemaRecord(S) ==
  S = [state |-> S.state, link |-> S.link, org |-> S.org, rule |-> S.rule]
Linked ==
  /\ DOMAIN orgs \subseteq OrgIds
  /\ \A s \in DOMAIN schemas :
       SchemaRecord(schemas[s]) /\ schemas[s].link \in DOMAIN orgs \cup {None}
SInv == Linked /\ Staffable

-----------------------------------------------------------------------------
(* A schema that is stored and read again is the one that was checked, if  *)
(* a linked one was checked with the shared organisation.                  *)
LEMMA StoredAndRead ==
  ASSUME Linked, NEW S, SchemaRecord(S), S.link \in DOMAIN orgs \cup {None},
         S.link # None => S.org = orgs[S.link]
  PROVE  /\ Hydrated(Dehydrated(S)) = S
         /\ SchemaRecord(Dehydrated(S)) /\ Dehydrated(S).link = S.link
<1>1. None \notin DOMAIN orgs
  BY StaffingAssumption DEF Linked
<1>2. CASE S.link = None
  BY <1>1, <1>2 DEF Hydrated, HydratedFrom, Dehydrated
<1>3. CASE S.link # None
  <2> DEFINE D == [state |-> S.state, link |-> S.link, org |-> EmptyOrg, rule |-> S.rule]
  <2>1. Dehydrated(S) = D
    BY <1>3 DEF Dehydrated, SchemaRecord
  <2>2. Hydrated(D) = [state |-> S.state, link |-> S.link, org |-> orgs[S.link], rule |-> S.rule]
    BY <1>3 DEF Hydrated, HydratedFrom
  <2>3. QED
    BY <1>3, <2>1, <2>2 DEF SchemaRecord
<1>4. QED
  BY <1>2, <1>3

(* A commit of a schema keeps the invariant, whatever was edited.          *)
LEMMA CommitKeeps ==
  ASSUME SInv, NEW s \in DOMAIN schemas, NEW S, Commit(s, S),
         SchemaRecord(S), S.link \in DOMAIN orgs \cup {None},
         S.link # None => S.org = orgs[S.link]
  PROVE  SInv'
<1> DEFINE D == Dehydrated(S)
<1>1. /\ orgs' = orgs /\ schemas' = [schemas EXCEPT ![s] = D]
      /\ Correct(s, S)
  BY DEF Commit
<1>2. Hydrated(D) = S /\ SchemaRecord(D) /\ D.link = S.link
  BY StoredAndRead DEF SInv
<1> HIDE DEF D
<1>3. Linked'
  BY <1>1, <1>2 DEF SInv, Linked, SchemaRecord
<1>4. ASSUME NEW t \in DOMAIN schemas
      PROVE  Correct(t, HydratedFrom(orgs, schemas'[t]))
  <2>1. CASE t = s
    BY <1>1, <1>2, <2>1 DEF Hydrated
  <2>2. CASE t # s
    BY <1>1, <2>2 DEF SInv, Staffable, Hydrated
  <2>3. QED
    BY <2>1, <2>2
<1>5. Staffable'
  BY <1>1, <1>4 DEF Staffable, Hydrated
<1>6. QED
  BY <1>3, <1>5 DEF SInv

(* What a stored schema reads as is a record, with the organisation it is  *)
(* linked to.                                                              *)
LEMMA ReadBack ==
  ASSUME Linked, NEW s \in DOMAIN schemas
  PROVE  LET S == Hydrated(schemas[s]) IN
         /\ SchemaRecord(S) /\ S.link = schemas[s].link
         /\ S.link # None => S.org = orgs[S.link]
<1> DEFINE T == schemas[s]
<1>1. SchemaRecord(T) /\ T.link \in DOMAIN orgs \cup {None}
  BY DEF Linked
<1>2. CASE T.link \in DOMAIN orgs
  <2>1. Hydrated(T) = [state |-> T.state, link |-> T.link, org |-> orgs[T.link], rule |-> T.rule]
    BY <1>1, <1>2 DEF Hydrated, HydratedFrom, SchemaRecord
  <2>2. QED
    BY <2>1 DEF SchemaRecord
<1>3. CASE T.link \notin DOMAIN orgs
  BY <1>1, <1>3 DEF Hydrated, HydratedFrom
<1>4. QED
  BY <1>2, <1>3

(* An edit of the embedded organisation.                                   *)
LEMMA LocalKeeps ==
  ASSUME SInv, NEW s \in DOMAIN schemas, NEW candidates, CommitLocal(s, candidates)
  PROVE  SInv'
<1>1. PICK o \in candidates : LocalOrg(s) /\ Commit(s, [schemas[s] EXCEPT !.org = o])
  BY DEF CommitLocal
<1> DEFINE S == [schemas[s] EXCEPT !.org = o]
<1>2. SchemaRecord(schemas[s]) /\ schemas[s].link = None
  BY <1>1 DEF SInv, Linked, LocalOrg
<1>3. SchemaRecord(S) /\ S.link = None
  BY <1>2 DEF SchemaRecord
<1> HIDE DEF S
<1>4. Commit(s, S)
  BY <1>1 DEF S
<1>5. QED
  BY <1>3, <1>4, CommitKeeps

LEMMA SchemaEditKeeps ==
  ASSUME SInv, NEW s \in DOMAIN schemas, EditSchema(s)
  PROVE  SInv'
<1> DEFINE H == Hydrated(schemas[s])
<1>0. Linked /\ SchemaRecord(schemas[s]) /\ schemas[s].link \in DOMAIN orgs \cup {None}
  BY DEF SInv, Linked
<1>1. SchemaRecord(H) /\ H.link = schemas[s].link /\ (H.link # None => H.org = orgs[H.link])
  BY <1>0, ReadBack
<1> HIDE DEF H
<1>2. CASE AddRole(s)
  BY <1>2, LocalKeeps DEF AddRole
<1>3. CASE AddOrgUnit(s)
  BY <1>3, LocalKeeps DEF AddOrgUnit
<1>4. CASE AddAgent(s)
  BY <1>4, LocalKeeps DEF AddAgent
<1>5. CASE UpdateAgent(s)
  BY <1>5, LocalKeeps DEF UpdateAgent
<1>6. CASE SetOrgUnitManager(s)
  BY <1>6, LocalKeeps DEF SetOrgUnitManager
<1>7. CASE SetOrgUnitParent(s)
  BY <1>7, LocalKeeps DEF SetOrgUnitParent
<1>8. CASE SetAgentDeputy(s)
  BY <1>8, LocalKeeps DEF SetAgentDeputy
<1>9. CASE AssignStaffRule(s)
  <2>1. PICK n \in Steps(s), r \in DOMAIN Rules :
           Commit(s, [H EXCEPT !.rule = With(@, n, r)])
    BY <1>9 DEF AssignStaffRule, H
  <2> DEFINE f == With(H.rule, n, r)
             S == [H EXCEPT !.rule = f]
  <2>2. Commit(s, S)
    BY <2>1
  <2> HIDE DEF f
  <2>3. SchemaRecord(S) /\ S.link = H.link /\ S.org = H.org
    BY <1>1 DEF SchemaRecord
  <2> HIDE DEF S
  <2>4. QED
    BY <1>0, <1>1, <2>2, <2>3, CommitKeeps
<1>10. CASE LinkOrgModel(s)
  <2>1. PICK o \in DOMAIN orgs : Commit(s, Hydrated([schemas[s] EXCEPT !.link = o]))
    BY <1>10 DEF LinkOrgModel
  <2> DEFINE L == [schemas[s] EXCEPT !.link = o]
             S == Hydrated(L)
  <2>2. Commit(s, S)
    BY <2>1
  <2>3. SchemaRecord(L) /\ L.link = o
    BY <1>0 DEF SchemaRecord
  <2> HIDE DEF L
  <2>4. S = [state |-> L.state, link |-> o, org |-> orgs[o], rule |-> L.rule]
    BY <2>3 DEF SchemaRecord, Hydrated, HydratedFrom
  <2> HIDE DEF S
  <2>5. SchemaRecord(S) /\ S.link = o /\ S.org = orgs[o]
    BY <2>4 DEF SchemaRecord
  <2>6. QED
    BY <2>2, <2>5, CommitKeeps
<1>11. CASE UnlinkOrgModel(s)
  <2> DEFINE S == [H EXCEPT !.link = None]
  <2>1. Commit(s, S)
    BY <1>11 DEF UnlinkOrgModel, H
  <2>2. SchemaRecord(S) /\ S.link = None
    BY <1>1 DEF SchemaRecord
  <2> HIDE DEF S
  <2>3. QED
    BY <2>1, <2>2, CommitKeeps
<1>12. CASE Release(s)
  <2> DEFINE S == [H EXCEPT !.state = "RELEASED"]
  <2>1. Commit(s, S)
    BY <1>12 DEF Release, H
  <2>2. SchemaRecord(S) /\ S.link = H.link /\ S.org = H.org
    BY <1>1 DEF SchemaRecord
  <2> HIDE DEF S
  <2>3. QED
    BY <1>0, <1>1, <2>1, <2>2, CommitKeeps
<1>13. QED
  BY <1>2, <1>3, <1>4, <1>5, <1>6, <1>7, <1>8, <1>9, <1>10, <1>11, <1>12 DEF EditSchema

-----------------------------------------------------------------------------
(* An edit of a shared organisation has looked at every schema linked to   *)
(* it, and changes nothing for the others.                                 *)
LEMMA OrgCommitKeeps ==
  ASSUME SInv, NEW o \in DOMAIN orgs, NEW candidates, CommitOrg(o, candidates)
  PROVE  SInv'
<1>1. PICK org \in candidates :
        /\ \A s \in Referencing(o) : Correct(s, [schemas[s] EXCEPT !.org = org])
        /\ orgs' = [orgs EXCEPT ![o] = org]
  BY DEF CommitOrg
<1>2. schemas' = schemas
  BY DEF CommitOrg
<1>3. Linked'
  BY <1>1, <1>2 DEF SInv, Linked, SchemaRecord
<1>4. ASSUME NEW s \in DOMAIN schemas
      PROVE  Correct(s, HydratedFrom(orgs', schemas[s]))
  <2>1. CASE schemas[s].link = o
    <3>1. HydratedFrom(orgs', schemas[s]) = [schemas[s] EXCEPT !.org = org]
      BY <1>1, <2>1 DEF HydratedFrom
    <3>2. s \in Referencing(o)
      BY <2>1 DEF Referencing
    <3>3. QED
      BY <1>1, <3>1, <3>2
  <2>2. CASE schemas[s].link # o
    <3>1. HydratedFrom(orgs', schemas[s]) = HydratedFrom(orgs, schemas[s])
      BY <1>1, <2>2 DEF HydratedFrom
    <3>2. QED
      BY <3>1 DEF SInv, Staffable, Hydrated
  <2>3. QED
    BY <2>1, <2>2
<1>5. Staffable'
  BY <1>2, <1>4 DEF Staffable, Hydrated
<1>6. QED
  BY <1>3, <1>5 DEF SInv

LEMMA OrgEditKeeps ==
  ASSUME SInv, NEW o \in DOMAIN orgs, EditOrg(o)
  PROVE  SInv'
<1>1. CASE OrgAddRole(o)
  BY <1>1, OrgCommitKeeps DEF OrgAddRole
<1>2. CASE OrgAddUnit(o)
  BY <1>2, OrgCommitKeeps DEF OrgAddUnit
<1>3. CASE OrgAddAgent(o)
  BY <1>3, OrgCommitKeeps DEF OrgAddAgent
<1>4. CASE OrgUpdateAgent(o)
  BY <1>4, OrgCommitKeeps DEF OrgUpdateAgent
<1>5. CASE OrgSetManager(o)
  BY <1>5, OrgCommitKeeps DEF OrgSetManager
<1>6. CASE OrgSetParent(o)
  BY <1>6, OrgCommitKeeps DEF OrgSetParent
<1>7. CASE OrgSetDeputy(o)
  BY <1>7, OrgCommitKeeps DEF OrgSetDeputy
<1>8. QED
  BY <1>1, <1>2, <1>3, <1>4, <1>5, <1>6, <1>7 DEF EditOrg

(* A new organisation is nobody's, as long as it takes no old id.          *)
LEMMA CreationKeeps ==
  ASSUME SInv, NamedIds = {}, CreateOrgModel
  PROVE  SInv'
<1>1. PICK o \in OrgIds \ DOMAIN orgs :
        orgs' = [p \in DOMAIN orgs \cup {o} |-> IF p = o THEN EmptyOrg ELSE orgs[p]]
  BY DEF CreateOrgModel
<1>2. schemas' = schemas
  BY DEF CreateOrgModel
<1>3. Linked'
  BY <1>1, <1>2 DEF SInv, Linked, SchemaRecord
<1>4. ASSUME NEW s \in DOMAIN schemas
      PROVE  HydratedFrom(orgs', schemas[s]) = HydratedFrom(orgs, schemas[s])
  <2>1. schemas[s].link # o
    BY <1>1, StaffingAssumption DEF SInv, Linked
  <2>2. QED
    BY <1>1, <2>1 DEF HydratedFrom
<1>5. Staffable'
  BY <1>2, <1>4 DEF SInv, Staffable, Hydrated
<1>6. QED
  BY <1>3, <1>5 DEF SInv

-----------------------------------------------------------------------------
(* As long as no client names the id of an organisation again, no edit of  *)
(* an organisation, of a link or of a rule ever leaves a stored schema, in *)
(* work or released, with a rule that refers to nothing or that nobody can *)
(* satisfy: the checks of _commit_org_or_422 and of the operations suffice.*)
THEOREM StaffingKept ==
  ASSUME NamedIds = {}
  PROVE  Spec => []Staffable
<1>1. Init => SInv
  <2> SUFFICES ASSUME Init PROVE SInv
    OBVIOUS
  <2>1. PICK start \in Starts : orgs = start.orgs /\ schemas = start.schemas
    BY DEF Init
  <2>2. QED
    BY <2>1, StartsAssumption DEF SInv, Linked, SchemaRecord, SchemaTyped, Staffable, Hydrated
<1>2. SInv /\ [Next]_vars => SInv'
  <2> SUFFICES ASSUME SInv, [Next]_vars PROVE SInv'
    OBVIOUS
  <2>1. ASSUME NEW s \in DOMAIN schemas, EditSchema(s) PROVE SInv'
    BY <2>1, SchemaEditKeeps
  <2>2. ASSUME NEW o \in DOMAIN orgs, EditOrg(o) PROVE SInv'
    BY <2>2, OrgEditKeeps
  <2>3. CASE CreateOrgModel
    BY <2>3, CreationKeeps
  <2>4. ASSUME orgs' = orgs, schemas' = schemas PROVE SInv'
    BY <2>4 DEF SInv, Linked, SchemaRecord, Staffable, Hydrated
  <2>5. ASSUME NEW s \in DOMAIN schemas, Instantiate(s) PROVE SInv'
    BY <2>4, <2>5 DEF Instantiate
  <2>6. ASSUME NEW k, NEW n, NEW a, CompleteActivity(k, n, a) PROVE SInv'
    BY <2>4, <2>6 DEF CompleteActivity
  <2>7. CASE UNCHANGED vars
    BY <2>4, <2>7 DEF vars
  <2>8. QED
    BY <2>1, <2>2, <2>3, <2>5, <2>6, <2>7 DEF Next
<1>3. SInv => Staffable
  BY DEF SInv
<1>4. QED
  BY <1>1, <1>2, <1>3, PTL DEF Spec

-----------------------------------------------------------------------------
(* The stores are well typed and hold trees, whatever ids clients name.    *)
StoreTyped ==
  /\ Linked /\ left \in Nat
  /\ \A o \in DOMAIN orgs : OrgInv(orgs[o])
  /\ \A s \in DOMAIN schemas : SchemaTyped(s, schemas[s]) /\ OrgInv(schemas[s].org)

(* A candidate of an edit of schema s.                                     *)
Candidate(s, S) ==
  /\ SchemaRecord(S) /\ S.link \in DOMAIN orgs \cup {None}
  /\ S.state \in {"ENTWURF", "RELEASED"} /\ OrgInv(S.org)
  /\ \A n \in DOMAIN S.rule : n \in Steps(s) /\ S.rule[n] \in DOMAIN Rules

LEMMA CommitTyped ==
  ASSUME StoreTyped, NEW s \in DOMAIN schemas, NEW S, Candidate(s, S), Commit(s, S)
  PROVE  StoreTyped' /\ DOMAIN schemas' = DOMAIN schemas
<1>1. PICK D : D = Dehydrated(S)
  OBVIOUS
<1>2. /\ orgs' = orgs /\ schemas' = [schemas EXCEPT ![s] = D]
      /\ left > 0 /\ left' = left - 1
  BY <1>1 DEF Commit, Edited
<1>3. /\ SchemaRecord(D) /\ D.link = S.link /\ D.state = S.state /\ D.rule = S.rule
      /\ OrgInv(D.org) /\ (D.link # None => D.org = EmptyOrg)
  <2>1. CASE S.link = None
    BY <1>1, <2>1 DEF Dehydrated, Candidate
  <2>2. CASE S.link # None
    <3>1. D = [state |-> S.state, link |-> S.link, org |-> EmptyOrg, rule |-> S.rule]
      BY <1>1, <2>2 DEF Dehydrated, Candidate, SchemaRecord
    <3>2. D.link = S.link /\ D.state = S.state /\ D.rule = S.rule /\ D.org = EmptyOrg
      BY <3>1
    <3>3. SchemaRecord(D)
      BY <3>1 DEF SchemaRecord
    <3>4. QED
      BY <3>2, <3>3, EmptyTree
  <2>3. QED
    BY <2>1, <2>2
<1>4. s \in SchemaIds
  BY DEF StoreTyped, SchemaTyped
<1>5. SchemaTyped(s, D)
  BY <1>3, <1>4 DEF Candidate, SchemaTyped, SchemaRecord, OrgInv
<1>6. ASSUME NEW t \in DOMAIN schemas
      PROVE  /\ SchemaTyped(t, schemas'[t]) /\ OrgInv(schemas'[t].org)
             /\ SchemaRecord(schemas'[t]) /\ schemas'[t].link \in DOMAIN orgs \cup {None}
  <2>1. CASE t = s
    <3>1. schemas'[t] = D
      BY <1>2, <2>1
    <3>2. QED
      BY <1>3, <1>5, <2>1, <3>1 DEF Candidate
  <2>2. CASE t # s
    <3>1. schemas'[t] = schemas[t]
      BY <1>2, <2>2
    <3>2. QED
      BY <3>1 DEF StoreTyped, Linked
  <2>3. QED
    BY <2>1, <2>2
<1>7. DOMAIN schemas' = DOMAIN schemas
  BY <1>2
<1>8. left' \in Nat
  BY <1>2 DEF StoreTyped
<1>9. Linked'
  BY <1>2, <1>6, <1>7 DEF StoreTyped, Linked, SchemaRecord
<1>10. QED
  BY <1>2, <1>6, <1>7, <1>8, <1>9 DEF StoreTyped

Edits(o) ==
  RoleAdded(o) \cup UnitAdded(o) \cup AgentAdded(o) \cup AgentUpdated(o)
    \cup ManagerSet(o) \cup ParentSet(o) \cup DeputySet(o)

LEMMA LocalTyped ==
  ASSUME StoreTyped, NEW s \in DOMAIN schemas, NEW candidates, CommitLocal(s, candidates),
         candidates \subseteq Edits(schemas[s].org)
  PROVE  StoreTyped' /\ DOMAIN schemas' = DOMAIN schemas
<1>1. PICK o \in Edits(schemas[s].org) :
        LocalOrg(s) /\ Commit(s, [schemas[s] EXCEPT !.org = o])
  BY DEF CommitLocal
<1>2. PICK T : T = schemas[s]
  OBVIOUS
<1>3. PICK S : S = [T EXCEPT !.org = o]
  OBVIOUS
<1>4. SchemaTyped(s, T) /\ OrgInv(T.org) /\ T.link = None
  BY <1>1, <1>2 DEF StoreTyped, LocalOrg
<1>5. OrgInv(o)
  BY <1>1, <1>2, <1>4, EditedTree DEF Edits
<1>6. S = [state |-> T.state, link |-> T.link, org |-> o, rule |-> T.rule]
  BY <1>3, <1>4 DEF SchemaTyped
<1>7. S.state = T.state /\ S.link = T.link /\ S.org = o /\ S.rule = T.rule
  BY <1>6
<1>8. SchemaRecord(S)
  BY <1>6 DEF SchemaRecord
<1>9. Candidate(s, S)
  BY <1>4, <1>5, <1>7, <1>8 DEF Candidate, SchemaTyped
<1>10. QED
  BY <1>1, <1>2, <1>3, <1>9, CommitTyped

LEMMA HydratedTyped ==
  ASSUME StoreTyped, NEW s, NEW T, SchemaTyped(s, T), OrgInv(T.org),
         T.link \in DOMAIN orgs \cup {None}
  PROVE  Candidate(s, Hydrated(T)) /\ Hydrated(T).link = T.link
<1>1. CASE T.link \in DOMAIN orgs
  <2>1. PICK S : S = Hydrated(T)
    OBVIOUS
  <2>2. S = [state |-> T.state, link |-> T.link, org |-> orgs[T.link], rule |-> T.rule]
    BY <1>1, <2>1 DEF Hydrated, HydratedFrom, SchemaTyped
  <2>3. S.state = T.state /\ S.link = T.link /\ S.org = orgs[T.link] /\ S.rule = T.rule
    BY <2>2
  <2>4. SchemaRecord(S)
    BY <2>2 DEF SchemaRecord
  <2>5. OrgInv(S.org)
    BY <1>1, <2>3 DEF StoreTyped
  <2>6. Candidate(s, S)
    BY <2>3, <2>4, <2>5 DEF Candidate, SchemaTyped
  <2>7. QED
    BY <2>1, <2>3, <2>6
<1>2. CASE T.link \notin DOMAIN orgs
  BY <1>2 DEF Hydrated, HydratedFrom, Candidate, SchemaTyped, SchemaRecord
<1>3. QED
  BY <1>1, <1>2

LEMMA SchemaEditTyped ==
  ASSUME StoreTyped, NEW s \in DOMAIN schemas, EditSchema(s)
  PROVE  StoreTyped' /\ DOMAIN schemas' = DOMAIN schemas
<1>1. PICK T : T = schemas[s]
  OBVIOUS
<1>2. SchemaTyped(s, T) /\ OrgInv(T.org) /\ T.link \in DOMAIN orgs \cup {None}
  BY <1>1 DEF StoreTyped, Linked
<1>3. PICK H : H = Hydrated(T)
  OBVIOUS
<1>4. Candidate(s, H) /\ H.link = T.link
  BY <1>2, <1>3, HydratedTyped
<1>5. H = [state |-> H.state, link |-> H.link, org |-> H.org, rule |-> H.rule]
  BY <1>4 DEF Candidate, SchemaRecord
<1>6. CASE \/ AddRole(s) \/ AddOrgUnit(s) \/ AddAgent(s) \/ UpdateAgent(s)
           \/ SetOrgUnitManager(s) \/ SetOrgUnitParent(s) \/ SetAgentDeputy(s)
  <2>1. \E candidates : CommitLocal(s, candidates) /\ candidates \subseteq Edits(T.org)
    BY <1>1, <1>6 DEF AddRole, AddOrgUnit, AddAgent, UpdateAgent, SetOrgUnitManager,
                      SetOrgUnitParent, SetAgentDeputy, Edits
  <2>2. QED
    BY <1>1, <2>1, LocalTyped
<1>7. CASE AssignStaffRule(s)
  <2>1. PICK n \in Steps(s), r \in DOMAIN Rules : Commit(s, [H EXCEPT !.rule = With(@, n, r)])
    BY <1>1, <1>3, <1>7 DEF AssignStaffRule
  <2>2. PICK f : f = With(H.rule, n, r)
    OBVIOUS
  <2>3. PICK S : S = [H EXCEPT !.rule = f]
    OBVIOUS
  <2>4. S = [state |-> H.state, link |-> H.link, org |-> H.org, rule |-> f]
    BY <1>5, <2>3
  <2>5. S.state = H.state /\ S.link = H.link /\ S.org = H.org /\ S.rule = f
    BY <2>4
  <2>6. SchemaRecord(S)
    BY <2>4 DEF SchemaRecord
  <2>7. \A m \in DOMAIN f : m \in Steps(s) /\ f[m] \in DOMAIN Rules
    BY <1>4, <2>2 DEF Candidate, With
  <2>8. Candidate(s, S)
    BY <1>4, <2>5, <2>6, <2>7 DEF Candidate
  <2>9. QED
    BY <2>1, <2>2, <2>3, <2>8, CommitTyped
<1>8. CASE LinkOrgModel(s)
  <2>1. PICK o \in DOMAIN orgs : Commit(s, Hydrated([T EXCEPT !.link = o]))
    BY <1>1, <1>8 DEF LinkOrgModel
  <2>2. PICK L : L = [T EXCEPT !.link = o]
    OBVIOUS
  <2>3. L = [state |-> T.state, link |-> o, org |-> T.org, rule |-> T.rule]
    BY <1>2, <2>2 DEF SchemaTyped
  <2>4. L.state = T.state /\ L.link = o /\ L.org = T.org /\ L.rule = T.rule
    BY <2>3
  <2>5. PICK S : S = [state |-> T.state, link |-> o, org |-> orgs[o], rule |-> T.rule]
    OBVIOUS
  <2>6. S = Hydrated(L)
    BY <2>1, <2>3, <2>4, <2>5 DEF Hydrated, HydratedFrom
  <2>7. SchemaRecord(S) /\ OrgInv(S.org) /\ S.link = o /\ S.state = T.state /\ S.rule = T.rule
    BY <2>5 DEF SchemaRecord, StoreTyped
  <2>8. Candidate(s, S)
    BY <1>2, <2>7 DEF Candidate, SchemaTyped
  <2>9. QED
    BY <2>1, <2>2, <2>6, <2>8, CommitTyped
<1>9. CASE UnlinkOrgModel(s)
  <2>1. PICK S : S = [H EXCEPT !.link = None]
    OBVIOUS
  <2>2. Commit(s, S)
    BY <1>1, <1>3, <1>9, <2>1 DEF UnlinkOrgModel
  <2>3. S = [state |-> H.state, link |-> None, org |-> H.org, rule |-> H.rule]
    BY <1>5, <2>1
  <2>4. S.state = H.state /\ S.link = None /\ S.org = H.org /\ S.rule = H.rule
    BY <2>3
  <2>5. SchemaRecord(S)
    BY <2>3 DEF SchemaRecord
  <2>6. Candidate(s, S)
    BY <1>4, <2>4, <2>5 DEF Candidate
  <2>7. QED
    BY <2>2, <2>6, CommitTyped
<1>10. CASE Release(s)
  <2>1. PICK S : S = [H EXCEPT !.state = "RELEASED"]
    OBVIOUS
  <2>2. Commit(s, S)
    BY <1>1, <1>3, <1>10, <2>1 DEF Release
  <2>3. S = [state |-> "RELEASED", link |-> H.link, org |-> H.org, rule |-> H.rule]
    BY <1>5, <2>1
  <2>4. S.state = "RELEASED" /\ S.link = H.link /\ S.org = H.org /\ S.rule = H.rule
    BY <2>3
  <2>5. SchemaRecord(S)
    BY <2>3 DEF SchemaRecord
  <2>6. Candidate(s, S)
    BY <1>4, <2>4, <2>5 DEF Candidate
  <2>7. QED
    BY <2>2, <2>6, CommitTyped
<1>11. QED
  BY <1>6, <1>7, <1>8, <1>9, <1>10 DEF EditSchema

LEMMA OrgEditTyped ==
  ASSUME StoreTyped, NEW o \in DOMAIN orgs, EditOrg(o)
  PROVE  StoreTyped' /\ schemas' = schemas
<1>1. \E candidates : CommitOrg(o, candidates) /\ candidates \subseteq Edits(orgs[o])
  BY DEF EditOrg, OrgAddRole, OrgAddUnit, OrgAddAgent, OrgUpdateAgent, OrgSetManager,
         OrgSetParent, OrgSetDeputy, Edits
<1>2. PICK org \in Edits(orgs[o]) : orgs' = [orgs EXCEPT ![o] = org]
  BY <1>1 DEF CommitOrg
<1>3. schemas' = schemas /\ left > 0 /\ left' = left - 1
  BY <1>1 DEF CommitOrg, Edited
<1>4. OrgInv(org)
  BY <1>2, EditedTree DEF StoreTyped, Edits
<1>5. \A p \in DOMAIN orgs' : OrgInv(orgs'[p])
  BY <1>2, <1>4 DEF StoreTyped
<1>6. Linked'
  BY <1>2, <1>3 DEF StoreTyped, Linked, SchemaRecord
<1>7. QED
  BY <1>3, <1>5, <1>6 DEF StoreTyped

LEMMA CreationTyped ==
  ASSUME StoreTyped, CreateOrgModel
  PROVE  StoreTyped' /\ schemas' = schemas
<1>1. PICK o \in OrgIds : orgs' = [p \in DOMAIN orgs \cup {o} |-> IF p = o THEN EmptyOrg ELSE orgs[p]]
  BY StaffingAssumption DEF CreateOrgModel
<1>2. schemas' = schemas /\ left > 0 /\ left' = left - 1
  BY DEF CreateOrgModel, Edited
<1>3. \A p \in DOMAIN orgs' : OrgInv(orgs'[p])
  BY <1>1, EmptyTree DEF StoreTyped
<1>4. Linked'
  BY <1>1, <1>2 DEF StoreTyped, Linked, SchemaRecord
<1>5. QED
  BY <1>2, <1>3, <1>4 DEF StoreTyped

-----------------------------------------------------------------------------
(* What an instance looks like: it runs on a stored schema, on one of its  *)
(* routes, and only steps are completed.                                   *)
InstanceRecords ==
  [schema : DOMAIN schemas, route : UNION {Routes(Graph[s]) : s \in SchemaIds},
   done : SUBSET AllNodes, by : [AllNodes -> AgentIds \cup {None}]]
Runs(i) == i.route \in Routes(Graph[i.schema]) /\ i.done \subseteq Steps(i.schema)
InstancesTyped ==
  instances \in Seq(InstanceRecords) /\ \A k \in DOMAIN instances : Runs(instances[k])
TInv == StoreTyped /\ InstancesTyped

LEMMA StartTyped == Init => TInv
<1> SUFFICES ASSUME Init PROVE TInv
  OBVIOUS
<1>1. PICK start \in Starts :
        orgs = start.orgs /\ schemas = start.schemas /\ left = start.left
  BY DEF Init
<1>2. /\ DOMAIN orgs \subseteq OrgIds /\ left \in Nat
      /\ \A o \in DOMAIN orgs : OrgTyped(orgs[o]) /\ Forest(orgs[o])
      /\ \A s \in DOMAIN schemas :
           /\ SchemaTyped(s, schemas[s]) /\ Forest(schemas[s].org)
           /\ schemas[s].link \in DOMAIN orgs \cup {None}
  BY <1>1, StartsAssumption
<1>3. \A o \in DOMAIN orgs : OrgInv(orgs[o])
  BY <1>2, ForestIsTree DEF OrgInv
<1>4. \A s \in DOMAIN schemas : OrgInv(schemas[s].org)
  BY <1>2, ForestIsTree DEF OrgInv, SchemaTyped
<1>5. Linked
  BY <1>2 DEF Linked, SchemaTyped, SchemaRecord
<1>6. StoreTyped
  BY <1>2, <1>3, <1>4, <1>5 DEF StoreTyped
<1>7. InstancesTyped
  BY DEF Init, InstancesTyped
<1>8. QED
  BY <1>6, <1>7 DEF TInv

LEMMA EditTyped ==
  ASSUME TInv, StoreTyped', DOMAIN schemas' = DOMAIN schemas, instances' = instances
  PROVE  TInv'
<1>1. InstanceRecords' = InstanceRecords
  BY DEF InstanceRecords
<1>2. InstancesTyped'
  BY <1>1 DEF TInv, InstancesTyped, Runs
<1>3. QED
  BY <1>2 DEF TInv

LEMMA InstantiateTyped ==
  ASSUME TInv, NEW s \in DOMAIN schemas, Instantiate(s)
  PROVE  TInv'
<1>1. PICK c \in Routes(Graph[s]) :
        instances' = Append(instances, [schema |-> s, route |-> c, done |-> {},
                                        by |-> [n \in AllNodes |-> None]])
  BY DEF Instantiate
<1>2. orgs' = orgs /\ schemas' = schemas /\ left' = left
  BY DEF Instantiate
<1>3. PICK i : i = [schema |-> s, route |-> c, done |-> {}, by |-> [n \in AllNodes |-> None]]
  OBVIOUS
<1>4. s \in SchemaIds
  BY DEF TInv, StoreTyped, SchemaTyped
<1>5. i \in InstanceRecords /\ Runs(i)
  BY <1>3, <1>4 DEF InstanceRecords, Runs
<1>6. instances \in Seq(InstanceRecords) /\ instances' = Append(instances, i)
  BY <1>1, <1>3 DEF TInv, InstancesTyped
<1>7. instances' \in Seq(InstanceRecords)
  BY <1>5, <1>6
<1>8. \A k \in DOMAIN instances' : Runs(instances'[k])
  BY <1>5, <1>6 DEF TInv, InstancesTyped
<1>9. InstanceRecords' = InstanceRecords /\ StoreTyped'
  BY <1>2 DEF InstanceRecords, TInv, StoreTyped, Linked, SchemaRecord
<1>10. InstancesTyped'
  BY <1>7, <1>8, <1>9 DEF InstancesTyped, Runs
<1>11. QED
  BY <1>9, <1>10 DEF TInv

LEMMA CompleteTyped ==
  ASSUME TInv, NEW k \in DOMAIN instances, NEW n \in Open(instances[k]),
         NEW a \in AgentIds \cup {None}, CompleteActivity(k, n, a)
  PROVE  TInv'
<1>1. PICK i : i = instances[k]
  OBVIOUS
<1>2. i \in InstanceRecords /\ Runs(i) /\ instances \in Seq(InstanceRecords)
  BY <1>1 DEF TInv, InstancesTyped
<1>3. n \in Steps(i.schema)
  BY <1>1 DEF Open
<1>4. i.schema \in DOMAIN schemas /\ i.schema \in SchemaIds
  BY <1>2 DEF InstanceRecords, TInv, StoreTyped, SchemaTyped
<1>5. n \in AllNodes
  BY <1>3, <1>4 DEF Steps, NodesOfKind, AllNodes
<1>6. PICK j : j = [schema |-> i.schema, route |-> i.route, done |-> i.done \cup {n},
                    by |-> [i.by EXCEPT ![n] = a]]
  OBVIOUS
<1>7. j = [i EXCEPT !.done = @ \cup {n}, !.by[n] = a]
  <2>1. i = [schema |-> i.schema, route |-> i.route, done |-> i.done, by |-> i.by]
    BY <1>2 DEF InstanceRecords
  <2>2. PICK b : b = [i.by EXCEPT ![n] = a]
    OBVIOUS
  <2>3. PICK h : h = [i EXCEPT !.done = @ \cup {n}]
    OBVIOUS
  <2>4. h = [schema |-> i.schema, route |-> i.route, done |-> i.done \cup {n}, by |-> i.by]
    BY <2>1, <2>3
  <2>5. [h EXCEPT !.by = b]
          = [schema |-> i.schema, route |-> i.route, done |-> i.done \cup {n}, by |-> b]
    BY <2>4
  <2>6. j = [h EXCEPT !.by = b] /\ h.by = i.by
    BY <1>6, <2>2, <2>4, <2>5
  <2>7. j = [h EXCEPT !.by = [h.by EXCEPT ![n] = a]]
    BY <2>2, <2>6
  <2>8. QED
    BY <2>3, <2>7
<1>8. instances' = [instances EXCEPT ![k] = j]
  BY <1>1, <1>7 DEF CompleteActivity
<1>9. j \in InstanceRecords
  BY <1>2, <1>5, <1>6 DEF InstanceRecords
<1>10. Runs(j)
  BY <1>2, <1>3, <1>6 DEF Runs
<1>11. instances' \in Seq(InstanceRecords)
  BY <1>2, <1>8, <1>9
<1>12. \A l \in DOMAIN instances' : Runs(instances'[l])
  BY <1>2, <1>8, <1>10 DEF TInv, InstancesTyped
<1>13. orgs' = orgs /\ schemas' = schemas /\ left' = left
  BY DEF CompleteActivity
<1>14. InstanceRecords' = InstanceRecords /\ StoreTyped'
  BY <1>13 DEF InstanceRecords, TInv, StoreTyped, Linked, SchemaRecord
<1>15. InstancesTyped'
  BY <1>11, <1>12, <1>14 DEF InstancesTyped, Runs
<1>16. QED
  BY <1>14, <1>15 DEF TInv

LEMMA StepTyped == TInv /\ [Next]_vars => TInv'
<1> SUFFICES ASSUME TInv, [Next]_vars PROVE TInv'
  OBVIOUS
<1>0. StoreTyped
  BY DEF TInv
<1>1. ASSUME NEW s \in DOMAIN schemas, EditSchema(s) PROVE TInv'
  <2>1. StoreTyped' /\ DOMAIN schemas' = DOMAIN schemas
    BY <1>0, <1>1, SchemaEditTyped
  <2>2. instances' = instances
    BY <1>1 DEF EditSchema, AddRole, AddOrgUnit, AddAgent, UpdateAgent, SetOrgUnitManager,
                SetOrgUnitParent, SetAgentDeputy, AssignStaffRule, LinkOrgModel,
                UnlinkOrgModel, Release, CommitLocal, Commit, Edited
  <2>3. QED
    BY <2>1, <2>2, EditTyped
<1>2. ASSUME NEW o \in DOMAIN orgs, EditOrg(o) PROVE TInv'
  <2>1. StoreTyped' /\ schemas' = schemas
    BY <1>0, <1>2, OrgEditTyped
  <2>2. instances' = instances
    BY <1>2 DEF EditOrg, OrgAddRole, OrgAddUnit, OrgAddAgent, OrgUpdateAgent, OrgSetManager,
                OrgSetParent, OrgSetDeputy, CommitOrg, Edited
  <2>3. QED
    BY <2>1, <2>2, EditTyped
<1>3. CASE CreateOrgModel
  <2>1. StoreTyped' /\ schemas' = schemas
    BY <1>0, <1>3, CreationTyped
  <2>2. instances' = instances
    BY <1>3 DEF CreateOrgModel, Edited
  <2>3. QED
    BY <2>1, <2>2, EditTyped
<1>4. ASSUME NEW s \in DOMAIN schemas, Instantiate(s) PROVE TInv'
  BY <1>4, InstantiateTyped
<1>5. ASSUME NEW k \in DOMAIN instances, NEW a \in AgentIds \cup {None},
             NEW n \in Open(instances[k]), CompleteActivity(k, n, a)
      PROVE  TInv'
  BY <1>5, CompleteTyped
<1>6. CASE UNCHANGED vars
  <2>1. orgs' = orgs /\ schemas' = schemas /\ instances' = instances /\ left' = left
    BY <1>6 DEF vars
  <2>2. StoreTyped'
    BY <1>0, <2>1 DEF StoreTyped, Linked, SchemaRecord
  <2>3. QED
    BY <2>1, <2>2, EditTyped
<1>7. QED
  BY <1>1, <1>2, <1>3, <1>4, <1>5, <1>6 DEF Next

(* The stores and the instances are well typed, and a linked schema keeps  *)
(* no copy of the shared organisation: whatever is edited, copied, linked  *)
(* or created, under whatever id.                                          *)
THEOREM StaffingTyped == Spec => []TypeOK
<1>1. TInv => TypeOK
  BY DEF TInv, StoreTyped, Linked, OrgInv, InstancesTyped, InstanceRecords, Runs, TypeOK
<1>2. QED
  BY <1>1, StartTyped, StepTyped, PTL DEF Spec

(* The hierarchies of units stay trees: the walk of set_org_unit_parent    *)
(* suffices, although neither the schema's rules nor linking and copying   *)
(* look at the hierarchy again.                                            *)
THEOREM UnitsStayTrees == Spec => []TreesStayTrees
<1>1. TInv => TreesStayTrees
  BY TreeIsAcyclic DEF TInv, StoreTyped, OrgInv, TreesStayTrees
<1>2. QED
  BY <1>1, StartTyped, StepTyped, PTL DEF Spec

-----------------------------------------------------------------------------
LEMMA ReadsRules ==
  ASSUME Linked, NEW s \in DOMAIN schemas
  PROVE  Hydrated(schemas[s]).rule = schemas[s].rule
BY DEF Linked, SchemaRecord, Hydrated, HydratedFrom

LEMMA RefersBack ==
  ASSUME TInv, Staffable
  PROVE  ReferencesBefore
<1> SUFFICES ASSUME NEW k \in DOMAIN instances,
                    NEW n \in Open(instances[k]) \cap DOMAIN schemas[instances[k].schema].rule,
                    NEW p \in NodeRefs(schemas[instances[k].schema].rule[n])
                                \cap Steps(instances[k].schema)
             PROVE  p \in instances[k].done
  BY DEF ReferencesBefore
<1>1. PICK i, s, G : i = instances[k] /\ s = i.schema /\ G = Graph[s]
  OBVIOUS
<1>2. i \in InstanceRecords /\ Runs(i)
  BY <1>1 DEF TInv, InstancesTyped
<1>3. s \in DOMAIN schemas /\ s \in SchemaIds /\ i.route \in Routes(G)
  BY <1>1, <1>2 DEF InstanceRecords, Runs, TInv, StoreTyped, SchemaTyped
<1>4. NodeRefs(schemas[s].rule[n]) \subseteq Before[s][n]
  <2>1. Hydrated(schemas[s]).rule = schemas[s].rule
    BY <1>3, ReadsRules DEF TInv, StoreTyped
  <2>2. Z3BackRefs(s, Hydrated(schemas[s]))
    BY <1>3 DEF Staffable, Correct
  <2>3. QED
    BY <1>1, <2>1, <2>2 DEF Z3BackRefs
<1>5. p \in MustExecutedBefore(G)[n]
  BY <1>1, <1>3, <1>4 DEF Before
<1>6. RunsOn[s][i.route] = Ran(G, i.route)
  BY <1>1, <1>3 DEF RunsOn
<1>7. n \in Ran(G, i.route)
  BY <1>1, <1>6 DEF Open
<1>8. IsFiniteSet(DOMAIN G.kind) /\ Whole(G, i.route) /\ Rooted(G)
  BY <1>1, <1>3, GraphAssumption DEF Whole, Rooted
<1>9. p \in Ran(G, i.route) /\ n \in Reachable(G, p)
  BY <1>5, <1>7, <1>8, ExecutedBefore
<1>10. p \in DOMAIN G.kind
  BY <1>1 DEF Steps, NodesOfKind
<1>11. Behind[s][p] = Reachable(G, p)
  BY <1>1, <1>3, <1>10 DEF Behind
<1>12. p \in Steps(s) \cap RunsOn[s][i.route] /\ n \in Behind[s][p]
  BY <1>1, <1>6, <1>9, <1>11
<1>13. QED
  BY <1>1, <1>12 DEF Open

(* When a step is open, the steps whose performers its rule refers to are  *)
(* done: on every route, in every order of parallel steps, whatever was    *)
(* assigned or released meanwhile, as long as no client names the id of an *)
(* organisation again.                                                     *)
THEOREM ReferencesFirst ==
  ASSUME NamedIds = {}
  PROVE  Spec => []ReferencesBefore
<1>1. TInv /\ Staffable => ReferencesBefore
  BY RefersBack
<1>2. Spec => []Staffable
  BY StaffingKept
<1>3. Spec => []TInv
  BY StartTyped, StepTyped, PTL DEF Spec
<1>4. QED
  BY <1>1, <1>2, <1>3, PTL

-----------------------------------------------------------------------------
(* Equations that give a value at x by the values of lesser depth have a   *)
(* solution, as far as the depth is bounded.                               *)
ByDepth(g, D, V, d, depth) ==
  /\ [D -> V] # {} /\ d \in Nat /\ depth \in [D -> 0 .. d] /\ g \in [[D -> V] -> [D -> V]]
  /\ \A f, h \in [D -> V], x \in D :
       (\A y \in D : depth[y] < depth[x] => f[y] = h[y]) => g[f][x] = g[h][x]
LEMMA DepthRecursion ==
  ASSUME NEW D, NEW V, NEW d, NEW depth, NEW g, ByDepth(g, D, V, d, depth)
  PROVE  \E f \in [D -> V] : f = g[f]
<1>1. PICK T : T = [D -> V]
  OBVIOUS
<1>2. PICK a : a \in T
  BY <1>1 DEF ByDepth
<1>3. g \in [T -> T] /\ d \in Nat /\ depth \in [D -> 0 .. d]
  BY <1>1 DEF ByDepth
<1>4. PICK B : Iterates(B, T, a, g)
  BY <1>2, <1>3, Iteration
<1>5. B \in [Nat -> [D -> V]] /\ \A k \in Nat : B[k + 1] = g[B[k]]
  BY <1>1, <1>4 DEF Iterates
<1> DEFINE Stable == {k \in Nat : \A x \in D : depth[x] < k => B[k + 1][x] = B[k][x]}
<1>6. 0 \in Stable
  BY <1>3
<1>7. ASSUME NEW k \in Nat, k \in Stable PROVE k + 1 \in Stable
  <2>1. ASSUME NEW x \in D, depth[x] < k + 1 PROVE B[(k + 1) + 1][x] = B[k + 1][x]
    <3>1. \A y \in D : depth[y] < depth[x] => B[k + 1][y] = B[k][y]
      BY <1>3, <1>7, <2>1
    <3>2. B[k] \in [D -> V] /\ B[k + 1] \in [D -> V] /\ k + 1 \in Nat
      BY <1>5
    <3>3. g[B[k + 1]][x] = g[B[k]][x]
      BY <3>1, <3>2 DEF ByDepth
    <3>4. B[(k + 1) + 1] = g[B[k + 1]] /\ B[k + 1] = g[B[k]]
      BY <1>5, <3>2
    <3>5. QED
      BY <3>3, <3>4
  <2>2. QED
    BY <2>1
<1>8. Nat \subseteq Stable
  <2> HIDE DEF Stable
  <2>1. QED
    BY <1>6, <1>7, AllNumbers
<1>9. PICK f : f = B[d + 1]
  OBVIOUS
<1>10. f \in [D -> V] /\ g[f] \in [D -> V] /\ g[f] = B[(d + 1) + 1]
  BY <1>1, <1>3, <1>5, <1>9
<1>11. d + 1 \in Stable
  BY <1>3, <1>8
<1>12. \A x \in D : g[f][x] = f[x]
  BY <1>3, <1>9, <1>10, <1>11
<1>13. QED
  BY <1>10, <1>12

(* What the operands of rule x mean by f.                                  *)
Of(f, x) == [i \in DOMAIN Rules[x].operands |-> f[Rules[x].operands[i]]]

LEMMA OperandsLocal ==
  ASSUME NEW depth, NEW x \in DOMAIN Rules,
         \A y \in DOMAIN Rules : LET ops == Rules[y].operands IN
           \A i \in DOMAIN ops : depth[ops[i]] < depth[y],
         NEW f, NEW h, \A y \in DOMAIN Rules : depth[y] < depth[x] => f[y] = h[y]
  PROVE  Of(f, x) = Of(h, x)
<1>1. \A i \in DOMAIN Rules[x].operands :
        Rules[x].operands[i] \in DOMAIN Rules /\ depth[Rules[x].operands[i]] < depth[x]
  BY RulesAssumption
<1>2. QED
  BY <1>1 DEF Of

LEMMA SetsOf ==
  ASSUME NEW U, NEW of, \A i \in DOMAIN of : of[i] \in SUBSET U
  PROVE  InSome(of) \subseteq U /\ InAll(of) \subseteq U /\ \A i \in Nat : InNth(of, i) \subseteq U
BY DEF InSome, InAll, InNth

(* The sets the meanings of rules are drawn from.                          *)
People(o, by) == Agents(o) \cup {by[Rules[x].ref] : x \in DOMAIN Rules}

LEMMA ResolvedType ==
  ASSUME NEW o, NEW by, NEW x \in DOMAIN Rules,
         NEW of, \A i \in DOMAIN of : of[i] \in SUBSET People(o, by)
  PROVE  Resolved(o, Rules[x], of, by) \in SUBSET People(o, by)
<1>1. Rules[x].kind \in {"ROLE", "ORG_UNIT", "NODE_PERFORMING_AGENT", "AND", "OR", "EXCEPT"}
  BY RulesAssumption DEF Kinds, Leaves
<1>2. /\ InSome(of) \subseteq People(o, by) /\ InAll(of) \subseteq People(o, by)
      /\ InNth(of, 1) \subseteq People(o, by)
  BY SetsOf
<1>3. /\ Holders(o, Rules[x].ref) \subseteq People(o, by)
      /\ Members(o, Rules[x].ref, Rules[x].recursive) \subseteq People(o, by)
      /\ {by[Rules[x].ref]} \ {None} \subseteq People(o, by)
  BY DEF Holders, Members, People
<1>4. QED
  BY <1>1, <1>2, <1>3 DEF Resolved

LEMMA PossibleType ==
  ASSUME NEW o, NEW x \in DOMAIN Rules, NEW U, Agents(o) \subseteq U, AgentIds \subseteq U, Outsider \in U,
         NEW of, \A i \in DOMAIN of : of[i] \in SUBSET U
  PROVE  Possible(o, Rules[x], of) \in SUBSET U
<1>1. Rules[x].kind \in {"ROLE", "ORG_UNIT", "NODE_PERFORMING_AGENT", "AND", "OR", "EXCEPT"}
  BY RulesAssumption DEF Kinds, Leaves
<1>2. InSome(of) \subseteq U /\ InAll(of) \subseteq U /\ InNth(of, 1) \subseteq U
  BY SetsOf
<1>3. /\ Holders(o, Rules[x].ref) \subseteq U
      /\ Members(o, Rules[x].ref, Rules[x].recursive) \subseteq U
  BY DEF Holders, Members
<1>4. QED
  BY <1>1, <1>2, <1>3 DEF Possible

LEMMA RuleDepth ==
  \E d \in Nat : \E depth \in [DOMAIN Rules -> 0 .. d] :
    \A x \in DOMAIN Rules : LET ops == Rules[x].operands IN
      \A i \in DOMAIN ops : depth[ops[i]] < depth[x]
<1>1. Cardinality(DOMAIN Rules) \in Nat
  BY RulesAssumption, FS_CardinalityType
<1>2. QED
  BY <1>1, RulesAssumption

(* The meanings of the rules, all at once.                                 *)
LEMMA ResolveEquations ==
  ASSUME NEW o, NEW by
  PROVE  \E f : \A x \in DOMAIN Rules :
           Resolve(o, x, by) = f[x] /\ f[x] = Resolved(o, Rules[x], Of(f, x), by)
<1>1. PICK D, V : D = DOMAIN Rules /\ V = SUBSET People(o, by)
  OBVIOUS
<1>2. PICK d, depth : /\ d \in Nat /\ depth \in [D -> 0 .. d]
                      /\ \A x \in D : LET ops == Rules[x].operands IN
                           \A i \in DOMAIN ops : depth[ops[i]] < depth[x]
  BY <1>1, RuleDepth
<1>3. PICK g : g = [f \in [D -> V] |-> [x \in D |-> Resolved(o, Rules[x], Of(f, x), by)]]
  OBVIOUS
<1>4. ASSUME NEW f \in [D -> V], NEW x \in D
      PROVE  Resolved(o, Rules[x], Of(f, x), by) \in V
  <2>1. \A i \in DOMAIN Of(f, x) : Of(f, x)[i] \in SUBSET People(o, by)
    BY <1>1, RulesAssumption DEF Of
  <2>2. QED
    BY <1>1, <2>1, ResolvedType
<1>5. g \in [[D -> V] -> [D -> V]]
  BY <1>3, <1>4
<1>6. [D -> V] # {}
  <2>1. [x \in D |-> {}] \in [D -> V]
    BY <1>1
  <2>2. QED
    BY <2>1
<1>7. ByDepth(g, D, V, d, depth)
  <2>1. ASSUME NEW f \in [D -> V], NEW h \in [D -> V], NEW x \in D,
               \A y \in D : depth[y] < depth[x] => f[y] = h[y]
        PROVE  g[f][x] = g[h][x]
    <3>1. Of(f, x) = Of(h, x)
      BY <1>1, <1>2, <2>1, OperandsLocal
    <3>2. QED
      BY <1>3, <3>1
  <2>2. QED
    BY <1>2, <1>5, <1>6, <2>1 DEF ByDepth
<1>8. PICK f \in [D -> V] : f = g[f]
  BY <1>7, DepthRecursion
<1> DEFINE Means(h) == h = [x \in DOMAIN Rules |->
             LET ops == Rules[x].operands
             IN Resolved(o, Rules[x], [i \in DOMAIN ops |-> h[ops[i]]], by)]
<1>9. Means(f)
  <2>1. f = [x \in DOMAIN Rules |-> Resolved(o, Rules[x], Of(f, x), by)]
    BY <1>1, <1>3, <1>8
  <2>2. QED
    BY <2>1 DEF Of
<1>10. \A x : Resolve(o, x, by) = (CHOOSE h : Means(h))[x]
  BY DEF Resolve
<1>11. PICK h : Means(h) /\ h = CHOOSE r : Means(r)
  BY <1>9
<1>12. \A x \in DOMAIN Rules : h[x] = Resolved(o, Rules[x], Of(h, x), by)
  BY <1>11 DEF Of
<1> HIDE DEF Means
<1>13. QED
  BY <1>10, <1>11, <1>12

LEMMA PossibleEquations ==
  ASSUME NEW o
  PROVE  \E f : \A x \in DOMAIN Rules :
           PossibleAgents(o, x) = f[x] /\ f[x] = Possible(o, Rules[x], Of(f, x))
<1>1. PICK U : U = Agents(o) \cup AgentIds \cup {Outsider}
  OBVIOUS
<1>2. PICK D, V : D = DOMAIN Rules /\ V = SUBSET U
  OBVIOUS
<1>3. PICK d, depth : /\ d \in Nat /\ depth \in [D -> 0 .. d]
                      /\ \A x \in D : LET ops == Rules[x].operands IN
                           \A i \in DOMAIN ops : depth[ops[i]] < depth[x]
  BY <1>2, RuleDepth
<1>4. PICK g : g = [f \in [D -> V] |-> [x \in D |-> Possible(o, Rules[x], Of(f, x))]]
  OBVIOUS
<1>5. ASSUME NEW f \in [D -> V], NEW x \in D
      PROVE  Possible(o, Rules[x], Of(f, x)) \in V
  <2>1. \A i \in DOMAIN Of(f, x) : Of(f, x)[i] \in SUBSET U
    BY <1>2, RulesAssumption DEF Of
  <2>2. QED
    BY <1>1, <1>2, <2>1, PossibleType
<1>6. g \in [[D -> V] -> [D -> V]]
  BY <1>4, <1>5
<1>7. [D -> V] # {}
  <2>1. [x \in D |-> {}] \in [D -> V]
    BY <1>2
  <2>2. QED
    BY <2>1
<1>8. ByDepth(g, D, V, d, depth)
  <2>1. ASSUME NEW f \in [D -> V], NEW h \in [D -> V], NEW x \in D,
               \A y \in D : depth[y] < depth[x] => f[y] = h[y]
        PROVE  g[f][x] = g[h][x]
    <3>1. Of(f, x) = Of(h, x)
      BY <1>2, <1>3, <2>1, OperandsLocal
    <3>2. QED
      BY <1>4, <3>1
  <2>2. QED
    BY <1>3, <1>6, <1>7, <2>1 DEF ByDepth
<1>9. PICK f \in [D -> V] : f = g[f]
  BY <1>8, DepthRecursion
<1> DEFINE Means(h) == h = [x \in DOMAIN Rules |->
             LET ops == Rules[x].operands
             IN Possible(o, Rules[x], [i \in DOMAIN ops |-> h[ops[i]]])]
<1>10. Means(f)
  <2>1. f = [x \in DOMAIN Rules |-> Possible(o, Rules[x], Of(f, x))]
    BY <1>2, <1>4, <1>9
  <2>2. QED
    BY <2>1 DEF Of
<1>11. \A x : PossibleAgents(o, x) = (CHOOSE h : Means(h))[x]
  BY DEF PossibleAgents
<1>12. PICK h : Means(h) /\ h = CHOOSE r : Means(r)
  BY <1>10
<1>13. \A x \in DOMAIN Rules : h[x] = Possible(o, Rules[x], Of(h, x))
  BY <1>12 DEF Of
<1> HIDE DEF Means
<1>14. QED
  BY <1>11, <1>12, <1>13

(* What holds of a rule when it holds of its operands holds of all rules.  *)
LEMMA RuleInduction ==
  ASSUME NEW P, \A x \in DOMAIN Rules :
           (\A i \in DOMAIN Rules[x].operands : Rules[x].operands[i] \in P) => x \in P
  PROVE  DOMAIN Rules \subseteq P
<1>1. PICK d, depth : /\ d \in Nat /\ depth \in [DOMAIN Rules -> 0 .. d]
                      /\ \A x \in DOMAIN Rules : LET ops == Rules[x].operands IN
                           \A i \in DOMAIN ops : depth[ops[i]] < depth[x]
  BY RuleDepth
<1> DEFINE Shown == {k \in Nat : \A x \in DOMAIN Rules : depth[x] < k => x \in P}
<1>2. 0 \in Shown
  BY <1>1
<1>3. ASSUME NEW k \in Nat, k \in Shown PROVE k + 1 \in Shown
  <2>1. ASSUME NEW x \in DOMAIN Rules, depth[x] < k + 1 PROVE x \in P
    <3>1. ASSUME NEW i \in DOMAIN Rules[x].operands PROVE Rules[x].operands[i] \in P
      <4>1. PICK y : y = Rules[x].operands[i]
        OBVIOUS
      <4>2. y \in DOMAIN Rules
        BY <4>1, RulesAssumption
      <4>3. depth[y] < depth[x]
        BY <1>1, <4>1
      <4>4. depth[y] \in Nat /\ depth[x] \in Nat
        BY <1>1, <4>2
      <4>5. depth[y] < k
        BY <2>1, <4>3, <4>4
      <4>6. QED
        BY <1>3, <4>1, <4>2, <4>5
    <3>2. QED
      BY <3>1
  <2>2. QED
    BY <2>1
<1>4. Nat \subseteq Shown
  <2> HIDE DEF Shown
  <2>1. QED
    BY <1>2, <1>3, AllNumbers
<1>5. d + 1 \in Shown
  BY <1>1, <1>4
<1>6. QED
  BY <1>1, <1>5

(* A rule's terms are the rule and the terms of its operands.              *)
LEMMA TermsOf ==
  ASSUME NEW x \in DOMAIN Rules
  PROVE  x \in Terms(x)
         /\ \A i \in DOMAIN Rules[x].operands : Terms(Rules[x].operands[i]) \subseteq Terms(x)
<1>1. PICK D, V : D = DOMAIN Rules /\ V = SUBSET D
  OBVIOUS
<1>2. PICK d, depth : /\ d \in Nat /\ depth \in [D -> 0 .. d]
                      /\ \A y \in D : LET ops == Rules[y].operands IN
                           \A i \in DOMAIN ops : depth[ops[i]] < depth[y]
  BY <1>1, RuleDepth
<1>3. PICK g : g = [f \in [D -> V] |-> [y \in D |-> {y} \cup InSome(Of(f, y))]]
  OBVIOUS
<1>4. ASSUME NEW f \in [D -> V], NEW y \in D
      PROVE  {y} \cup InSome(Of(f, y)) \in V
  <2>1. \A i \in DOMAIN Of(f, y) : Of(f, y)[i] \in SUBSET D
    BY <1>1, RulesAssumption DEF Of
  <2>2. InSome(Of(f, y)) \subseteq D
    BY <2>1, SetsOf
  <2>3. QED
    BY <1>1, <2>2
<1>5. g \in [[D -> V] -> [D -> V]]
  BY <1>3, <1>4
<1>6. [D -> V] # {}
  <2>1. [y \in D |-> {}] \in [D -> V]
    BY <1>1
  <2>2. QED
    BY <2>1
<1>7. ByDepth(g, D, V, d, depth)
  <2>1. ASSUME NEW f \in [D -> V], NEW h \in [D -> V], NEW y \in D,
               \A z \in D : depth[z] < depth[y] => f[z] = h[z]
        PROVE  g[f][y] = g[h][y]
    <3>1. Of(f, y) = Of(h, y)
      BY <1>1, <1>2, <2>1, OperandsLocal
    <3>2. QED
      BY <1>3, <3>1
  <2>2. QED
    BY <1>2, <1>5, <1>6, <2>1 DEF ByDepth
<1>8. PICK f \in [D -> V] : f = g[f]
  BY <1>7, DepthRecursion
<1> DEFINE Lists(h) == h = [y \in DOMAIN Rules |->
             LET ops == Rules[y].operands
             IN {y} \cup UNION {h[ops[i]] : i \in DOMAIN ops}]
<1>9. Lists(f)
  <2>1. f = [y \in DOMAIN Rules |-> {y} \cup InSome(Of(f, y))]
    BY <1>1, <1>3, <1>8
  <2>2. ASSUME NEW y \in DOMAIN Rules
        PROVE  InSome(Of(f, y)) = UNION {f[Rules[y].operands[i]] : i \in DOMAIN Rules[y].operands}
    BY DEF InSome, Of
  <2>3. QED
    BY <2>1, <2>2
<1>10. \A y : Terms(y) = (CHOOSE h : Lists(h))[y]
  BY DEF Terms
<1>11. PICK h : Lists(h) /\ h = CHOOSE r : Lists(r)
  BY <1>9
<1>12. h[x] = {x} \cup UNION {h[Rules[x].operands[i]] : i \in DOMAIN Rules[x].operands}
  BY <1>11
<1> HIDE DEF Lists
<1>13. \A y : Terms(y) = h[y]
  BY <1>10, <1>11
<1>14. QED
  BY <1>12, <1>13

-----------------------------------------------------------------------------
(* Without performers and exceptions, the bound of Z2 is exact.            *)
LEMMA ExactBound ==
  ASSUME NEW o, NEW by
  PROVE  \A x \in DOMAIN Rules :
           (\A y \in Terms(x) : Rules[y].kind \notin {"NODE_PERFORMING_AGENT", "EXCEPT"})
             => Resolve(o, x, by) = PossibleAgents(o, x)
<1>1. PICK f : \A x \in DOMAIN Rules :
        Resolve(o, x, by) = f[x] /\ f[x] = Resolved(o, Rules[x], Of(f, x), by)
  BY ResolveEquations
<1>2. PICK h : \A x \in DOMAIN Rules :
        PossibleAgents(o, x) = h[x] /\ h[x] = Possible(o, Rules[x], Of(h, x))
  BY PossibleEquations
<1> DEFINE Plain(x) == \A y \in Terms(x) : Rules[y].kind \notin {"NODE_PERFORMING_AGENT", "EXCEPT"}
           P == {x \in DOMAIN Rules : Plain(x) => f[x] = h[x]}
<1>3. ASSUME NEW x \in DOMAIN Rules,
             \A i \in DOMAIN Rules[x].operands : Rules[x].operands[i] \in P, Plain(x)
      PROVE  f[x] = h[x]
  <2>1. Rules[x].kind \in {"ROLE", "ORG_UNIT", "AND", "OR"}
    BY <1>3, TermsOf, RulesAssumption DEF Kinds, Leaves
  <2>2. \A i \in DOMAIN Rules[x].operands : Plain(Rules[x].operands[i])
    BY <1>3, TermsOf
  <2>3. \A i \in DOMAIN Rules[x].operands : f[Rules[x].operands[i]] = h[Rules[x].operands[i]]
    BY <1>3, <2>2
  <2>4. Of(f, x) = Of(h, x)
    BY <2>3 DEF Of
  <2>5. f[x] = Resolved(o, Rules[x], Of(h, x), by) /\ h[x] = Possible(o, Rules[x], Of(h, x))
    BY <1>1, <1>2, <2>4
  <2>6. QED
    BY <2>1, <2>5 DEF Resolved, Possible
<1>4. \A x \in DOMAIN Rules :
        (\A i \in DOMAIN Rules[x].operands : Rules[x].operands[i] \in P) => x \in P
  BY <1>3
<1>5. DOMAIN Rules \subseteq P
  <2> HIDE DEF P
  <2>1. QED
    BY <1>4, RuleInduction
<1>6. QED
  BY <1>1, <1>2, <1>5

(* With performers but neither intersections nor exceptions, a rule that   *)
(* may mean somebody does, once every performer is recorded.               *)
LEMMA RecordedBound ==
  ASSUME NEW o, NEW by
  PROVE  \A x \in DOMAIN Rules :
           (\A y \in Terms(x) : /\ Rules[y].kind \notin {"AND", "EXCEPT"}
                                /\ Rules[y].kind = "NODE_PERFORMING_AGENT" => by[Rules[y].ref] # None)
             => (PossibleAgents(o, x) # {} => Resolve(o, x, by) # {})
<1>1. PICK f : \A x \in DOMAIN Rules :
        Resolve(o, x, by) = f[x] /\ f[x] = Resolved(o, Rules[x], Of(f, x), by)
  BY ResolveEquations
<1>2. PICK h : \A x \in DOMAIN Rules :
        PossibleAgents(o, x) = h[x] /\ h[x] = Possible(o, Rules[x], Of(h, x))
  BY PossibleEquations
<1> DEFINE Known(x) == \A y \in Terms(x) :
             /\ Rules[y].kind \notin {"AND", "EXCEPT"}
             /\ Rules[y].kind = "NODE_PERFORMING_AGENT" => by[Rules[y].ref] # None
           P == {x \in DOMAIN Rules : Known(x) => (h[x] # {} => f[x] # {})}
<1>3. ASSUME NEW x \in DOMAIN Rules,
             \A i \in DOMAIN Rules[x].operands : Rules[x].operands[i] \in P, Known(x), h[x] # {}
      PROVE  f[x] # {}
  <2>1. Rules[x].kind \in {"ROLE", "ORG_UNIT", "NODE_PERFORMING_AGENT", "OR"}
        /\ (Rules[x].kind = "NODE_PERFORMING_AGENT" => by[Rules[x].ref] # None)
    BY <1>3, TermsOf, RulesAssumption DEF Kinds, Leaves
  <2>2. f[x] = Resolved(o, Rules[x], Of(f, x), by) /\ h[x] = Possible(o, Rules[x], Of(h, x))
    BY <1>1, <1>2
  <2>3. CASE Rules[x].kind \in {"ROLE", "ORG_UNIT"}
    BY <1>3, <2>2, <2>3 DEF Resolved, Possible
  <2>4. CASE Rules[x].kind = "NODE_PERFORMING_AGENT"
    <3>1. f[x] = {by[Rules[x].ref]} \ {None}
      BY <2>2, <2>4 DEF Resolved
    <3>2. QED
      BY <2>1, <2>4, <3>1
  <2>5. CASE Rules[x].kind = "OR"
    <3>1. f[x] = InSome(Of(f, x)) /\ h[x] = InSome(Of(h, x))
      BY <2>2, <2>5 DEF Resolved, Possible
    <3>2. PICK i \in DOMAIN Rules[x].operands : h[Rules[x].operands[i]] # {}
      <4>1. PICK i \in DOMAIN Of(h, x) : Of(h, x)[i] # {}
        BY <1>3, <3>1 DEF InSome
      <4>2. QED
        BY <4>1 DEF Of
    <3>3. Known(Rules[x].operands[i])
      BY <1>3, TermsOf
    <3>4. f[Rules[x].operands[i]] # {}
      BY <1>3, <3>2, <3>3
    <3>5. QED
      <4>1. i \in DOMAIN Of(f, x) /\ Of(f, x)[i] # {}
        BY <3>2, <3>4 DEF Of
      <4>2. QED
        BY <3>1, <4>1 DEF InSome
  <2>6. QED
    BY <2>1, <2>3, <2>4, <2>5
<1>4. \A x \in DOMAIN Rules :
        (\A i \in DOMAIN Rules[x].operands : Rules[x].operands[i] \in P) => x \in P
  BY <1>3
<1>5. DOMAIN Rules \subseteq P
  <2> HIDE DEF P
  <2>1. QED
    BY <1>4, RuleInduction
<1>6. QED
  BY <1>1, <1>2, <1>5

(* Deputies are added, nobody is taken away.                               *)
LEMMA DeputiesAdd ==
  ASSUME NEW o, IsFiniteSet(Agents(o)), NEW base
  PROVE  base \subseteq WithDeputies(o, base)
<1> DEFINE Widened(X) == X \cup ({o.agents[a].deputy : a \in X \cap Agents(o)} \ {None})
           IsChain(r) == r = [k \in Nat |-> IF k = 0 THEN base ELSE Widened(r[k - 1])]
<1>1. PICK U : U = base \cup {o.agents[a].deputy : a \in Agents(o)}
  OBVIOUS
<1>2. PICK g : g = [X \in SUBSET U |-> Widened(X)]
  OBVIOUS
<1>3. g \in [SUBSET U -> SUBSET U] /\ base \in SUBSET U
  BY <1>1, <1>2
<1>4. PICK r : Iterates(r, SUBSET U, base, g)
  BY <1>3, Iteration
<1>5. IsChain(r)
  <2>1. r \in [Nat -> SUBSET U] /\ r[0] = base /\ \A k \in Nat : r[k + 1] = Widened(r[k])
    BY <1>2, <1>4 DEF Iterates
  <2> HIDE DEF Widened
  <2>2. ASSUME NEW k \in Nat, k # 0 PROVE r[k] = Widened(r[k - 1])
    <3>1. k - 1 \in Nat /\ (k - 1) + 1 = k
      BY <2>2
    <3>2. r[(k - 1) + 1] = Widened(r[k - 1])
      BY <2>1, <3>1
    <3>3. QED
      BY <3>1, <3>2
  <2>3. QED
    BY <2>1, <2>2
<1>6. PICK c : IsChain(c) /\ c = CHOOSE q : IsChain(q)
  BY <1>5
<1>7. WithDeputies(o, base) = c[Cardinality(Agents(o))]
  BY <1>6 DEF WithDeputies
<1> DEFINE Holds == {k \in Nat : base \subseteq c[k]}
<1>8. 0 \in Holds
  BY <1>6
<1>9. ASSUME NEW k \in Nat, k \in Holds PROVE k + 1 \in Holds
  <2>1. c[k + 1] = Widened(c[k])
    BY <1>6
  <2>2. QED
    BY <1>9, <2>1
<1>10. Nat \subseteq Holds
  <2> HIDE DEF Holds
  <2>1. QED
    BY <1>8, <1>9, AllNumbers
<1>11. Cardinality(Agents(o)) \in Nat
  BY FS_CardinalityType
<1>12. QED
  BY <1>7, <1>10, <1>11

LEMMA Staffed ==
  ASSUME TInv, Staffable
  PROVE  OpenStepsStaffed
<1> SUFFICES ASSUME NEW k \in DOMAIN instances,
                    NEW n \in Open(instances[k]) \cap DOMAIN schemas[instances[k].schema].rule,
                    NEW x, x = schemas[instances[k].schema].rule[n],
                    \A y \in Terms(x) : Rules[y].kind # "EXCEPT",
                    \/ NodeRefs(x) = {}
                    \/ /\ \A y \in Terms(x) : Rules[y].kind # "AND"
                       /\ \A m \in NodeRefs(x) : instances[k].by[m] # None
             PROVE  Eligible(instances[k], n) # {}
  BY DEF OpenStepsStaffed
<1>1. PICK i, s, S : i = instances[k] /\ s = i.schema /\ S = Hydrated(schemas[s])
  OBVIOUS
<1>2. s \in DOMAIN schemas
  <2>1. instances[k] \in InstanceRecords
    BY DEF TInv, InstancesTyped
  <2>2. QED
    BY <1>1, <2>1 DEF InstanceRecords
<1>3. S.rule = schemas[s].rule
  BY <1>1, <1>2, ReadsRules DEF TInv, StoreTyped
<1>4. x \in DOMAIN Rules
  BY <1>1, <1>2 DEF TInv, StoreTyped, SchemaTyped
<1>5. IsFiniteSet(Agents(S.org))
  BY <1>1, <1>2, HydratedTyped DEF TInv, StoreTyped, Linked, Candidate, OrgInv, OrgTyped
<1>6. PossibleAgents(S.org, x) # {}
  BY <1>1, <1>2, <1>3 DEF Staffable, Correct, Z2Resolvable
<1>7. Resolve(S.org, x, i.by) # {}
  <2>1. CASE NodeRefs(x) = {}
    <3>1. \A y \in Terms(x) : Rules[y].kind # "NODE_PERFORMING_AGENT"
      BY <2>1 DEF NodeRefs
    <3>2. QED
      BY <1>4, <1>6, <3>1, ExactBound
  <2>2. CASE NodeRefs(x) # {}
    <3>1. \A y \in Terms(x) : Rules[y].kind = "NODE_PERFORMING_AGENT" => i.by[Rules[y].ref] # None
      BY <1>1, <2>2 DEF NodeRefs
    <3>2. QED
      BY <1>4, <1>6, <2>2, <3>1, RecordedBound
  <2>3. QED
    BY <2>1, <2>2
<1>8. Eligible(i, n) = WithDeputies(S.org, Resolve(S.org, x, i.by))
  BY <1>1, <1>3 DEF Eligible
<1>9. QED
  BY <1>1, <1>5, <1>7, <1>8, DeputiesAdd

(* An open step with a rule over roles and units, or one that takes nobody *)
(* away and whose performers are on record, is always somebody's: whatever *)
(* people, units, deputies and links do under the running instance, as     *)
(* long as no client names the id of an organisation again.                *)
THEOREM AlwaysStaffed ==
  ASSUME NamedIds = {}
  PROVE  Spec => []OpenStepsStaffed
<1>1. TInv /\ Staffable => OpenStepsStaffed
  BY Staffed
<1>2. Spec => []Staffable
  BY StaffingKept
<1>3. Spec => []TInv
  BY StartTyped, StepTyped, PTL DEF Spec
<1>4. QED
  BY <1>1, <1>2, <1>3, PTL
=============================================================================
