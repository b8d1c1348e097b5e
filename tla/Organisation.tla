---------------------------- MODULE Organisation ----------------------------
(***************************************************************************)
(* The organisation a process is staffed from (org.py) and what a staff    *)
(* rule makes of it, when it is checked (validator.py, Z1 and Z2) and when *)
(* a step waits for people (assignment.py).  An organisation is a record:  *)
(*   roles   the roles there are                                           *)
(*   units   [unit -> [parent, manager]]                                   *)
(*   agents  [agent -> [roles, unit, deputy]]                              *)
(* Names and order of roles carry no behaviour and are left out.           *)
(***************************************************************************)
EXTENDS Naturals, Sequences, FiniteSets, TLC

CONSTANTS
  None,                       \* an optional field that is not set
  RoleIds, UnitIds, AgentIds, \* the ids clients may name
  Outsider,                   \* stands for everybody who is in no organisation
  Rules                       \* [rule id -> [kind, ref, recursive, operands]], a forest

ASSUME OrganisationAssumption ==
  /\ None \notin RoleIds \cup UnitIds \cup AgentIds
  /\ Outsider \notin AgentIds \cup {None}

Leaves == {"ROLE", "ORG_UNIT", "NODE_PERFORMING_AGENT"}
Kinds  == Leaves \cup {"AND", "OR", "EXCEPT"}

(* Rules are finitely many and finitely deep.                              *)
ASSUME RulesAssumption ==
  /\ IsFiniteSet(DOMAIN Rules)
  /\ \A x \in DOMAIN Rules : Rules[x].kind \in Kinds /\ Rules[x].operands \in Seq(DOMAIN Rules)
  /\ \E d \in 0 .. Cardinality(DOMAIN Rules) : \E depth \in [DOMAIN Rules -> 0 .. d] :
       \A x \in DOMAIN Rules : LET ops == Rules[x].operands IN
         \A i \in DOMAIN ops : depth[ops[i]] < depth[x]
EmptyOrg == [roles |-> {}, units |-> <<>>, agents |-> <<>>]
Units(o)  == DOMAIN o.units
Agents(o) == DOMAIN o.agents

-----------------------------------------------------------------------------
(* The units above u, following parents (as often as there are units).     *)
Above(o, u) ==
  LET up[k \in Nat] == IF k = 0 THEN u
                       ELSE IF up[k - 1] = None THEN None ELSE o.units[up[k - 1]].parent
  IN {up[k] : k \in 1 .. Cardinality(Units(o))} \ {None}

(* _check_hierarchy_acyclic.                                               *)
Acyclic(o) == \A u \in Units(o) : u \notin Above(o, u)

(* validate_org: what a shared organisation refers to is there.            *)
ValidOrg(o) ==
  /\ \A a \in Agents(o) :
       /\ o.agents[a].roles \subseteq o.roles
       /\ o.agents[a].unit \in Units(o) \cup {None}
       /\ o.agents[a].deputy \in (Agents(o) \ {a}) \cup {None}
  /\ \A u \in Units(o) :
       /\ o.units[u].manager \in Agents(o) \cup {None}
       /\ o.units[u].parent \in Units(o) \cup {None}
  /\ Acyclic(o)

(* _check_org_master_data: what is checked again of an embedded one.       *)
MasterData(o) ==
  /\ \A u \in Units(o) : o.units[u].manager \in Agents(o) \cup {None}
  /\ \A a \in Agents(o) : o.agents[a].deputy \in (Agents(o) \ {a}) \cup {None}

-----------------------------------------------------------------------------
(* What each operation may make of an organisation, for every input that   *)
(* passes the checks of its own; a manager or deputy who does not exist is *)
(* left to the checks above.                                               *)
RoleAdded(o) == {[o EXCEPT !.roles = @ \cup {r}] : r \in RoleIds \ o.roles}

UnitAdded(o) ==
  {[o EXCEPT !.units = [v \in Units(o) \cup {u} |->
                          IF v = u THEN [parent |-> p, manager |-> m] ELSE @[v]]] :
     u \in UnitIds \ Units(o), p \in Units(o) \cup {None}, m \in AgentIds \cup {None}}

AgentAdded(o) ==
  {[o EXCEPT !.agents = [b \in Agents(o) \cup {a} |->
                           IF b = a THEN [roles |-> rs, unit |-> u, deputy |-> d] ELSE @[b]]] :
     a \in AgentIds \ Agents(o), rs \in SUBSET o.roles,
     u \in Units(o) \cup {None}, d \in AgentIds \cup {None}}

AgentUpdated(o) ==
  {[o EXCEPT !.agents[a] = [roles |-> rs, unit |-> u, deputy |-> @.deputy]] :
     a \in Agents(o), rs \in SUBSET o.roles, u \in Units(o) \cup {None}}

ManagerSet(o) ==
  {[o EXCEPT !.units[u].manager = m] : u \in Units(o), m \in AgentIds \cup {None}}

(* Mutant: only the unit itself is refused as its parent.                  *)
ParentSet_NoWalk(o) ==
  UNION {{[o EXCEPT !.units[u].parent = p] : p \in (Units(o) \ {u}) \cup {None}} :
           u \in Units(o)}
(* A unit moves under one that is not below it, or to the top.             *)
ParentSet(o) ==
  UNION {{[o EXCEPT !.units[u].parent = p] :
            p \in {p \in Units(o) \ {u} : u \notin Above(o, p)} \cup {None}} :
           u \in Units(o)}

DeputySet(o) ==
  {[o EXCEPT !.agents[a].deputy = d] : a \in Agents(o), d \in AgentIds \cup {None}}

-----------------------------------------------------------------------------
(* The terms of a rule, and the steps whose performer it refers to.        *)
Terms(rule) ==
  LET t[x \in DOMAIN Rules] ==
        LET ops == Rules[x].operands IN {x} \cup UNION {t[ops[i]] : i \in DOMAIN ops}
  IN t[rule]
NodeRefs(rule) ==
  {Rules[x].ref : x \in {x \in Terms(rule) : Rules[x].kind = "NODE_PERFORMING_AGENT"}}

(* _descendant_units: with a recursive rule, the units below u.            *)
Below(o, u, recursive) == {v \in Units(o) : recursive /\ u \in Above(o, v)}
Holders(o, r) == {a \in Agents(o) : r \in o.agents[a].roles}
Members(o, u, recursive) ==
  {a \in Agents(o) : o.agents[a].unit \in {u} \cup Below(o, u, recursive)}

(* What the operands of a term come to, each given by what it means: who   *)
(* is in some, who is in all, and who is in the i-th, if there is one.     *)
InSome(of)   == UNION {of[i] : i \in DOMAIN of}
InAll(of)    == {a \in InSome(of) : \A i \in DOMAIN of : a \in of[i]}
InNth(of, i) == IF i \in DOMAIN of THEN of[i] ELSE {}

(* _resolve: the people a rule means, by whom earlier steps were performed.*)
Resolved(o, t, of, by) ==
  CASE t.kind = "ROLE" -> Holders(o, t.ref)
    [] t.kind = "ORG_UNIT" -> Members(o, t.ref, t.recursive)
    [] t.kind = "NODE_PERFORMING_AGENT" -> {by[t.ref]} \ {None}
    [] t.kind = "AND" -> InAll(of)
    [] t.kind = "OR" -> InSome(of)
    [] t.kind = "EXCEPT" -> InNth(of, 1) \ InNth(of, 2)
Resolve(o, rule, by) ==
  LET f[x \in DOMAIN Rules] ==
        LET ops == Rules[x].operands
        IN Resolved(o, Rules[x], [i \in DOMAIN ops |-> f[ops[i]]], by)
  IN f[rule]

(* _with_deputies: and their deputies, theirs again, and so on.            *)
WithDeputies(o, base) ==
  LET r[k \in Nat] ==
        IF k = 0 THEN base
        ELSE r[k - 1] \cup ({o.agents[a].deputy : a \in r[k - 1] \cap Agents(o)} \ {None})
  IN r[Cardinality(Agents(o))]

(* Mutant: a rule for a unit alone counts the people below it.             *)
Possible_Recursive(o, t, of) ==
  CASE t.kind = "ROLE" -> Holders(o, t.ref)
    [] t.kind = "ORG_UNIT" -> Members(o, t.ref, TRUE)
    [] t.kind = "NODE_PERFORMING_AGENT" -> AgentIds \cup {Outsider}
    [] t.kind = "AND" -> InAll(of)
    [] t.kind = "OR" -> InSome(of)
    [] t.kind = "EXCEPT" -> InNth(of, 1)
(* _possible_agents: a bound of Resolve that needs no instance.  Whoever   *)
(* performed a step may be anybody, which the code writes None and which   *)
(* is here everybody and an Outsider.                                      *)
Possible(o, t, of) ==
  CASE t.kind = "ROLE" -> Holders(o, t.ref)
    [] t.kind = "ORG_UNIT" -> Members(o, t.ref, t.recursive)
    [] t.kind = "NODE_PERFORMING_AGENT" -> AgentIds \cup {Outsider}
    [] t.kind = "AND" -> InAll(of)
    [] t.kind = "OR" -> InSome(of)
    [] t.kind = "EXCEPT" -> InNth(of, 1)
PossibleAgents(o, rule) ==
  LET f[x \in DOMAIN Rules] ==
        LET ops == Rules[x].operands
        IN Possible(o, Rules[x], [i \in DOMAIN ops |-> f[ops[i]]])
  IN f[rule]

(* _check_staff_rule_node and _check_staff_ref: the shape of every term,   *)
(* and what it refers to, in organisation o and among the given nodes.     *)
WellFormed(rule, o, nodes) ==
  \A x \in Terms(rule) :
    LET t == Rules[x] n == Len(t.operands) IN
    /\ IF t.kind \in Leaves THEN n = 0 ELSE n >= 1
    /\ t.kind = "EXCEPT" => n = 2
    /\ t.kind = "ROLE" => t.ref \in o.roles
    /\ t.kind = "ORG_UNIT" => t.ref \in Units(o)
    /\ t.kind = "NODE_PERFORMING_AGENT" => t.ref \in nodes

=============================================================================
