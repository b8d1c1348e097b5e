------------------------------ MODULE Staffing ------------------------------
(***************************************************************************)
(* Who may work on a step: schemas with their staff rules, each with an    *)
(* organisation of its own or linked to a shared one, the edits of both    *)
(* (operations.py, org.py), and instances whose open steps wait for people *)
(* (assignment.py, execution.py).  An action is a whole request, as        *)
(* api.py handles it; one that is refused stores nothing and is no step.   *)
(*                                                                         *)
(* The control flow of a schema is fixed (module SchemaOps edits it), and  *)
(* of an instance only the completed activities are kept: its branches are *)
(* drawn when it is created and looked at when its splits are reached, and *)
(* a step is open once everything in front of it that runs is completed,   *)
(* as module Execution shows of the engine.                                *)
(***************************************************************************)
EXTENDS Organisation, Validator

CONSTANTS
  OrgIds,        \* ids of shared organisations
  SchemaIds,     \* ids of schemas
  Graph,         \* [schema id -> its control flow, as module Validator takes it]
  NamedIds,      \* ids that a client names again for a new organisation
  Starts,        \* stores reached by earlier requests: [orgs, schemas, left]
  MaxInstances   \* bound: instances

ASSUME StaffingAssumption ==
  /\ None \notin OrgIds /\ NamedIds \subseteq OrgIds
  /\ MaxInstances \in Nat

(* The control flow is that of stored schemas: nothing leads to its START  *)
(* (K2), and on every route an AND_JOIN that runs is reached over all its  *)
(* branches (SoundFlow in module SchemaOps).                               *)
ASSUME GraphAssumption ==
  \A s \in SchemaIds : LET G == Graph[s] IN
    /\ IsFiniteSet(DOMAIN G.kind)
    /\ \A n \in NodesOfKind(G, "START") : Preds(G, n) = {}
    /\ \A c \in Routes(G) : \A n \in Ran(G, c) :
         G.kind[n] = "AND_JOIN" => Preds(G, n) \subseteq Ran(G, c)

VARIABLES
  orgs,       \* the store of shared organisations
  schemas,    \* the schema store: [state, link, org, rule]
  instances,  \* the instances, in the order of creation: [schema, route, done, by]
  left        \* bound: edits still to be accepted

vars == <<orgs, schemas, instances, left>>

Steps(s) == NodesOfKind(Graph[s], "ACTIVITY")
AllNodes == UNION {DOMAIN Graph[s].kind : s \in SchemaIds}

(* What runs on a route, what lies behind a node, what lies before it on   *)
(* every way: constants of the graphs.                                     *)
RunsOn == [s \in SchemaIds |-> [c \in Routes(Graph[s]) |-> Ran(Graph[s], c)]]
Behind == [s \in SchemaIds |-> [n \in DOMAIN Graph[s].kind |-> Reachable(Graph[s], n)]]
Before == [s \in SchemaIds |-> MustExecutedBefore(Graph[s])]

-----------------------------------------------------------------------------
(* A linked schema is stored without an organisation; hydrate_org fills in *)
(* the shared one as it is now.                                            *)
HydratedFrom(registry, S) ==
  IF S.link \in DOMAIN registry THEN [S EXCEPT !.org = registry[S.link]] ELSE S
Hydrated(S) == HydratedFrom(orgs, S)
Dehydrated_Keeps(S) == S
Dehydrated(S) == IF S.link = None THEN S ELSE [S EXCEPT !.org = EmptyOrg]

Z1WellFormed(s, S) ==
  /\ \A n \in DOMAIN S.rule :
       n \in Steps(s) /\ WellFormed(S.rule[n], S.org, DOMAIN Graph[s].kind)
  /\ MasterData(S.org)
(* Z2: somebody might be meant by each rule.                               *)
Z2Resolvable(S) == \A n \in DOMAIN S.rule : PossibleAgents(S.org, S.rule[n]) # {}
(* Z3: whose performer a rule refers to was executed before on every way.  *)
Z3BackRefs(s, S) == \A n \in DOMAIN S.rule : NodeRefs(S.rule[n]) \subseteq Before[s][n]

(* validate, as far as staff is concerned.                                 *)
Correct(s, S) == Z1WellFormed(s, S) /\ Z2Resolvable(S) /\ Z3BackRefs(s, S)

(* An organisation that clients may have made.                             *)
OrgTyped(o) ==
  /\ o = [roles |-> o.roles, units |-> o.units, agents |-> o.agents]
  /\ o.roles \subseteq RoleIds
  /\ Units(o) \subseteq UnitIds /\ Agents(o) \subseteq AgentIds
  /\ IsFiniteSet(Agents(o))
(* Its units, finitely many, lie at depths that grow from parent to child. *)
Forest(o) ==
  /\ IsFiniteSet(Units(o))
  /\ \A u \in Units(o) : o.units[u].parent \in Units(o) \cup {None}
  /\ \E depth \in [Units(o) -> 0 .. Cardinality(Units(o))] : \A u \in Units(o) :
       o.units[u].parent # None => depth[o.units[u].parent] < depth[u]

SchemaTyped(s, S) ==
  /\ S = [state |-> S.state, link |-> S.link, org |-> S.org, rule |-> S.rule]
  /\ s \in SchemaIds /\ S.state \in {"ENTWURF", "RELEASED"}
  /\ OrgTyped(S.org) /\ (S.link # None => S.org = EmptyOrg)
  /\ \A n \in DOMAIN S.rule : n \in Steps(s) /\ S.rule[n] \in DOMAIN Rules

(* The stores a behaviour starts with hold what earlier requests accepted. *)
ASSUME StartsAssumption ==
  \A start \in Starts :
    /\ DOMAIN start.orgs \subseteq OrgIds /\ start.left \in Nat
    /\ \A o \in DOMAIN start.orgs : OrgTyped(start.orgs[o]) /\ Forest(start.orgs[o])
    /\ \A s \in DOMAIN start.schemas : LET S == start.schemas[s] IN
         /\ SchemaTyped(s, S) /\ Forest(S.org)
         /\ S.link \in DOMAIN start.orgs \cup {None}
         /\ Correct(s, HydratedFrom(start.orgs, S))

Init ==
  /\ \E start \in Starts :
       orgs = start.orgs /\ schemas = start.schemas /\ left = start.left
  /\ instances = <<>>

Edited == left > 0 /\ left' = left - 1 /\ UNCHANGED instances

(* _commit_or_422: a valid candidate is stored.                            *)
Commit(s, S) ==
  /\ Edited
  /\ Correct(s, S)
  /\ schemas' = [schemas EXCEPT ![s] = Dehydrated(S)]
  /\ UNCHANGED orgs

Editable(s) == schemas[s].state = "ENTWURF"
LocalOrg(s) == schemas[s].link = None

-----------------------------------------------------------------------------
(* Edits of the organisation embedded in a schema.  Its people are part of *)
(* the model; who leads and who stands in for whom may change at any time. *)
CommitLocal(s, candidates) ==
  \E o \in candidates : LocalOrg(s) /\ Commit(s, [schemas[s] EXCEPT !.org = o])

AddRole(s)           == Editable(s) /\ CommitLocal(s, RoleAdded(schemas[s].org))
AddOrgUnit(s)        == Editable(s) /\ CommitLocal(s, UnitAdded(schemas[s].org))
AddAgent(s)          == Editable(s) /\ CommitLocal(s, AgentAdded(schemas[s].org))
UpdateAgent(s)       == Editable(s) /\ CommitLocal(s, AgentUpdated(schemas[s].org))
SetOrgUnitManager(s) == CommitLocal(s, ManagerSet(schemas[s].org))
SetOrgUnitParent(s)  == CommitLocal(s, ParentSet(schemas[s].org))
SetAgentDeputy(s)    == CommitLocal(s, DeputySet(schemas[s].org))

AssignStaffRule(s) ==
  /\ Editable(s)
  /\ \E n \in Steps(s), r \in DOMAIN Rules :
       LET S == Hydrated(schemas[s]) IN Commit(s, [S EXCEPT !.rule = With(@, n, r)])

(* The rules must resolve against the shared organisation at once.         *)
LinkOrgModel(s) ==
  /\ Editable(s)
  /\ \E o \in DOMAIN orgs : Commit(s, Hydrated([schemas[s] EXCEPT !.link = o]))

(* The shared organisation stays behind as a copy.                         *)
UnlinkOrgModel(s) ==
  /\ Editable(s)
  /\ Commit(s, [Hydrated(schemas[s]) EXCEPT !.link = None])

Release(s) ==
  Editable(s) /\ Commit(s, [Hydrated(schemas[s]) EXCEPT !.state = "RELEASED"])

-----------------------------------------------------------------------------
(* Edits of a shared organisation: valid in itself, and every schema that  *)
(* refers to it must stay correct (_commit_org_or_422).                    *)
Referencing_Released(o) ==
  {s \in DOMAIN schemas : schemas[s].link = o /\ schemas[s].state = "RELEASED"}
Referencing(o) == {s \in DOMAIN schemas : schemas[s].link = o}

CommitOrg(o, candidates) ==
  /\ Edited
  /\ \E org \in candidates :
       /\ ValidOrg(org)
       /\ \A s \in Referencing(o) : Correct(s, [schemas[s] EXCEPT !.org = org])
       /\ orgs' = [orgs EXCEPT ![o] = org]
  /\ UNCHANGED schemas

OrgAddRole(o)     == CommitOrg(o, RoleAdded(orgs[o]))
OrgAddUnit(o)     == CommitOrg(o, UnitAdded(orgs[o]))
OrgAddAgent(o)    == CommitOrg(o, AgentAdded(orgs[o]))
OrgUpdateAgent(o) == CommitOrg(o, AgentUpdated(orgs[o]))
OrgSetManager(o)  == CommitOrg(o, ManagerSet(orgs[o]))
OrgSetParent(o)   == CommitOrg(o, ParentSet(orgs[o]))
OrgSetDeputy(o)   == CommitOrg(o, DeputySet(orgs[o]))

(* create_org_model, under an id that is new or that the client names; it  *)
(* is stored without looking.                                              *)
CreateOrgModel ==
  /\ Edited
  /\ \E o \in (OrgIds \ DOMAIN orgs) \cup NamedIds :
       orgs' = [p \in DOMAIN orgs \cup {o} |-> IF p = o THEN EmptyOrg ELSE orgs[p]]
  /\ UNCHANGED schemas

-----------------------------------------------------------------------------
(* An instance runs on the schema and on the organisation as they are now, *)
(* a draft's too (as a test).                                              *)
Instantiate(s) ==
  /\ Len(instances) < MaxInstances
  /\ \E c \in Routes(Graph[s]) :
       instances' = Append(instances, [schema |-> s, route |-> c, done |-> {},
                                       by |-> [n \in AllNodes |-> None]])
  /\ UNCHANGED <<orgs, schemas, left>>

(* open_tasks, and the open steps without a rule.                          *)
Open(i) ==
  LET s == i.schema on == Steps(s) \cap RunsOn[s][i.route] IN
  {n \in on \ i.done : \A m \in on : n \in Behind[s][m] => m \in i.done}

(* eligible_agents.                                                        *)
Eligible(i, n) ==
  LET S == Hydrated(schemas[i.schema])
  IN WithDeputies(S.org, Resolve(S.org, S.rule[n], i.by))

(* A step is completed by an agent, whom a rule must admit, or by a caller *)
(* without one: a worker, or a service account.                            *)
CompleteActivity(k, n, a) ==
  LET i == instances[k] IN
  /\ n \in Open(i)
  /\ a # None /\ n \in DOMAIN schemas[i.schema].rule => a \in Eligible(i, n)
  /\ instances' = [instances EXCEPT ![k].done = @ \cup {n}, ![k].by[n] = a]
  /\ UNCHANGED <<orgs, schemas, left>>

EditSchema(s) ==
  \/ AddRole(s) \/ AddOrgUnit(s) \/ AddAgent(s) \/ UpdateAgent(s)
  \/ SetOrgUnitManager(s) \/ SetOrgUnitParent(s) \/ SetAgentDeputy(s)
  \/ AssignStaffRule(s) \/ LinkOrgModel(s) \/ UnlinkOrgModel(s) \/ Release(s)
EditOrg(o) ==
  \/ OrgAddRole(o) \/ OrgAddUnit(o) \/ OrgAddAgent(o) \/ OrgUpdateAgent(o)
  \/ OrgSetManager(o) \/ OrgSetParent(o) \/ OrgSetDeputy(o)

Next ==
  \/ \E s \in DOMAIN schemas : EditSchema(s) \/ Instantiate(s)
  \/ \E o \in DOMAIN orgs : EditOrg(o)
  \/ CreateOrgModel
  \/ \E k \in DOMAIN instances, a \in AgentIds \cup {None} :
       \E n \in Open(instances[k]) : CompleteActivity(k, n, a)

Spec == Init /\ [][Next]_vars

-----------------------------------------------------------------------------
(* The stores and instances are well typed, and a linked schema keeps no   *)
(* copy of the shared organisation (dehydrate_org: the registry is the     *)
(* only source).                                                           *)
TypeOK ==
  /\ DOMAIN orgs \subseteq OrgIds /\ \A o \in DOMAIN orgs : OrgTyped(orgs[o])
  /\ \A s \in DOMAIN schemas : SchemaTyped(s, schemas[s])
  /\ instances \in Seq([schema : DOMAIN schemas, route : UNION {Routes(Graph[s]) : s \in SchemaIds},
                        done : SUBSET AllNodes, by : [AllNodes -> AgentIds \cup {None}]])
  /\ \A k \in DOMAIN instances : LET i == instances[k] IN
       i.route \in Routes(Graph[i.schema]) /\ i.done \subseteq Steps(i.schema)
  /\ left \in Nat

(* No hierarchy of units ever closes on itself, shared, embedded or copied *)
(* from one to the other, although the schema's own rules do not look:     *)
(* recursive rules and the walks of set_org_unit_parent rely on it.        *)
TreesStayTrees ==
  /\ \A o \in DOMAIN orgs : Acyclic(orgs[o])
  /\ \A s \in DOMAIN schemas : Acyclic(schemas[s].org)

(* Whatever happens to a shared organisation, every stored schema that is  *)
(* linked to it stays correct: its rules refer to what exists and might    *)
(* resolve to somebody ("a change can never silently break a released      *)
(* process's staffing").                                                   *)
Staffable == \A s \in DOMAIN schemas : Correct(s, Hydrated(schemas[s]))

(* An open step that nobody may work on has a rule that takes people away, *)
(* or that refers to a performer and either nobody recorded one or the     *)
(* rule narrows down whom he may be: rules over roles and units alone      *)
(* never run dry, whatever people, units and links do under the instance.  *)
OpenStepsStaffed ==
  \A k \in DOMAIN instances : LET i == instances[k] rule == schemas[i.schema].rule IN
  \A n \in Open(i) \cap DOMAIN rule :
    LET kinds == {Rules[x].kind : x \in Terms(rule[n])} IN
    Eligible(i, n) = {} =>
      \/ "EXCEPT" \in kinds
      \/ /\ NodeRefs(rule[n]) # {}
         /\ "AND" \in kinds \/ \E m \in NodeRefs(rule[n]) : i.by[m] = None

(* When a step is open, the steps whose performers its rule refers to are  *)
(* done, on every route and in every order of parallel steps: the          *)
(* must-analysis of Z3 is right about what the engine runs.  (Nobody       *)
(* performs a gateway, START or END, to which a rule may refer too.)       *)
ReferencesBefore ==
  \A k \in DOMAIN instances : LET i == instances[k] rule == schemas[i.schema].rule IN
  \A n \in Open(i) \cap DOMAIN rule : NodeRefs(rule[n]) \cap Steps(i.schema) \subseteq i.done

=============================================================================
