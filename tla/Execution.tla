------------------------------ MODULE Execution ------------------------------
(***************************************************************************)
(* The execution engine of ProcWorks (execution.py): one process instance  *)
(* driven through the ADEPT node and edge markings of its schema.  Every   *)
(* action is one engine call as the API makes it -- guard, node update,    *)
(* complete marking propagation and persistence in one step, because the   *)
(* engine works on a private copy that is stored once at the end.          *)
(*                                                                         *)
(* _advance iterates over the nodes until nothing changes.  Here its       *)
(* result is given in closed form: Marking is the solution of the          *)
(* fixpoint equation, a recursive function along the edges of an acyclic   *)
(* graph.  Module MCEngine compares it with the loop itself.               *)
(***************************************************************************)
EXTENDS ProcessGraph, FiniteSets

CONSTANTS
  Elems, Typed,           \* data elements, the well-typed values
  NoValue,                \* an element that is not set
  Disc,                   \* a split's discriminator
  Agents, NoAgent,        \* agents; NoAgent is a call without agent_id
  Ruled,                  \* nodes that carry a staff rule
  Eligible(_, _)          \* eligible_agents(node, performed_by)

NodeStates == {"NOT_ACTIVATED", "ACTIVATED", "RUNNING", "COMPLETED", "SKIPPED"}
EdgeStates == {"NOT_SIGNALED", "TRUE_SIGNALED", "FALSE_SIGNALED"}
Terminal   == {"COMPLETED", "SKIPPED"}

(* A data write: the value of every element written, NoValue for the rest. *)
Writes      == [Elems -> Values \cup {NoValue}]
Nothing     == [x \in Elems |-> NoValue]
TypedWrites == {w \in Writes : \A x \in Elems : w[x] \in Typed \cup {NoValue}}
Overlay(d, w) == [x \in Elems |-> IF w[x] = NoValue THEN d[x] ELSE w[x]]

-----------------------------------------------------------------------------
(* The schema is what the editor stores (module ProcessGraph; theorem      *)
(* StoredRun of AnnotationsProofs).  NoNode is the answer of a decision to *)
(* a value that none of its branches takes.                                *)
ASSUME GraphAssumption == GraphOK /\ BlockOK
ASSUME DataAssumption ==
  /\ NoValue \notin Values /\ Typed \subseteq Values
  /\ NoNode \notin Nodes /\ NoAgent \notin Agents
  /\ Disc \in [XorSplits -> Elems]
  /\ Branch \in [XorSplits -> [Values -> Nodes \cup {NoNode}]]
  /\ BranchesOK

-----------------------------------------------------------------------------
VARIABLES
  ns,           \* node_states
  es,           \* edge_states
  istate,       \* state; "ABSENT" before the instance is created
  decisions,    \* chosen target of every XOR split, NoNode before
  data,         \* data_values
  performedBy,  \* performed_by
  child,        \* the child instance of every SUBPROCESS node
  reply         \* what the last runtime call answered

vars == <<ns, es, istate, decisions, data, performedBy, child, reply>>

(* Mutant: the discriminator's value is recorded in place of the target.   *)
Choice_Value(x, view) == view[x][Disc[x]]

(* The branch a split takes under the data it sees, NoNode when it cannot  *)
(* resolve.  view[x] is the data split x sees: a child joined in place     *)
(* writes into the instance in the middle of the propagation, before some  *)
(* splits are decided and after others.                                    *)
Choice(x, view) ==
  IF view[x][Disc[x]] = NoValue THEN NoNode ELSE Branch[x][view[x][Disc[x]]]

(* Mutant: a completed split signals all its branches TRUE.                *)
Signal_AllTrue(e, sourceState, view) ==
  IF es[e] # "NOT_SIGNALED" THEN es[e]
  ELSE IF sourceState = "SKIPPED" THEN "FALSE_SIGNALED"
  ELSE IF sourceState # "COMPLETED" THEN "NOT_SIGNALED"
  ELSE "TRUE_SIGNALED"

(* What the marking of its source puts on edge e (_complete_node and       *)
(* _skip_node); an edge signalled earlier keeps its signal.                *)
Signal(e, sourceState, view) ==
  IF es[e] # "NOT_SIGNALED" THEN es[e]
  ELSE IF sourceState = "SKIPPED" THEN "FALSE_SIGNALED"
  ELSE IF sourceState # "COMPLETED" THEN "NOT_SIGNALED"
  ELSE IF e[1] \in XorSplits /\ Choice(e[1], view) # e[2] THEN "FALSE_SIGNALED"
  ELSE "TRUE_SIGNALED"

(* An activated node: activities wait for work, a SUBPROCESS waits for its *)
(* child unless that child is done at once (in inPlace), the rest          *)
(* completes automatically.                                                *)
Entered(n, inPlace) ==
  IF n \in Activities THEN "ACTIVATED"
  ELSE IF n \in SubProcesses \ inPlace THEN "RUNNING"
  ELSE "COMPLETED"

(* Mutant: every join needs all its incoming edges TRUE.                   *)
Evaluated_AllJoins(n, signals, inPlace) ==
  IF signals = {} \/ "NOT_SIGNALED" \in signals THEN "NOT_ACTIVATED"
  ELSE IF signals = {"TRUE_SIGNALED"} THEN Entered(n, inPlace)
  ELSE "SKIPPED"

(* Mutant: a join does not wait for its other branches.                    *)
Evaluated_Eager(n, signals, inPlace) ==
  IF "TRUE_SIGNALED" \in signals THEN Entered(n, inPlace)
  ELSE IF signals = {"FALSE_SIGNALED"} THEN "SKIPPED"
  ELSE "NOT_ACTIVATED"

(* The rule of _evaluate_targets for node n, given the signals on its      *)
(* incoming edges: wait for all of them, then enter or skip the node.      *)
Evaluated(n, signals, inPlace) ==
  IF signals = {} \/ "NOT_SIGNALED" \in signals THEN "NOT_ACTIVATED"
  ELSE IF \/ Kind[n] = "AND_JOIN" /\ signals = {"TRUE_SIGNALED"}
          \/ Kind[n] # "AND_JOIN" /\ "TRUE_SIGNALED" \in signals
    THEN Entered(n, inPlace)
  ELSE "SKIPPED"

(* Mutant: a started activity is put back on the worklist.                 *)
NextMark_Reenter(n, m, ns0, view, inPlace) ==
  IF ns0[n] = "NOT_ACTIVATED"
    THEN Evaluated(n, {Signal(e, m[e[1]], view) : e \in Incoming(n)}, inPlace)
  ELSE IF ns0[n] \in {"ACTIVATED", "RUNNING"} THEN Entered(n, inPlace)
  ELSE ns0[n]

(* Mutant: _advance stops after the direct successors of finished nodes.   *)
NextMark_OneStep(n, m, ns0, view, inPlace) ==
  IF ns0[n] = "NOT_ACTIVATED"
    THEN Evaluated(n, {Signal(e, ns0[e[1]], view) : e \in Incoming(n)}, inPlace)
  ELSE IF ns0[n] = "ACTIVATED" THEN Entered(n, inPlace)
  ELSE ns0[n]

(* One equation of the fixpoint _advance computes: the marking of node n,  *)
(* given the markings m of its predecessors.                               *)
NextMark(n, m, ns0, view, inPlace) ==
  IF ns0[n] = "NOT_ACTIVATED"
    THEN Evaluated(n, {Signal(e, m[e[1]], view) : e \in Incoming(n)}, inPlace)
  ELSE IF ns0[n] = "ACTIVATED" THEN Entered(n, inPlace)
  ELSE ns0[n]

Marking(ns0, view, inPlace) ==
  LET m[n \in Nodes] == NextMark(n, m, ns0, view, inPlace) IN m

(* Splits that _advance decides on its way from ns0 to m.                  *)
Reached(ns0, m) == {x \in XorSplits : m[x] = "COMPLETED" /\ ns0[x] # "COMPLETED"}
Resolved(ns0, m, view) == \A x \in Reached(ns0, m) : Choice(x, view) # NoNode

(* _advance from the markings ns0 to m, leaving data d, its result stored. *)
Advance(ns0, m, view, d) ==
  /\ ns' = m
  /\ es' = [e \in Edges |-> Signal(e, m[e[1]], view)]
  /\ decisions' = [x \in XorSplits |->
                     IF x \in Reached(ns0, m) THEN Choice(x, view) ELSE decisions[x]]
  /\ istate' = IF m[End] = "COMPLETED" THEN "COMPLETED" ELSE "RUNNING"
  /\ data' = d

(* The children that may be done at once are those of SUBPROCESS nodes     *)
(* this advance enters; their outputs reach the splits in `late'.          *)
Fresh == {s \in SubProcesses : ns[s] = "NOT_ACTIVATED"}
Outputs(inPlace) == IF inPlace = {} THEN {Nothing} ELSE Writes
Lates(inPlace) == IF inPlace = {} THEN {{}} ELSE SUBSET XorSplits
View(d, out, late) == [x \in XorSplits |-> IF x \in late THEN Overlay(d, out) ELSE d]

(* Every SUBPROCESS entered spawns its child; a child done at once is      *)
(* joined at once.                                                         *)
Spawned(ch, m, inPlace) ==
  [s \in SubProcesses |->
     IF ch[s] = "none" /\ m[s] = "RUNNING" THEN "running"
     ELSE IF s \in inPlace THEN "completed" ELSE ch[s]]

-----------------------------------------------------------------------------
Init ==
  /\ ns = [n \in Nodes |-> "NOT_ACTIVATED"]
  /\ es = [e \in Edges |-> "NOT_SIGNALED"]
  /\ istate = "ABSENT"
  /\ decisions = [x \in XorSplits |-> NoNode]
  /\ data = Nothing
  /\ performedBy = [n \in Nodes |-> NoAgent]
  /\ child = [s \in SubProcesses |-> "none"]
  /\ reply = "ok"

(* instantiate: the instance is stored before and after _advance.  When    *)
(* _advance raises, the first store remains: RUNNING, with START activated *)
(* and nothing else.                                                       *)
Instantiate(seed, inPlace, out, late) ==
  /\ istate = "ABSENT"
  /\ LET ns0 == [ns EXCEPT ![Start] = "ACTIVATED"]
         v   == View(seed, out, late)
         m   == Marking(ns0, v, inPlace)
     IN /\ \A c \in inPlace : m[c] = "COMPLETED"
        /\ \/ /\ Resolved(ns0, m, v)
              /\ Advance(ns0, m, v, Overlay(seed, out))
              /\ child' = Spawned(child, m, inPlace)
              /\ reply' = "ok"
           \/ /\ ~Resolved(ns0, m, v)
              /\ ns' = ns0 /\ istate' = "RUNNING" /\ data' = seed
              /\ reply' = "unresolved_split"
              /\ UNCHANGED <<es, decisions, child>>
  /\ UNCHANGED performedBy

(* start_activity *)
StartActivity(n) ==
  /\ istate = "RUNNING"
  /\ n \in Activities /\ ns[n] = "ACTIVATED"
  /\ ns' = [ns EXCEPT ![n] = "RUNNING"]
  /\ reply' = "ok"
  /\ UNCHANGED <<es, istate, decisions, data, performedBy, child>>

(* complete_activity by agent a with data w.  A split that cannot resolve  *)
(* raises: the copy is dropped and the instance is as before.              *)
CompleteActivity(n, a, w, inPlace, out, late) ==
  /\ istate = "RUNNING"
  /\ n \in Activities /\ ns[n] \in {"ACTIVATED", "RUNNING"}
  /\ a # NoAgent /\ n \in Ruled => a \in Eligible(n, performedBy)
  /\ LET ns0 == [ns EXCEPT ![n] = "COMPLETED"]
         d   == Overlay(data, w)
         v   == View(d, out, late)
         m   == Marking(ns0, v, inPlace)
     IN /\ \A c \in inPlace : m[c] = "COMPLETED"
        /\ \/ /\ Resolved(ns0, m, v)
              /\ Advance(ns0, m, v, Overlay(d, out))
              /\ performedBy' = [performedBy EXCEPT ![n] = IF a = NoAgent THEN @ ELSE a]
              /\ child' = Spawned(child, m, inPlace)
              /\ reply' = "ok"
           \/ /\ ~Resolved(ns0, m, v)
              /\ reply' = "unresolved_split"
              /\ UNCHANGED <<ns, es, istate, decisions, data, performedBy, child>>

(* _propagate_completion in the parent, when the child of s completes with *)
(* outputs w.  The child is stored as COMPLETED before the parent advances *)
(* and stays so when that raises.                                          *)
JoinSubprocess(s, w, inPlace, out, late) ==
  /\ s \in SubProcesses /\ child[s] = "running"
  /\ LET ns0 == [ns EXCEPT ![s] = "COMPLETED"]
         d   == Overlay(data, w)
         v   == View(d, out, late)
         m   == Marking(ns0, v, inPlace)
         ch  == [child EXCEPT ![s] = "completed"]
     IN /\ \A c \in inPlace : m[c] = "COMPLETED"
        /\ \/ /\ Resolved(ns0, m, v)
              /\ Advance(ns0, m, v, Overlay(d, out))
              /\ child' = Spawned(ch, m, inPlace)
              /\ reply' = "ok"
           \/ /\ ~Resolved(ns0, m, v)
              /\ child' = ch
              /\ reply' = "unresolved_split"
              /\ UNCHANGED <<ns, es, istate, decisions, data>>
  /\ UNCHANGED performedBy

(* put_instance_data: type-checked, allowed in every state of an instance. *)
PutData(w) ==
  /\ istate # "ABSENT"
  /\ data' = Overlay(data, w)
  /\ reply' = "ok"
  /\ UNCHANGED <<ns, es, istate, decisions, performedBy, child>>

Next ==
  \/ \E seed \in Writes, ip \in SUBSET Fresh :
       \E out \in Outputs(ip), late \in Lates(ip) :
         Instantiate(seed, ip, out, late)
  \/ \E n \in Activities : StartActivity(n)
  \/ \E n \in Activities, a \in Agents \cup {NoAgent}, w \in Writes,
        ip \in SUBSET Fresh :
       \E out \in Outputs(ip), late \in Lates(ip) :
         CompleteActivity(n, a, w, ip, out, late)
  \/ \E s \in SubProcesses, w \in Writes, ip \in SUBSET Fresh :
       \E out \in Outputs(ip), late \in Lates(ip) :
         JoinSubprocess(s, w, ip, out, late)
  \/ \E w \in TypedWrites : PutData(w)

Spec == Init /\ [][Next]_vars

(* What a process needs from its surroundings to end: somebody creates the *)
(* instance, every activity on a worklist is at last completed by an       *)
(* eligible agent with the well-typed values its mask asks for, and every  *)
(* child instance ends.  The engine itself never waits.                    *)
FullWrites == {w \in TypedWrites : \A x \in Elems : w[x] # NoValue}
FairSpec ==
  /\ Spec
  /\ WF_vars(\E w \in FullWrites : Instantiate(w, {}, Nothing, {}))
  /\ \A n \in Activities :
       WF_vars(\E a \in Agents \cup {NoAgent}, w \in FullWrites :
                 CompleteActivity(n, a, w, {}, Nothing, {}))
  /\ \A s \in SubProcesses : WF_vars(\E w \in Writes : JoinSubprocess(s, w, {}, Nothing, {}))

-----------------------------------------------------------------------------
TypeOK ==
  /\ ns \in [Nodes -> NodeStates]
  /\ es \in [Edges -> EdgeStates]
  /\ istate \in {"ABSENT", "RUNNING", "COMPLETED"}
  /\ decisions \in [XorSplits -> Nodes \cup {NoNode}]
  /\ data \in Writes
  /\ performedBy \in [Nodes -> Agents \cup {NoAgent}]
  /\ child \in [SubProcesses -> {"none", "running", "completed"}]
  /\ reply \in {"ok", "unresolved_split"}

(* Node and edge marking tell the same story: an edge is signalled exactly *)
(* when its source is done, TRUE when the source ran and (at a split)      *)
(* chose it.  _complete_node and _skip_node write the two maps apart.      *)
SignalsFollowMarking ==
  \A e \in Edges :
    es[e] = IF ns[e[1]] = "SKIPPED" THEN "FALSE_SIGNALED"
            ELSE IF ns[e[1]] # "COMPLETED" THEN "NOT_SIGNALED"
            ELSE IF e[1] \in XorSplits /\ decisions[e[1]] # e[2] THEN "FALSE_SIGNALED"
            ELSE "TRUE_SIGNALED"

(* Every call leaves a fixpoint behind: a node is untouched exactly while  *)
(* an incoming edge is open, only work and awaited children are left in    *)
(* progress, and END decides the instance's state.                         *)
Settled ==
  istate # "ABSENT" /\ ns[Start] # "ACTIVATED" =>
    /\ ns[Start] = "COMPLETED"
    /\ \A n \in Nodes :
         /\ ns[n] = "NOT_ACTIVATED" <=> \E e \in Incoming(n) : es[e] = "NOT_SIGNALED"
         /\ ns[n] = "ACTIVATED" => n \in Activities
         /\ ns[n] = "RUNNING" => n \in Activities \cup SubProcesses
    /\ istate = "COMPLETED" <=> ns[End] = "COMPLETED"

Entering(n) == ns[n] \in {"ACTIVATED", "RUNNING", "COMPLETED"}
Chosen(l)   == ns[l[1]] = "COMPLETED" /\ decisions[l[1]] = l[2]
Dropped(l)  == \/ ns[l[1]] = "SKIPPED"
               \/ ns[l[1]] = "COMPLETED" /\ decisions[l[1]] # l[2]

(* Dead-path elimination is exact: a node runs only if every XOR branch    *)
(* around it was chosen, and is skipped only if one of them was not --     *)
(* however the branches, subprocesses and data writes interleave.          *)
OnlyChosenBranches ==
  \A n \in Nodes :
    /\ Entering(n) => \A l \in Ctx[n] : Chosen(l)
    /\ ns[n] = "SKIPPED" => \E l \in Ctx[n] : Dropped(l)

(* No join ever sees contradicting signals: the branches of an AND block   *)
(* agree, and at most one branch reaches an XOR_JOIN.  _evaluate_targets   *)
(* would silently skip an AND_JOIN with mixed signals.                     *)
JoinsAgree ==
  /\ \A e, f \in Edges : e[2] = f[2] /\ Kind[e[2]] = "AND_JOIN" =>
       ~(es[e] = "TRUE_SIGNALED" /\ es[f] = "FALSE_SIGNALED")
  /\ \A e, f \in Edges : e[2] = f[2] /\ Kind[e[2]] = "XOR_JOIN" =>
       (es[e] = "TRUE_SIGNALED" /\ es[f] = "TRUE_SIGNALED" => e = f)

(* A running instance has somebody to wait for: an activity on a worklist  *)
(* or a child that runs.  The exception is an instance whose creation      *)
(* failed, which keeps START activated for ever.                           *)
NeverStuck ==
  istate = "RUNNING" /\ ns[Start] # "ACTIVATED" =>
    \/ \E n \in Activities : ns[n] \in {"ACTIVATED", "RUNNING"}
    \/ \E s \in SubProcesses : ns[s] = "RUNNING" /\ child[s] = "running"

(* "under any reachable end marking every node is COMPLETED or SKIPPED"    *)
(* (execution.py): reaching END leaves no work and no child behind.        *)
CleanEnd ==
  istate = "COMPLETED" =>
    /\ \A n \in Nodes : ns[n] \in Terminal
    /\ \A s \in SubProcesses : child[s] # "running"

(* What has happened stays: no call takes back a finished node, a signal,  *)
(* a decision or a recorded performer, and a started activity is never     *)
(* deactivated.  The propagation rewrites all of these maps at every call. *)
HistoryStep ==
  /\ \A n \in Nodes :
       /\ ns[n] \in Terminal => ns'[n] = ns[n]
       /\ ns[n] = "RUNNING" => ns'[n] \in {"RUNNING", "COMPLETED"}
       /\ ns[n] = "COMPLETED" => performedBy'[n] = performedBy[n]
  /\ \A e \in Edges : es[e] # "NOT_SIGNALED" => es'[e] = es[e]
  /\ \A x \in XorSplits : decisions[x] # NoNode => decisions'[x] = decisions[x]
  /\ istate = "COMPLETED" => istate' = "COMPLETED"

HistoryKept == [][HistoryStep]_vars

(* Every instance that was created properly ends, whatever its branches.   *)
EventuallyDone == (istate = "RUNNING" /\ ns[Start] = "COMPLETED") ~> istate = "COMPLETED"

=============================================================================
