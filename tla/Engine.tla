------------------------------- MODULE Engine -------------------------------
(***************************************************************************)
(* execution.py as it is written: the propagation loop, the spawning and   *)
(* joining of child instances, follow-ups and the walk up the parent chain *)
(* over a store of instances.  What a call stores before it raises stays   *)
(* stored.                                                                 *)
(*                                                                         *)
(* A client's call is a sequence of steps: one for every node _advance     *)
(* changes, every scan that ends, every link, every instance created.      *)
(* instantiate calls itself, through SUBPROCESS nodes and follow-ups, so   *)
(* there is a stack: call is the engine function at work with the private  *)
(* copy it works on, callers are those waiting for it.  One client's call  *)
(* ends before the next begins.                                            *)
(*                                                                         *)
(* Instances live in the sequence store; an id is a position, as the       *)
(* process counts instances up from 1.  A put copies the instance (the     *)
(* SQL store serialises it).  A schema is a record:                        *)
(*   order  the nodes in dictionary order      kind    their types         *)
(*   edges  <<source, target>> pairs           disc, branch  XOR decisions *)
(*   bind   the bindings of SUBPROCESS nodes [target, inp, outp], mappings *)
(*          as sets of <<child element, parent element>>                   *)
(*   links  the follow-ups [target, mode, cond, map], map a set of         *)
(*          <<target element, source element>>                             *)
(* An instance changed ad hoc carries its own schema (Evolution).  The     *)
(* performing agent is modelled in module Execution only.                  *)
(***************************************************************************)
EXTENDS Sequences, Validator

CONSTANTS
  Schemas,        \* the released schemas, by name
  Released,       \* names of those clients may instantiate
  Elems, Values, NoValue, NoNode,
  Typed,          \* the values a branch must exist for (validator)
  ClientWrites,   \* data a client may send with a call
  Holds(_, _),    \* Holds(cond, data) : "true", "false" or "error" (it raises)
  MaxRoots,       \* bound: clients create instances below this number only
  MaxInstances    \* bound: activities are completed below this number only

NodesOf(S) == DOMAIN S.kind
NodeTypes == {"START", "END", "ACTIVITY", "SUBPROCESS"} \cup Splits \cup Joins

(* What release checks of a schema, and what a schema is: its nodes are    *)
(* listed once each in dictionary order, its edges join them, its          *)
(* SUBPROCESS nodes and no others have a binding (H1), a split that takes  *)
(* a value sends it to a branch (K7), and what it calls or starts is       *)
(* released too (H1, F1).                                                  *)
SchemaOK(S) ==
  /\ DOMAIN S = {"order", "kind", "edges", "disc", "branch", "bind", "reads", "writes", "links"}
  /\ Valid(S, Typed)
  /\ IsFiniteSet(NodesOf(S)) /\ NoNode \notin NodesOf(S)
  /\ \A n \in NodesOf(S) : S.kind[n] \in NodeTypes
  /\ S.edges \subseteq NodesOf(S) \X NodesOf(S)
  /\ S.order \in Seq(NodesOf(S))
  /\ \A n \in NodesOf(S) : \E j \in DOMAIN S.order : \A h \in DOMAIN S.order : S.order[h] = n <=> h = j
  /\ DOMAIN S.bind = NodesOfKind(S, "SUBPROCESS")
  /\ \A n \in DOMAIN S.bind : S.bind[n].target \in DOMAIN Schemas
  /\ \A x \in DOMAIN S.disc : \A v \in Values : S.branch[x][v] \in Succs(S, x) \cup {NoNode}
  /\ S.links \in Seq({S.links[k] : k \in DOMAIN S.links})
  /\ \A k \in DOMAIN S.links : S.links[k].target \in DOMAIN Schemas
ASSUME SchemasAssumption ==
  /\ Released \subseteq DOMAIN Schemas
  /\ \A name \in DOMAIN Schemas : SchemaOK(Schemas[name])

-----------------------------------------------------------------------------
VARIABLES
  store,          \* the instance store
  call,           \* the function at work, Idle between calls
  callers,        \* the functions that wait for it, the client's first
  past,           \* the store as the client's call found it
  reply           \* what the last call answered

vars == <<store, call, callers, past, reply>>

Nothing == [x \in Elems |-> NoValue]
Overlay(d, w) == [x \in Elems |-> IF w[x] = NoValue THEN d[x] ELSE w[x]]
(* effective_schema: the instance's own variant, or its released schema.   *)
Effective(I) == IF I.own = <<>> THEN Schemas[I.schema] ELSE I.own[1]

(* The values a mapping of <<target, source>> pairs takes over from data.  *)
Mapped(map, from) ==
  [x \in Elems |-> IF \E p \in map : p[1] = x
                   THEN from[(CHOOSE p \in map : p[1] = x)[2]] ELSE NoValue]
Turned(map) == {<<p[2], p[1]>> : p \in map}

-----------------------------------------------------------------------------
(* Node completion and skipping.                                           *)

Signalled(S, es, n, chosen) ==
  [e \in DOMAIN es \cup OutOf(S, n) |->
     IF e[1] # n \/ e \notin S.edges THEN es[e]
     ELSE IF e[2] \in chosen THEN "TRUE_SIGNALED" ELSE "FALSE_SIGNALED"]

CompleteNode(S, I, n, target) ==
  [I EXCEPT !.ns[n] = "COMPLETED",
            !.es = Signalled(S, @, n, IF S.kind[n] = "XOR_SPLIT" THEN {target} ELSE NodesOf(S))]

SkipNode(S, I, n) == [I EXCEPT !.ns[n] = "SKIPPED", !.es = Signalled(S, @, n, {})]

(* _resolve_xor_branch: NoNode when it raises.                             *)
XorTarget(S, I, n) ==
  IF I.data[S.disc[n]] = NoValue THEN NoNode ELSE S.branch[n][I.data[S.disc[n]]]

(* _join_subprocess *)
JoinNode(S, I, n, child) ==
  CompleteNode(S, [I EXCEPT !.data = Overlay(@, Mapped(Turned(S.bind[n].outp), child.data))],
               n, NoNode)

NewInstance(name, id, seed, parent, pnode) ==
  LET S == Schemas[name]
  IN [id |-> id, schema |-> name, state |-> "RUNNING",
      ns |-> [n \in NodesOf(S) |-> IF S.kind[n] = "START" THEN "ACTIVATED" ELSE "NOT_ACTIVATED"],
      es |-> [e \in S.edges |-> "NOT_SIGNALED"],
      dec |-> [n \in NodesOf(S) |-> NoNode], data |-> seed,
      parent |-> parent, pnode |-> pnode,
      children |-> [n \in NodesOf(S) |-> 0], followups |-> <<>>, own |-> <<>>]

-----------------------------------------------------------------------------
(* A function at work: what it does to instance i, which it has a private  *)
(* copy of, and where it is.                                               *)
(*   task   "create" in instantiate, "complete" in complete_activity and   *)
(*          _finish, "join" in the loop of _propagate_completion           *)
(*   pc     "visit" and "evaluate" in the first and the second scan of     *)
(*          _advance at position k of the order, "follow" at link k        *)
(*   moved  progress: this round of _advance has changed something         *)
Idle == [pc |-> "idle"]
Begin(task, I) == [task |-> task, pc |-> "visit", i |-> I, k |-> 1, moved |-> FALSE]

(* The walk up the parent chain asks for the released schema.              *)
SchemaOf(F) == IF F.task = "join" THEN Schemas[F.i.schema] ELSE Effective(F.i)

(* Mutant: the follow-ups of a parent completed by its child are forgotten. *)
Links_NotJoined(F) == IF F.task = "join" THEN <<>> ELSE SchemaOf(F).links
Links(F) == SchemaOf(F).links

PutIn(st, I) == [st EXCEPT ![I.id] = I]

(* The client's call ends.  What waits for an answer is gone.              *)
Answer(st, what) ==
  /\ store' = st /\ reply' = what
  /\ call' = Idle /\ callers' = <<>> /\ past' = <<>>
Raise == Answer(store, "conflict")

Goes(F) == call' = F /\ UNCHANGED <<store, callers, past, reply>>

(* instantiate, from a function that will go on as F: it stores the new    *)
(* instance before it advances it.                                         *)
Create(F, I) ==
  /\ call' = Begin("create", I) /\ callers' = Append(callers, F)
  /\ store' = Append(store, I) /\ UNCHANGED <<past, reply>>

(* Mutant: the parent does not record the child it spawned.                *)
Adopt_Unrecorded(S, I, n, C) ==
  LET J == [I EXCEPT !.ns[n] = "RUNNING"]
  IN IF C.state = "COMPLETED" THEN JoinNode(S, J, n, C) ELSE J

(* The parent's side of a child C that node n has spawned.                 *)
Adopt(S, I, n, C) ==
  LET J == [I EXCEPT !.ns[n] = "RUNNING", !.children[n] = C.id]
  IN IF C.state = "COMPLETED" THEN JoinNode(S, J, n, C) ELSE J

(* What function F does with the instance C it has waited for.             *)
Resumed(F, C) ==
  IF F.pc = "visit"
    THEN [F EXCEPT !.i = Adopt(SchemaOf(F), F.i, SchemaOf(F).order[F.k], C),
                   !.k = F.k + 1, !.moved = TRUE]
  ELSE [F EXCEPT !.i.followups = Append(@, C.id), !.k = F.k + 1]

(* instantiate ends, with its instance stored.                             *)
Return(I) ==
  IF callers = <<>> THEN Answer(PutIn(store, I), "ok")
  ELSE /\ call' = Resumed(callers[Len(callers)], I)
       /\ callers' = SubSeq(callers, 1, Len(callers) - 1)
       /\ store' = PutIn(store, I) /\ UNCHANGED <<past, reply>>

-----------------------------------------------------------------------------
(* The nodes a scan does something about, and the first of them from       *)
(* position k of the order on.                                             *)
First(S, k, todo) ==
  {j \in k .. Len(S.order) : S.order[j] \in todo /\ \A h \in k .. j - 1 : S.order[h] \notin todo}

(* The first scan of _advance: activated nodes that are not waiting for    *)
(* work or for their child.  A node of the schema the instance has no      *)
(* marking for raises (the dictionary lookup fails).                       *)
ToVisit(S, I) ==
  {n \in NodesOf(S) :
     \/ n \notin DOMAIN I.ns
     \/ /\ I.ns[n] = "ACTIVATED" /\ S.kind[n] # "ACTIVITY"
        /\ S.kind[n] = "SUBPROCESS" => I.children[n] = 0}

VisitFails(S, I, n) ==
  n \notin DOMAIN I.ns \/ (S.kind[n] = "XOR_SPLIT" /\ XorTarget(S, I, n) = NoNode)

(* A SUBPROCESS without a binding would be a black box that completes at   *)
(* once; release lets none pass.                                           *)
Spawns(S, n) == S.kind[n] = "SUBPROCESS" /\ n \in DOMAIN S.bind

Visited(S, I, n) ==
  IF S.kind[n] = "END" THEN [I EXCEPT !.ns[n] = "COMPLETED", !.state = "COMPLETED"]
  ELSE IF S.kind[n] = "XOR_SPLIT"
    THEN CompleteNode(S, [I EXCEPT !.dec[n] = XorTarget(S, I, n)], n, XorTarget(S, I, n))
  ELSE CompleteNode(S, I, n, NoNode)

Child(S, I, n) ==
  NewInstance(S.bind[n].target, Len(store) + 1, Mapped(S.bind[n].inp, I.data), I.id, n)

VisitNode(S, I, n, j) ==
  IF VisitFails(S, I, n) THEN Raise
  ELSE IF Spawns(S, n) THEN Create([call EXCEPT !.k = j], Child(S, I, n))
  ELSE Goes([call EXCEPT !.i = Visited(S, I, n), !.k = j + 1, !.moved = TRUE])

Visit ==
  LET S == SchemaOf(call)
      next == First(S, call.k, ToVisit(S, call.i))
  IN /\ call.pc = "visit"
     /\ \/ \E j \in next : VisitNode(S, call.i, S.order[j], j)
        \/ next = {} /\ Goes([call EXCEPT !.pc = "evaluate", !.k = 1])

-----------------------------------------------------------------------------
(* The second scan, _evaluate_targets: nodes not activated all whose       *)
(* incoming edges are signalled, by earlier nodes of this scan too.        *)
Signals(S, I, n) == {I.es[e] : e \in Into(S, n)}

Unmarked(S, I, n) ==
  \/ n \notin DOMAIN I.ns
  \/ I.ns[n] = "NOT_ACTIVATED" /\ ~(Into(S, n) \subseteq DOMAIN I.es)

(* Mutant: a node without a TRUE edge is left alone.                       *)
ToEvaluate_NoSkip(S, I) ==
  {n \in NodesOf(S) :
     \/ Unmarked(S, I, n)
     \/ /\ I.ns[n] = "NOT_ACTIVATED" /\ "TRUE_SIGNALED" \in Signals(S, I, n)
        /\ "NOT_SIGNALED" \notin Signals(S, I, n)}

ToEvaluate(S, I) ==
  {n \in NodesOf(S) :
     \/ Unmarked(S, I, n)
     \/ /\ I.ns[n] = "NOT_ACTIVATED" /\ Into(S, n) # {}
        /\ "NOT_SIGNALED" \notin Signals(S, I, n)}

Evaluated(S, I, n) ==
  IF \/ S.kind[n] = "AND_JOIN" /\ Signals(S, I, n) = {"TRUE_SIGNALED"}
     \/ S.kind[n] # "AND_JOIN" /\ "TRUE_SIGNALED" \in Signals(S, I, n)
    THEN [I EXCEPT !.ns[n] = "ACTIVATED"]
  ELSE SkipNode(S, I, n)

EvaluateNode(S, I, n, j) ==
  IF Unmarked(S, I, n) THEN Raise
  ELSE Goes([call EXCEPT !.i = Evaluated(S, I, n), !.k = j + 1, !.moved = TRUE])

(* Mutant: one round only.                                                 *)
Again_Never(F) == FALSE

(* _advance goes on while something changes.                               *)
Again(F) == F.moved

(* _advance is over.  A completed instance starts its follow-ups; only     *)
(* instantiate has not stored it before.                                   *)
Advanced(F) ==
  IF F.i.state = "COMPLETED"
    THEN /\ call' = [F EXCEPT !.pc = "follow", !.k = 1]
         /\ store' = IF F.task = "create" THEN store ELSE PutIn(store, F.i)
         /\ UNCHANGED <<callers, past, reply>>
  ELSE Return(F.i)

EvaluateTargets ==
  LET S == SchemaOf(call)
      next == First(S, call.k, ToEvaluate(S, call.i))
  IN /\ call.pc = "evaluate"
     /\ \/ \E j \in next : EvaluateNode(S, call.i, S.order[j], j)
        \/ /\ next = {} /\ Again(call)
           /\ Goes([call EXCEPT !.pc = "visit", !.k = 1, !.moved = FALSE])
        \/ next = {} /\ ~Again(call) /\ Advanced(call)

-----------------------------------------------------------------------------
(* _follow_up_fires *)
Fires(l, I) == IF l.cond = "always" THEN "true" ELSE Holds(l.cond, I.data)

FollowUp(l, I) ==
  NewInstance(l.target, Len(store) + 1, Mapped(l.map, I.data),
              IF l.mode = "SYNC" THEN I.id ELSE 0, NoNode)

(* A completed child with a node of its parent to join: the loop condition *)
(* and the early returns of _propagate_completion.                         *)
Reports_OneLevel(F) ==
  /\ F.task = "complete" /\ F.i.parent # 0 /\ F.i.pnode # NoNode
  /\ F.i.pnode \in DOMAIN Schemas[store[F.i.parent].schema].bind
Reports(F) ==
  /\ F.task # "create" /\ F.i.parent # 0 /\ F.i.pnode # NoNode
  /\ F.i.pnode \in DOMAIN Schemas[store[F.i.parent].schema].bind

(* One step of _propagate_completion: C joins its parent P.                *)
JoinParent(P, C) == Begin("join", JoinNode(Schemas[P.schema], P, C.pnode, C))

(* All follow-ups are started and the instance is stored.                  *)
Followed(F) ==
  IF Reports(F)
    THEN /\ call' = JoinParent(store[F.i.parent], F.i)
         /\ store' = PutIn(store, F.i) /\ UNCHANGED <<callers, past, reply>>
  ELSE Return(F.i)

(* _trigger_follow_ups *)
TriggerFollowUps ==
  LET l == Links(call)[call.k] IN
  /\ call.pc = "follow"
  /\ \/ /\ call.k <= Len(Links(call)) /\ Fires(l, call.i) = "error" /\ Raise
     \/ /\ call.k <= Len(Links(call)) /\ Fires(l, call.i) = "false"
        /\ Goes([call EXCEPT !.k = @ + 1])
     \/ /\ call.k <= Len(Links(call)) /\ Fires(l, call.i) = "true"
        /\ Create(call, FollowUp(l, call.i))
     \/ call.k > Len(Links(call)) /\ Followed(call)

-----------------------------------------------------------------------------
Init ==
  /\ store = <<>> /\ call = Idle /\ callers = <<>>
  /\ past = <<>> /\ reply = "ok"

(* A client's call begins.                                                 *)
Begins(F, st) ==
  /\ call' = F /\ store' = st /\ past' = store
  /\ UNCHANGED <<callers, reply>>

(* post_instantiate, v1_start_instance *)
PostInstantiate(name) ==
  LET I == NewInstance(name, Len(store) + 1, Nothing, 0, NoNode) IN
  /\ Len(store) < MaxRoots
  /\ Begins(Begin("create", I), Append(store, I))

(* post_start_activity *)
PostStart(id, n) ==
  LET I == store[id] IN
  /\ I.state = "RUNNING"
  /\ Effective(I).kind[n] = "ACTIVITY" /\ I.ns[n] = "ACTIVATED"
  /\ Answer(PutIn(store, [I EXCEPT !.ns[n] = "RUNNING"]), "ok")

(* post_complete_activity *)
PostComplete(id, n, w) ==
  LET I == store[id]
      S == Effective(I)
  IN /\ Len(store) < MaxInstances
     /\ I.state = "RUNNING"
     /\ S.kind[n] = "ACTIVITY" /\ I.ns[n] \in {"ACTIVATED", "RUNNING"}
     /\ Begins(Begin("complete", CompleteNode(S, [I EXCEPT !.data = Overlay(@, w)], n, NoNode)),
               store)

ClientCall ==
  /\ call = Idle
  /\ \/ \E name \in Released : PostInstantiate(name)
     \/ \E id \in DOMAIN store : \E n \in NodesOf(Effective(store[id])) :
          \/ PostStart(id, n)
          \/ \E w \in ClientWrites : PostComplete(id, n, w)

Next == ClientCall \/ Visit \/ EvaluateTargets \/ TriggerFollowUps

Spec == Init /\ [][Next]_vars

-----------------------------------------------------------------------------
Terminal == {"COMPLETED", "SKIPPED"}
Subs(I) == {n \in DOMAIN I.ns : Effective(I).kind[n] = "SUBPROCESS"}
Acts(I) == {n \in DOMAIN I.ns : Effective(I).kind[n] = "ACTIVITY"}

(* The store before the client's call at work, and a call that ends well.  *)
Found    == IF call = Idle THEN store ELSE past
Answered == call' = Idle /\ reply' = "ok"

(* In a store st: children their parent does not know of, children that    *)
(* have completed while their node still waits for them, and instances     *)
(* whose follow-ups are not the ones they owe.                             *)
Unrecorded(st) ==
  {c \in DOMAIN st : /\ st[c].pnode # NoNode
                     /\ st[st[c].parent].children[st[c].pnode] # c}
Unheard(st) ==
  {c \in DOMAIN st \ Unrecorded(st) : /\ st[c].pnode # NoNode /\ st[c].state = "COMPLETED"
                                      /\ st[st[c].parent].ns[st[c].pnode] = "RUNNING"}

Due(I) ==
  LET owed(l) == IF l.cond = "always" THEN TRUE ELSE Holds(l.cond, I.data) = "true"
      due == SelectSeq(Schemas[I.schema].links, owed)
  IN [k \in DOMAIN due |-> due[k].target]
Started(st, I) == [k \in DOMAIN I.followups |-> st[I.followups[k]].schema]
Misfollowed(st) ==
  {i \in DOMAIN st :
     Started(st, st[i]) # IF st[i].state = "COMPLETED" THEN Due(st[i]) ELSE <<>>}

(* "The node moves to RUNNING and the parent records the child id"         *)
(* (_handle_subprocess): a call that is answered leaves no child behind    *)
(* its parent does not know of, whatever earlier calls were refused.       *)
ChildRecorded == [][Answered => Unrecorded(store') \subseteq Unrecorded(Found)]_vars

(* The walk up the parent chain misses nobody: after a call that is        *)
(* answered no further SUBPROCESS node, however deep, waits for a child    *)
(* that has completed (_propagate_completion).                             *)
NobodyWaitsInVain == [][Answered => Unheard(store') \subseteq Unheard(Found)]_vars

(* Completion starts each follow-up whose condition holds, once, whether   *)
(* the instance was completed by a client, by its child or at birth, and   *)
(* nothing else starts one (_finish, _trigger_follow_ups).                 *)
FollowUpsOnce == [][Answered => Misfollowed(store') \subseteq Misfollowed(Found)]_vars

(* An instance nobody can take further: it runs, none of its activities    *)
(* can be worked on, and no SUBPROCESS node of it has a child that runs.   *)
ChildRuns(st, I, n) ==
  /\ I.ns[n] = "RUNNING" /\ I.children[n] # 0
  /\ st[I.children[n]].state # "COMPLETED"
Stuck(st) ==
  {i \in DOMAIN st :
     LET I == st[i]
     IN /\ I.state = "RUNNING"
        /\ \A n \in Acts(I) : I.ns[n] \notin {"ACTIVATED", "RUNNING"}
        /\ \A n \in Subs(I) : ~ChildRuns(st, I, n)}

(* A running instance has somebody to wait for (K7: "an exclusive split    *)
(* can never deadlock"; bpmn.py: an unstructured graph is "never stored"): *)
(* no call that is answered leaves a further one without work and without  *)
(* a running child. Excepted is an instance whose child completed in a     *)
(* call refused before, which it was never told of and never will be.      *)
NeverStuck ==
  [][Answered => Stuck(store') \subseteq
                   Stuck(Found) \cup {Found[c].parent : c \in Unheard(Found)}]_vars

(* "under any reachable end marking every node is COMPLETED or SKIPPED",   *)
(* at every level of the instance tree, and at every step of a call.       *)
CleanEnd ==
  \A i \in DOMAIN store : store[i].state = "COMPLETED" =>
    /\ \A n \in DOMAIN store[i].ns : store[i].ns[n] \in Terminal
    /\ \A n \in Subs(store[i]) : store[i].children[n] # 0 =>
         store[store[i].children[n]].state = "COMPLETED"

=============================================================================
