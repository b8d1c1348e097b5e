# ProcWorks in TLA+

ProcWorks is a headless workflow engine in the ADEPT tradition: process models
that are correct by construction, an engine that marks nodes and edges of a
released model, changes to running instances, a work queue for automatic steps
and an outbox for webhooks, behind one HTTP API (`src/core/src/procworks`).

This directory holds specifications of its core, configurations that let TLC
check them on small instances, and proofs that hold for every process model, every
partition, every organisation, and any number of schemas, instances, workers and tasks: about
one instance and its decisions, the tree of instances and its changes, the analyses of
the validator, the stored schemas, staffing, the task queue and the outbox. `PROJECT.json` links each definition to its lines of source and
lists the runs, the mutants, the theorems, the findings and the hazards.

    tlc -config MCExecution.cfg MCExecution     # one of the runs
    tlapm ExecutionProofs.tla                   # the proofs
    tlapm EvolutionProofs.tla                   # and ValidatorProofs, BlocksProofs, AnnotationsProofs,
                                                # StaffingProofs, ExternalTasksProofs, OutboxProofs

## 1. The system

### Parts, their state, their operations

| part | state | operations | hard because |
|---|---|---|---|
| Execution engine `execution.py` | node and edge markings, decisions, data, performers, children of every instance | instantiate, start, complete; inside: the propagation loop, XOR decisions, child instances, follow-ups, the walk up the parent chain | a fixpoint over a dictionary in any order; dead paths; recursion over a store, with errors half way |
| Rules `validator.py` | none | K1-K7 control flow, D1-D4 data flow, Z1-Z4 staff, H1-H4 subprocesses, F1-F3 follow-ups, T1-T2 time, forms, connectors | static analyses that the engine relies on at run time |
| Change operations `operations.py` | the stored schemas and their lifecycle | create, insert a step, a block, a subprocess; delete; connect data; masks; convert; bind; release; revise; annotate | every operation must keep every rule; deletion of nested blocks |
| Ad-hoc changes `adhoc.py` | the variant of one instance | insert, delete, relabel on a running instance | must not touch the past, must leave markings the engine can continue |
| Migration `migration.py` | | check (M1-M5) and migrate an instance to another version | the same, between two graphs |
| External tasks `integration_runtime.py` | tasks with locks, retries, back-off; incidents | poll (fetch and lock), push, complete, fail, BPMN error, extend, unlock, resolve | workers, users, expiry, crashes between store accesses, threads |
| Outbox `outbox.py` | subscriptions, entries, delivery log; breakers in memory | subscribe, emit, push, dispatch, ping | retries, back-off, breaker, lost answers, crashes |
| API `api.py` | idempotency keys; everything above | one handler per request, run by a pool of threads | get, change a copy, put: no version check between them |
| Stores `store.py`, `db.py` | durable maps | get, put, list; each its own transaction | nothing spans two puts |
| Staff `assignment.py`, `org.py` | organisation models, shared between schemas | resolve rules to agents; edit an organisation | edits against the schemas that refer to it; deputies; four eyes |
| Audit `audit.py`, `metrics.py` | a log | append, evaluate | which calls append |
| Sign-in `auth*.py` | users, sessions | login, logout, passwords | expiry, reset |
| Data access `dal.py`, `odata.py`, `connections.py`; BPMN `bpmn.py`; demo `demo.py`; web client | | conversions and calls outside | |

### How they interact

A request is handled by a function that reads from the stores, calls an
operation on a copy and puts the copy back. The modelling side (operations)
validates a candidate before it is stored; the engine relies on what was
validated: that joins match splits, that a split's discriminator is written
before it, that a subprocess target is released and delivers its outputs. The
engine spawns children through the same store, and a finished child resumes its
parent within the request that finished it. After a change of state a handler
appends to the audit log, queues events for webhooks (outbox) and drives
pushes (external tasks, which use the outbox). A worker's answer comes back as a
request that completes a step in the engine.

### What makes it correct

* Engine: dead-path elimination is exact, joins never see contradicting signals,
  every call leaves a fixpoint, no instance stops with nothing to wait for, END is
  reached with everything finished, the past is never rewritten; a tree of
  instances loses nobody and starts each follow-up once.
* Modelling: whatever edits a client makes, a stored schema has exactly the
  structure and the data supply the engine relies on; a released one stays.
* Staffing: no edit of an organisation, a link or a rule leaves a stored schema that
  nobody can staff, and no open step loses its people unless its rule asks for it.
* Changes at run time: history is kept and the engine can go on as if it had
  always run on the new model.
* External tasks: one open task per step, one holder at a time, one completion;
  nothing is forgotten.
* Outbox: bounded attempts, nothing settled is sent again, everything queued settles.

The hazards that these properties aim at are listed in `PROJECT.json`, each at its
line.

## 2. The modules

    Validator    <-- Rules, Evolution, Staffing      (the graph and its data flow)
                 <-- ValidatorProofs (proofs), also behind those of Annotations and Staffing
    Blocks       <-- SchemaOps                       (how its blocks lie in each other)
                 <-- BlocksProofs (proofs), behind those of Annotations
    Rules        <-- SchemaOps                       (what is attached to it)
    Decisions    <-- ExecutionProofs (proofs), MCExecution, MCSchemaOps
    Organisation <-- Staffing                        (an organisation and a rule)
    ProcessGraph <-- Execution, AnnotationsProofs    (what the engine needs of a schema)
    Execution    <-- ExecutionProofs (proofs), MCExecution
        ^ implemented by
    Engine <-- Evolution <-- MCEngine, EvolutionProofs (proofs; instances, changes to them)
    ExternalTasks <-- ExternalTasksProofs (proofs), MCExternalTasks
    Outbox        <-- OutboxProofs (proofs), MCOutbox
    SchemaOps     <-- MCSchemaOps, Annotations
    Annotations   <-- AnnotationsProofs (proofs), MCAnnotations
    Staffing      <-- StaffingProofs (proofs), MCStaffing

**Execution** is the abstract specification of one instance. An action is one call
(`Instantiate`, `StartActivity`, `CompleteActivity`, `JoinSubprocess` for a child
that reports, `PutData`): the engine works on a private copy that is stored once,
so guard, marking, propagation and store are one step. The result of the loop
in `_advance` is given in closed form: `Marking` solves the equation `NextMark` at
every node, a recursive function along the acyclic graph. What the loop may
interleave is kept as choices of the step: `inPlace` are the subprocesses whose
child is done at once, `out` what they write, `late` the splits that see it. An
advance that cannot resolve a split is refused and leaves what the code leaves:
for a completion nothing, for a child's report the completed child, for a creation
an instance stored with START activated. The schema is a constant; what the engine
needs of it is module **ProcessGraph** (`GraphOK`, `BlockOK`, `BranchesOK`), which
Execution assumes and the editor is proved to provide (`StoredRun`, section 4).
Staff rules appear as `Eligible(node, performedBy)`.

**Engine** is `execution.py` as written. A client's call is a sequence of steps: one
for every node that a scan of `_advance` changes (`Visit`, `EvaluateTargets`, in
dictionary order), one for a scan that ends, one for every follow-up link
(`TriggerFollowUps`), one for every parent that is joined (`JoinParent`). `instantiate`
calls itself through SUBPROCESS nodes and follow-ups; the model has the stack instead of
the recursion: `call` is the function at work with the private copy it works on,
`callers` are those that wait for it (`Create`, `Return`, `Resumed`). So what each step
stores, and when, is in the open. What was put before an error stays put, and a
call that raises is a step too (`reply`): its error may come after other instances were
stored. `past` is the store as the call found it: calls do not overlap, and what a client
could see between calls is `Found`. The properties about a call, that its
children are recorded, that every ancestor is told, that each follow-up is started
once and that nobody is stuck, compare `Found` with the store of the answer, for calls that
are answered, from whatever store earlier refusals left. A SUBPROCESS node has somebody to
wait for while its child runs; a parent whose child completed in a refused call has nobody
(`Unheard`), which `NeverStuck` excepts. `MCEngine` maps instance 1 as a
client finds it to Execution (`ImplementsExecution`).

**Validator** has the rules K1, K2, K3, K7, D1, D2, D4 with the analyses they rest
on (reachability, topological order, the must-analysis of writes, parallelism),
over schema records, and the must-analysis of Z3. Branch tables are functions of the
value, so that the branches of a decision are disjoint is built in; where they come from is the
subject of Decisions.

**Blocks** says what "blocks are nested" means. The code knows blocks only while an
operation builds or removes one, and K1 counts their ends. Here each node lies in lanes:
the edges out of splits whose blocks are around it. `NestedBy` has an order of the
nodes, the lanes of each and the split of each join; `BlocksNest` computes order and lanes,
for TLC to check the starting schemas of the runs.

**Decisions** is rule K7: a decision as a sequence of cells, by bounds, truth values
or texts; the check of a partition, the choice of a branch (`Resolve`), and the
decision that is left when a branch is deleted. The tables of `MCExecution` are
resolved by it, and so are the partitions of `MCSchemaOps`.

**Rules** has the rules about what is attached to a schema: declared elements, masks
(U1, U3), outside data (C1, C2, C5, C8), services and their templates (Z4, A1, A2,
I2), times and the deadline (T1, T2). A query is run by the steps that access its element; a
child's output that is mapped onto the element runs none, and C5 and C8 do not look at it
(`Touching`). `Correct` of SchemaOps is both modules
together, as `validate` is.

**SchemaOps** is the modelling side over a store of schemas: every operation that
changes control flow, decisions, accesses, masks, bindings or the lifecycle builds
a candidate, which `Commit` validates and stores. Only accepted requests are
steps: a refused one stores nothing. Its properties do not repeat the rules: they
enumerate the routes through a schema (`Routes`, `Ran`) and ask what an execution
would meet. **Annotations** adds the other requests of the modelling side, which
declare and attach: elements, connectors, queries, write-backs, templates, services,
automation, staff rules, times, notes, follow-ups, the library mark. The edits of
SchemaOps go on around them, so that what was right when it was attached meets nodes
that move, change their type and disappear. Its properties follow routes again: what
a query needs has been written when it runs, whichever branches were taken; a
deadline holds on every route.

**Evolution** adds ad-hoc changes and migrations to Engine. A change rewrites
schema and markings only; every later engine step runs on what it left. Both
validate with module Validator.

**Organisation** has an organisation as a record of roles, units and people, what each
operation of `org.py` and `operations.py` may make of it, and what a staff rule makes of it:
`PossibleAgents` when it is checked (Z2), `Resolve` and `WithDeputies` when a step
waits. **Staffing** is the requests over the two stores, of schemas and of shared
organisations. A schema has an organisation of its own or a link, is stored
without the shared one (`Dehydrated`) and read with it (`Hydrated`). An edit of a
shared organisation is checked against all schemas linked to it (`CommitOrg`). The control
flow of a schema is fixed here. An instance keeps what is completed and by whom;
the route it takes is drawn when it starts and looked at when a split is reached, and a
step is open once all that runs before it is done, which is what Execution shows
of the engine.

**ExternalTasks** splits each request at its store accesses (`req[t].pc`), since
every access is a transaction and works on copies: a poll scans, discovers,
creates, lists and claims one by one; a report reads its task, then the instance,
flushes, advances, puts again and closes. Retries are integers: `retry_max` has no lower
bound, and a worker may ask for any number (`Asked`), so that attempts have no bound. A crash ends all requests between any
two accesses; time ends lock windows and back-offs at any moment.

**Outbox** does the same for emit and dispatch. The breaker is memory, lost in a
crash, and updated without a lock: the outcome of a send is put first (`StoreOutcome`), then a success
drops the count of the host (`RecordSuccess`), or a failure reads it (`ReadFailures`) and writes it
back (`RecordFailure`). A push has the attempts of its binding, which may be none or less
(`PushAttempts`): it is sent once.

## 3. What the runs show

Passing runs (the properties are in the `.cfg`):

| run | configuration | question |
|---|---|---|
| `execution` | `MCExecution.cfg` | does one instance behave in every order of starts, completions, reports and writes, with values no branch takes and a four-eyes rule, and does it end |
| `engine` | `MCEngine.cfg` | does the loop, with real children, implement Execution in two opposite node orders; does completion travel through three levels with synchronous, asynchronous and conditional follow-ups, some of them refused; are two changes, ad hoc or migrations, at any time of a run, safe |
| `editor` | `MCSchemaOps.cfg` | does every edit keep what the engine relies on, also across schemas that call each other |
| `annotations` | `MCAnnotations.cfg` | does what is attached to a schema stay right under the edits around it, and do released schemas stay and start nothing that starts them |
| `staffing` | `MCStaffing.cfg` | does every stored schema stay staffable and every open step staffed while rules, people, units, deputies and links change |
| `tasks` | `MCTasks.cfg` | one open task, one holder, one completion, whatever crashes, expires or fails |
| `tasks_served` | `MCTasksLive.cfg` | is an activated step at last served |
| `outbox` | `MCOutbox.cfg` | budgets, breaker, settled entries, and that all entries settle |

Four runs show the code at odds with what it says of itself, each by one
property and a counterexample:

* `completed_twice`: a worker's report is sent twice and handled by two threads. Both find the
  lock and read the step as open, and both advance the instance, although "a duplicate report is
  rejected". Nobody works by hand in this run (`WorkersOnly`).
* `inserted_behind_skipped`: criterion M3 looks behind COMPLETED nodes only. A
  version with a new step behind a skipped one is accepted, its edge is never
  signalled, and the instance stops at the next join.
* `variant_forgotten`: `_propagate_completion` resumes the parent on its released
  schema and not on its variant. A step inserted ad hoc behind the subprocess is
  passed over, and the parent ends with the step not even activated.
* `released_overwritten`: a revision takes the name the client gives it, also that
  of a released schema, which turns back into a draft under its instances.

The same models give further counterexamples that are not among the runs; the
hazards say where they bite:

* A child is stored as COMPLETED before its follow-ups are decided. When a condition reads an element
  without a value, or a split of the parent has none to go by, the call is refused; the parent was not
  told, and is waiting for a child that has completed (`Unheard`), against
  "on the child's completion writes the mapped output back into the parent" (`execution.py:20`).
* Two threads that record sends to one host: between the reading of the failures and their writing, a
  success of the other is overwritten, and the breaker opens behind a send that was accepted, against
  "consecutive failures" (`outbox.py:310`). `BreakerJustified` fails with two threads.
* A poll for the topic "" is handed the task of a push step, which "is never fetch-and-locked"
  (`integration_runtime.py:247`); the model has it (`FetchList`).
* Others: an ACTIVATED step that changes its type in a migration, crossed gateways of an
  imported graph (an ASSUME of `MCSchemaOps`, below), a child that a refused call left behind and
  that is joined later in place of another (section 4, `NoOrphans`), a shared organisation created
  again under its id (`NamedIds` of Staffing), two polls that claim one task, a push sent twice,
  an incident lost in a crash, events lost between two stores, and a queue that nobody dispatches
  when requests cease.

Every property has a mutant in `PROJECT.json`: a plausible error in one definition
(kept beside it, named with a suffix) that makes the run fail.

### Bounds, and why they are enough

* `execution`: one schema of ten nodes with every type of node, an AND block with
  a subprocess inside an XOR branch, a value no branch takes, two agents. The calls
  are not bounded: the state space is finite. What the schema does not show is
  the subject of the proofs, which hold for all schemas.
* `engine`: `MaxRoots` and `MaxInstances` stop clients, never the engine: instances
  beyond them are still spawned within a call. A caller is alone in its store with
  the children it starts, fewer than six in all; a tree has three levels, the least in
  which a completion passes an intermediate parent; an instance to be changed is alone
  and changed twice, so that the second change meets a variant that the first has made.
  Two node orders, opposite to each other, decide what one pass of the loop sees. The
  versions differ before a split, in a branch and at the end. Each schema in use is
  checked against module Validator by an ASSUME.
* `editor`: seven starting stores, each with its own number of requests (`left`):
  three from nothing, four on a draft that has an element, three beside a released
  schema and two drafts, two on drafts with a block in a block, where deletion and
  the data analysis are hardest, or with a branch that a deletion has emptied. The
  starting drafts are built by the operations themselves. One ENUM element with
  three values and partitions of two and three branches (one branch of a threefold
  one can go, one of a twofold one dissolves the gateway); AND blocks of two.
* `annotations`: the requests come in four groups (`topic`: data, service, time, link), each
  with the edits that touch what it attaches, as requests of different groups attach
  to different parts of a schema. Two from nothing for every group, three from a
  draft on which that group has something to break: a decision with a reader behind
  it, a call whose output may get a write-back, two parallel branches of different length,
  a step to staff or to automate, schemas to link.
* `staffing`: four worlds: three edits from nothing, two each of a company that is shared
  with a linked draft or embedded in a draft, and three of one shared with a released process. One
  role, two units (one below the other), two people, one shared organisation, eight rules with each
  kind of term, one of which refers to a gateway; one schema with an XOR and one with an AND block, one instance
  beside the edits, started at any time. Two people are the least with a deputy, two
  units the least with a cycle; what depends on numbers is the subject of the proof.
* `tasks`: a pull step and a push step behind it, two workers, polls of two tasks, two crashes,
  three tasks and three pushes. One of the pull step's tasks may be of a step that a user has completed, so
  that a poll finds two. `RetryMax` 1 makes the first failure an incident, unless the worker asks for the
  two retries of `Asked`, more than configured. `tasks_served` has one step and
  `RetryMax` 2, so that a retry comes before the incident.
* `outbox`: two attempts, or none for a push, and a threshold of two, so that the breaker opens within an
  entry's life; two entries share the host; one crash. `completed_twice` has two threads and no
  crash, and stops at its counterexample.

Two facts about the code that no run counts as a finding came up while these bounds were
chosen and the proofs written:

* The rules do not ask for nested blocks. `bpmn.py:241` says that an import is refused
  when "the mapped graph is not block-structured", but K1 (`validator.py:172`) only
  compares numbers of splits and joins. `RulesOnlyCount`, an ASSUME of `MCSchemaOps` that TLC
  evaluates in the run `editor`, has a graph in which an XOR block ends across an AND
  block: every modelled rule accepts it, and on one route its AND_JOIN waits for ever. The
  operations never build such a graph, which is a theorem; an import may bring it.
* When a block that is all of a branch is deleted, the branch stays as an empty edge from
  split to join, which `operations.py:444` says is never left behind. Deleting the step beside
  it then dissolves the gateway and links the nodes around it with the split and the
  join that go. No rule reports the edge to a node that is gone: the candidate is refused because
  the analysis of D1 looks that node up (`validator.py:525`) and fails with a KeyError. Without
  the lookup the schema would be stored (`EdgesOK` and its mutant).

`tasks`, `tasks_served` and `outbox` run one request at a time, cut by crashes:
this is the strongest setting in which the safety properties hold. With a second thread
they fail, as `completed_twice` shows, because nothing between get and put looks
for a change. This is a fact about the code, and the models keep `Threads` a
parameter for it.

### Fairness

The engine never waits: all its work happens in calls. `FairSpec` of Execution
assumes what people and children owe: that an instance is created, that each open
activity is at last completed with well-typed data by somebody eligible, and that
each child reports. `FairSpec` of ExternalTasks lets the server finish its requests
and clocks run, and assumes that workers keep polling and that operations which
can succeed do so at last. In Outbox, `QuietSpec` is all that the code itself provides
(requests in progress finish, clocks run); `BusySpec` adds that requests never
cease (weak fairness of their start). Every pass that finds due entries behind a closed
breaker then posts one of them, and attempts are bounded, so no stronger fairness is
needed. Under `QuietSpec` alone entries do not settle: only requests dispatch.

### Deadlock

The runs of Execution, Engine, SchemaOps, Annotations and Staffing switch TLC's deadlock check off:
instances end, and the bounds stop clients. That no instance stops too early is
what `NeverStuck` says: there is an activity to be done, or a subprocess whose child runs. The task and outbox runs check for deadlock.

## 4. What is proved

Module **ExecutionProofs**, for every schema that satisfies the named
assumptions, any number of nodes, agents and values, and every order of calls:

| theorem | says |
|---|---|
| `TypeCorrect` | `Spec => []TypeOK` |
| `SignalsCorrect` | edges tell what nodes did |
| `PropagationComplete` | every call leaves a fixpoint |
| `DeadPathElimination` | a node runs only under chosen branches, is skipped only under a dropped one |
| `JoinSafety` | no join sees contradicting signals |
| `Progress` | a running instance has an activity, or a subprocess whose child runs, to wait for, unless the report of a child was refused |
| `CleanTermination` | a completed instance has no open node and no running child |
| `HistoryPreserved` | no call takes anything back |
| `Invariance` | `Spec => []IInv`, on which all rest |

The argument. None of the properties is inductive alone. `IInv` joins the type
invariant, the agreement of the two markings, exact dead paths and the fixpoint with three
facts of a lower level: nothing is touched before START has run, a split has a
decision from its completion on and for one of its edges, and a running child has a
node that waits for it. The closed form first needs a solution to exist:
`MarkingSolves` shows that the recursive definition has one, by a least rank
without a solution. That the new markings satisfy
`OnlyChosenBranches` is again an argument along the ranks, node by node, from
the branches around a node's predecessors. `JoinsAgree`, `NeverStuck` and
`CleanEnd` then follow from the invariant in each state: progress takes a least
unfinished node, whose incoming edges are all signalled, so that it is an
activity or a waiting subprocess. A child that reports while a split behind its node has no value
to go by is refused, after it was stored as completed: its node stays RUNNING and has nobody to
wait for. So `Progress` has the hypothesis that this has not happened (`ReturnsHeard`: the child of
each RUNNING node runs), and the invariant that a RUNNING subprocess has a child at all
(`Awaited`). The schema of the run `execution` has no split behind its subprocess.

The assumptions are `GraphAssumption`, which is `GraphOK` and `BlockOK` of ProcessGraph (K2,
an order along the edges, and a labelling of nodes with the branches around them), and
`DataAssumption`, which adds `BranchesOK` and the types of the tables. They are not taken from
the air: TLC evaluates them for the schema of `execution`, and theorem `StoredRun` of
AnnotationsProofs derives all three formulas for every schema that the editor stores.

The same module has the theorems about Decisions, for every number of branches, all
bounds and all texts:

| theorem | says |
|---|---|
| `ThresholdTiles`, `BooleanTiles`, `EnumTiles` | a decision that passes K7 takes every value of its type, by exactly one branch, and the one that is chosen is the one whose interval, truth value or texts contain it |
| `RemovalKeepsIntervals`, `RemovalKeepsTexts` | when a branch of three or more goes, the rest is a partition exactly if it was not the last interval, or not the catch-all |

The choice is "the first branch that takes the value", which is not the interval
that the branch documents: a branch looks at its own upper bound only. `ThresholdTiles`
shows that they agree, by a least bound above the value: the bounds before it are not
above, and K7 orders them. `EnumTiles` has to show that the order of the branches does
not matter. `Branch` of Execution assumes what these theorems say. Floats are integers
here; the float NaN, which is below no bound but the open one, is left out.

Module **EvolutionProofs**, about Engine and Evolution together (`ESpec`), step by step, for all
schemas, any tree of instances, any node order, and any calls, refusals and changes:

| theorem | says |
|---|---|
| `ShapeAlways` | `Shape`: what an instance, a function at work and the stack of those that wait look like in every state |
| `ChildrenAreRecorded` | `ChildRecorded`: a call that is answered leaves no child its parent does not know of |
| `MarkingsAlwaysFit` | `MarkingsFit`: node and edge markings fit the schema in force after every step, also after changes |
| `CleanEndings` | `CleanEnd`: a COMPLETED instance has all its nodes finished and its children completed |
| `HistoryIsKept` | `HistoryKept`: no step and no change rewrites what an instance has finished or works on |
| `NobodyIsMissed` | `NobodyWaitsInVain`: after an answered call no further node, however deep, waits for a child that has completed |

The argument. `Shape` says, among other things, which instance each waiting function has made and
stands at; every layer is built on it. The steps of the engine are first reduced to their
effects (`StepIs`, `ClientCallIs`, `ChangeIs`): a frame marks one node, pushes, pops or ends, and
the stored instances of no other frame are touched.

`ChildrenAreRecorded` needs no hypothesis. Its invariant `Recording` says of each child, at each
step of a call, who knows of it: the parent as it is stored, the copy of
a function at work, or the one function that waits for just that child, or else it was lost before the call began.
The unstored copies reach the store in time because what is stored is never newer than a copy
(`Older`).

`MarkingsAlwaysFit` has two hypotheses, each of which is a fact about the code that another run
shows to be needed. `[]ParentsPlain`: the parent of a child has no variant of
its own; without it a finished child is joined on the wrong schema (`variant_forgotten`).
`MigrationsApart`: no migration adds an edge behind a SKIPPED node (`Behind`, the run `inserted_behind_skipped`)
or replaces a join that waits by another type (`Rejoined`). The invariant adds `Settled` for
what is stored: an edge into a node that has not been reached is not signalled, unless the node
is a join. This is what makes a new step in front of such a node one that the engine has not passed.

`CleanEndings`, `HistoryIsKept` and `NobodyIsMissed` share one invariant, `Consistent`: the three so far, and
`Standing`, which says what each instance and each function at work owes to the others.

* `Grown`: what has been reached lies behind what is finished. With K3 (every node leads to the END)
  this carries the end of an instance back to each of its nodes (`LeadsToEnd`, `AllFinished`).
* `Tended`: a node with a child is RUNNING, or COMPLETED with the child COMPLETED.
* `Kept`: a working copy finishes and signals more than the stored one, and takes nothing back.
  So the put of an outer function undoes nothing that inner ones have put.
* `Claimed` and `Registered`: an instance that may still report is the one its
  parent waits for, at every depth of the stack.

A change keeps `Grown` since what is reached stays with the ways into it: the guards of the ad-hoc
operations see to it, or M2 does for frozen nodes, and M3 for a step that waits behind a completed one. A
node that is no join has just one way in, so that it gets no other (`FrozenWayIn`, `WaitingWayIn`).
Where the checks do not look, a hypothesis is needed:

* `NothingReopened`: no migration adds an edge into a join that is already reached, or into a START
  that was never left (of an instance whose first call failed). M2 compares the edges
  among frozen nodes only, and an edge from a new node is none of these.
* `[]NoOrphans`: between calls, an instance that no parent knows of has completed. It need not be so
  in the code: let an AND block have a SUBPROCESS node in one branch and an XOR split in the
  other. If the step in front of it completes without the value that decides the split, the call is
  refused after the child is stored. The retry spawns a second child. When the first
  one completes, `_propagate_completion` does not ask whom the node has recorded and completes the
  node, and the parent ends while the second child is RUNNING. TLC finds this within seconds when such
  a schema is added to `MCEngine`.

TLC finds that these two hypotheses, and the two of `MarkingsAlwaysFit`, hold in all states and steps of the run
`engine`, migrations included.

`NobodyIsMissed` needs no hypothesis beyond these. It adds `Hearing`, about the copy of each instance that
counts, the working copy of its function or else what is stored (`Copies`): in none of them
does a node wait for a completed child, except for those that did so before the call, and the one
whose child's function still has its follow-ups to start and reports after that (`Tells`). That it
does report, and is not taken for a top-level instance, follows from H1 (`SchemaOK`: each
SUBPROCESS node has a binding) and `[]ParentsPlain` (`Reporting`). TLC has checked
`Hearing` on all states of the run `engine`.

Module **ValidatorProofs**, for every finite graph, whether or not it is correct:

| theorem | says |
|---|---|
| `WrittenBefore` | what the must-analysis calls written before a node is written, on each route that runs the node, by a node that ran and lies in front of it |
| `ExecutedBefore` | the same of what it calls executed before a node |

A route is a choice at every XOR split; it is whole (`Whole`) when an AND join that runs
is reached over all of its branches, and rooted when it starts at START. The analyses are
recursive functions along a topological order, so the module first shows that these
functions exist (iteration over the natural numbers, `AllNumbers`), that a search reaches all its
node leads to (`Reaches`), and that the order passes each edge. The argument is then one
over the order: an intersection over the predecessors of an XOR join is contained in the
set of the one that was taken, and a union at an AND join needs all of them to have run.

Module **BlocksProofs** has the lemmas about nested blocks, for every finite graph. They
say what nesting is good for and that edits keep it:

* `NestedIsSound`: on each route all branches of an AND block run or none, of an XOR block that
  runs exactly one, and END is reached. The lanes of a node that runs are lanes that
  run, and a node of which all lanes run runs (`RanIs`): one direction goes down the order of
  the nodes, the other up.
* `OrderedOrApart`: two nodes are ordered by edges, or lie in different lanes of one
  split; `D2IsEnough`: when both run, that split is an AND, and it is the innermost
  in front of both, which is where D2 looks.
* `WalkIs`: the walk by which deletion looks for the end of a block, counting splits and
  joins (`_matching_block`), finds the join and just the nodes of the block.
* One lemma per way of editing a graph: a node or block spliced into an edge
  (`SteppedNested`, `BoxedNested`), a step or block cut out (`CutNested`, `EmptiedNested`), a
  branch dropped (`AloneOnBranch`, `BypassedNested`, `LeveledNested`), a gateway with one branch
  left dissolved (`DissolvedNested`). Each names the order, lanes and pairing of the new
  graph, by the two general cases `GraftedNested` and `ClosedNested`. This is where it shows that
  K2, K7 and the lookup of `EdgesOK` are needed: they refuse the candidates that are not nested.

Module **AnnotationsProofs**, for any number of schemas, elements, values and requests, of
SchemaOps (`Spec`) and of SchemaOps and Annotations together (`AnnSpec`):

| theorem | says |
|---|---|
| `InOrder`, `AnnInOrder` | `StoreInv`: what is stored is correct, under numbers the counter has passed, and what a released schema refers to was released before it |
| `SpecImmutable`, `Immutable` | `ReleasedImmutable`: no request touches a released schema |
| `ChainsEnd` | `StartsEnd`: no chain of calls and follow-ups, however long, leads a released schema back to itself |
| `RoutesSound`, `AnnRoutesSound` | `SoundFlow`: every route leads to END, runs all branches of an AND block or none, and reaches an XOR join once |
| `WritersOrdered`, `AnnRoutesSound` | `NoRaces`: writers of one element that run on one route are ordered by the control flow |
| `ReadsSupplied`, `QueriesSupplied` | `Supplied` and `FiltersSupplied`: what a step, a split or the query of a step must read is written on every route |
| `CallsSupply` | `CallsDeliver`: what a schema calls is released and has written its outputs when it ends |
| `DeadlinesKept` | `DeadlineHolds`: no route takes longer than the deadline |
| `StoredRun` | a stored schema is what Execution assumes: `GraphOK`, `BlockOK` and `BranchesOK` |

The argument. Thirty kinds of request come down to three effects: one draft is
replaced by a correct draft, a draft is released, a released schema is marked for the
library (`Drafted`, `Released`, `Shelved`); only these are followed further.

`SoundFlow` is not a consequence of the rules, which count the ends of blocks and do not match
them. `StoreInv` therefore has, beside what the rules say, that each stored schema is woven
(`Woven`): it keeps the START and END it was created with, its nodes have numbers the counter
has passed, so that what an operation adds is new, and its blocks are nested by some order,
lanes and pairing. Each edit is matched with its lemma of BlocksProofs. `NoRaces` takes D2
beside it. The data theorems rest on ValidatorProofs: the rules hold of whatever is stored,
every route is whole because it is sound, and the analysis behind the rules errs on no
whole route.

`DeadlinesKept` compares two recursions: the critical path of T2, along the topological
order of the graph, and the time at which a node is done on a route, where an XOR join waits
for the one branch that ran. Stored graphs have an order, so the topological order holds
all nodes, and both recursions are the longest way by a set of predecessors (`Longest`);
a node that waits for fewer is done no later (`WaitsLess`).

`StoredRun` reads an order, lanes and a pairing as `Rank`, `Ctx` and `Match` of ProcessGraph: the
branches around a node are those of its lanes that come from XOR splits, and two edges
that differ by their number are one. It connects the two halves of the project: what ExecutionProofs
shows of an instance holds on every schema the editor stores. The types of the decision
tables, which `DataAssumption` has besides, are not part of it.

`ChainsEnd`: the rules do not look for cycles of follow-ups. What excludes them is the order
in which schemas were released: a target must be RELEASED when its caller is, and stays so. The invariant gives
each released schema a rank that falls along its links: the number of requests that
were left at its release. `ReleasedImmutable` is
about clients that let the server draw ids; with `NamingSpec`, in which a revision takes
the id its client names, it fails (`released_overwritten`).

All this is assumed of the starting stores (`StartsAssumption`: correct, woven, with times that
are numbers, released in order), for which TLC evaluates it. A store that an import
has filled need not be one.

Module **StaffingProofs**, for all organisations, rules and control flows, any number of
schemas, edits and instances:

| theorem | says |
|---|---|
| `StaffingTyped` | `TypeOK`; a linked schema keeps no copy of the shared organisation |
| `UnitsStayTrees` | `TreesStayTrees`: the hierarchies of units have no cycle |
| `StaffingKept` | `Staffable`: no rule of a stored schema refers to nothing, or to nobody |
| `ReferencesFirst` | `ReferencesBefore`: when a step is open, the steps its rule refers to are done |
| `AlwaysStaffed` | `OpenStepsStaffed`: an open step always is somebody's, unless its rule takes people away or its performer is not on record |

All assume that a behaviour starts from stores in which every schema is
correct (`StartsAssumption`), the last three also that no client names the id of an
organisation that exists (`NamedIds = {}`).

* `Staffable` speaks of a schema as it is read, so its invariant adds that a link leads to an
  organisation of the registry (`Linked`). The argument is one about storing
  and reading: what was checked is what is read back (`StoredAndRead`), a shared edit has
  looked at exactly the schemas that will read it, and a new organisation is nobody's.
  What the rules of correctness say is not opened.
* A hierarchy is a tree when units have depths that fall towards the parent (`Tree`). Setting
  a parent is refused when the new parent's walk meets the unit; the walk
  passes at most as many units as there are, and a walk that did not end would have met one
  twice (`ParentSet`).
* `ReferencesBefore` takes Z3, `ExecutedBefore` and the assumption on the control flow
  (`GraphAssumption`: K2 and sound routes). A rule may refer to any node, as Z1 lets it; the property speaks
  of the steps among them.
* `OpenStepsStaffed` compares two recursions over a rule: `PossibleAgents`, which Z2
  asks to be non-empty for the schema, and `Resolve`, which is asked when a step waits.
  `ExactBound` shows that they agree for rules without exceptions and performers,
  `RecordedBound` that the second is non-empty where performers are on record, and
  `DeputiesAdd` that deputies only add people. Rules are finitely deep (`RulesAssumption`),
  and the proofs go by their depth.

Module **ExternalTasksProofs**, for any steps, workers and tasks, any retries, and crashes
between any two accesses to a store:

| theorem | says |
|---|---|
| `TypeCorrect` | `TypeOK`: holder, deadline, back-off and retries of a task fit its state, whatever the threads do and workers ask for |
| `Idempotent` | `OneOpenTask`: a step has one open task |
| `Exclusive` | `ExclusiveClaim`: a task has one holder whose window is open |
| `OnlyOnce` | `AdvancedOnce`: an instance is advanced once for each step |
| `StepFirst` | `ClosedMeansDone`: a closed task is one of a completed step |

The last four hold as long as requests do not overlap (`[]Serial`: at most one thread is
not idle), which the run `completed_twice` shows to be necessary. A crash
may still end a request between two accesses. The invariant says of the request in progress, at
each place where it may stand, what its copies still have to do with the stores
(`Current`): the tasks found are the tasks there are, a task about to be made has no open one
beside it, an instance about to be put has the step open.

Module **OutboxProofs**, for any subscriptions, hosts, threshold and attempts, also none, and
crashes between any two steps:

| theorem | says |
|---|---|
| `BudgetBinds` | `AttemptBudget`: no entry is sent more often than its attempts and the crashes allow, and one that is given up was sent as often as its attempts allow |
| `SettledForGood` | `SettledStays`: what is delivered or dead is never touched or sent again |
| `BreakerEarned` | `BreakerJustified`: a breaker is open only behind so many failed sends in a row to its host |

All hold as long as requests do not overlap (`[]Serial`), which is necessary: with two threads TLC
finds each violated. The invariant relates the copies of a pass of `dispatch_pending` to the
stored entries, and counts the one post that is sent and not yet recorded, from above and
from below (`Counted`, `Within`). For the breaker it adds (`BreakerInv`) that the count of a host is at most its
streak, that a failure sent but not yet counted is already part of the streak (`Refused`), and
that what a request has read of the count is still the count; only a success on its
way to be recorded leaves a count without a streak, and that is the case which
`BreakerJustified` excepts (`Accepted`).

### What is only model-checked

* Liveness: `EventuallyDone`, `Served`, `Settles`. TLAPS has no rules for fairness here.
* Engine: `ImplementsExecution`, `NeverStuck` and `FollowUpsOnce` of the run `engine`. The
  first relates a whole call to one step of Execution; the second needs that the scan of
  `_advance` has come to its end and that an acyclic schema has a first unreached node; the
  third counts along a sequence with `SelectSeq`. Each is an induction over data. `FollowUpsOnce`
  compares schemas by name, so that it speaks of instances that are not migrated to another version
  after they were started; the run changes nothing in a tree.

All safety and action properties of the other runs are theorems.

## 5. Abstractions and what is left out

* Values of data elements are a few model values; a decision maps each to a branch
  or to none. Labels, layout, topics, signatures and
  messages are not represented. A duration or a deadline is a small number.
* Edges are sets; where two edges may join the same nodes (SchemaOps) they carry an
  index. Ids drawn for a refused request leave a gap, which nothing looks at.
* Incidents are a set of tasks; a lock window is open, over or absent; a back-off
  is over or not. A breaker counts up to its threshold.
* A put copies: the SQL store serialises. The in-memory store of tests keeps
  the live object; its aliasing is not modelled.
* Execution takes a request as one step; in Engine a request has steps, and ends before the
  next begins. Racing requests are modelled for external tasks and the outbox only.
* Staffing takes a request as one step, and instances have no ad-hoc changes there. Names are
  left out; who performed a step is an agent of the organisation or, for a caller without
  one, nobody. `Outsider` stands for all others in the bound of Z2.
* A query of outside data keeps its kind, its connector and the elements its key or
  filters come from. That the key of a looked-up record is written before is not asked,
  as the code does not ask it. A SUBPROCESS counts in the critical path with its own
  annotation, whatever its child takes.
* Rules that compare types, texts and parameter names (D3, C3, C4, C6, C7, C9, U2, A3, I1,
  I3, I4) refuse a request whatever the rest of the schema; such requests are left out.

Not modelled:

* Idempotency keys, and two requests at once outside the external tasks and the outbox. Nothing
  compares what a put replaces with what was read, so each pair of racing requests on
  one object can lose one; `completed_twice` shows the pattern once. The other pairs
  are hazards without a property.
* A restart of the id counters over a durable store, and the admin reset: a
  one-step effect that a reader sees in the line the hazard names.
* Audit and metrics: append-only, nothing decides by them.
* Sign-in and sessions: access control in front of the handlers, without state that the
  behaviour of processes depends on.
* BPMN import: an import stores what the rules accept, nested or not (section 3); the theorems
  about stored schemas are about those that operations have built.
* XML and OData conversion, connections, demo data, the web client, migrations of the
  database, deployment: conversions, or calls outside whose failure is an
  outcome in ExternalTasks.

## 6. Plan

The order follows what the rest relies on.

1. *(done)* Execution, its proofs, Engine and the refinement.
2. *(done)* Validator, SchemaOps: the editor keeps what 1 assumes.
3. *(done)* ExternalTasks and Outbox with crashes and threads; Evolution.
4. *(done)* Organisation and Staffing: a stored schema can be staffed whatever edits
   follow, with its proof.
5. *(done)* Rules and Annotations: what is attached to a schema; Decisions with its
   proofs; Engine and Evolution in one run, with the calls that are refused.
6. *(done)* Proofs about the analyses of Validator, the stores of SchemaOps and
   Annotations, Staffing, ExternalTasks and Outbox.
7. *(done)* Blocks: nested through all edits, so that routes are sound, writers ordered,
   data supplied and deadlines kept without further hypotheses; and the assumptions of
   Execution from the editor (`StoredRun`).
8. *(done)* Engine as a stack of functions at work, and the proofs about it and Evolution:
   shape, recorded children, markings through changes, clean ends and the kept past.
   To come: the propagation loop of Engine, step by step, against the closed form
   of Execution.
9. Models to come: the requests of `api.py` as get, change, put with two editors, where
   one request at a time is the abstract specification; an abstract queue (step open,
   held, done, parked) that ExternalTasks implements, composed with Outbox for pushes.
