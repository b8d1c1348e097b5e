---- MODULE ExternalTasks ----
(***************************************************************************)
(* The work queue of automatic steps (integration_runtime.py) of one       *)
(* process instance: tasks are made when a step is found activated,        *)
(* fetched and locked by workers or pushed to an endpoint, and reported    *)
(* back.  Requests are handled by the server's Threads; every access to a  *)
(* store is a transaction of its own that reads or writes a copy (db.py),  *)
(* so a request is a sequence of such accesses, and a crash ends it        *)
(* between any two.                                                        *)
(*                                                                         *)
(* lock_expires_at is abstracted to "none", "open" (in the future) and     *)
(* "over": Expire ends a window at any moment.  claims says who has been   *)
(* told, for a window still open, that a task is his; for a push, which    *)
(* callback tokens no report has used.                                     *)
(***************************************************************************)
EXTENDS Integers, Sequences

CONSTANTS
    Threads,    \* the server's request threads (Starlette's thread pool)
    Workers,    \* the worker ids that poll and report
    Pull, Push, \* steps bound as EXTERNAL_TASK and as HTTP_PUSH
    After,      \* After[s]: the steps that must be completed before s is activated
    RetryMax,   \* the binding's retry_max, which has no lower bound
    Asked,      \* the retries a worker may ask for when it reports a failure
    Batch,      \* max_tasks of a poll
    NoWorker,   \* worker_id = None
    MaxTasks,   \* bound: tasks ever made
    MaxTokens,  \* bound: pushes ever sent
    MaxCrashes  \* bound: crashes of the server

ASSUME ExternalTasksAssumption ==
    /\ Threads # {} /\ Workers # {} /\ Pull \cap Push = {}
    /\ After \in [Pull \cup Push -> SUBSET (Pull \cup Push)]
    /\ RetryMax \in Int /\ Asked \subseteq Nat /\ Batch \in Nat \ {0}
    /\ MaxTasks \in Nat /\ MaxTokens \in Nat /\ MaxCrashes \in Nat
    /\ Workers \cap Nat = {} /\ NoWorker \notin Workers \cup Nat

VARIABLES
    inst,       \* the stored instance: the state of every step
    tasks,      \* the task store, in the order of creation
    incidents,  \* tasks an incident was recorded for, resolved or not
    req,        \* what each thread is doing
    claims,     \* <<holder, task>>: granted and not over
    tokens,     \* number of callback tokens made
    done,       \* how many completions of each step were accepted
    crashes
vars == <<inst, tasks, incidents, req, claims, tokens, done, crashes>>

Steps == Pull \cup Push
StepStates == {"NOT_ACTIVATED", "ACTIVATED", "RUNNING", "COMPLETED"}
TaskStates == {"CREATED", "LOCKED", "COMPLETED", "INCIDENT", "BPMN_ERROR"}
OpenStates == {"CREATED", "LOCKED", "INCIDENT", "BPMN_ERROR"}
Holders == Workers \cup 1..tokens
Idle == [pc |-> "idle"]

(* What an operator's resolution grants: max(1, retry_max). *)
Budget == IF RetryMax < 1 THEN 1 ELSE RetryMax
NewTask(s) == [step |-> s, state |-> "CREATED", worker |-> NoWorker,
               window |-> "none", due |-> TRUE, left |-> RetryMax]
Fields == [step : Steps, state : TaskStates, worker : Workers \cup Nat \cup {NoWorker},
           window : {"none", "open", "over"}, due : BOOLEAN, left : Int]
(* Its fields fit its state: a lock has a holder, and a deadline if the    *)
(* holder is a worker; a queued or parked task has neither; only a queued  *)
(* one backs off; an incident has no retries left.                         *)
Fitting(task) ==
    /\ task.state = "LOCKED" => task.worker # NoWorker
    /\ task.state = "LOCKED" /\ task.worker \in Workers => task.window # "none"
    /\ task.state \in {"CREATED", "INCIDENT", "BPMN_ERROR"} => task.worker = NoWorker
    /\ task.state # "LOCKED" => task.window = "none"
    /\ task.state # "CREATED" => task.due
    /\ task.state = "INCIDENT" => task.left = 0
Task == {task \in Fields : Fitting(task)}

(* The task as the four ways out of LOCKED and the way into it write it. *)
Requeued(task, left, due) ==
    [task EXCEPT !.state = "CREATED", !.worker = NoWorker, !.window = "none",
                 !.left = left, !.due = due]
LockedBy(task, h) ==
    [task EXCEPT !.state = "LOCKED", !.worker = h, !.due = TRUE,
                 !.window = IF h \in Workers THEN "open" ELSE "none"]
Parked_KeepsHolder(task, state, left) ==
    [task EXCEPT !.state = state, !.window = "none", !.due = TRUE, !.left = left]
Parked(task, state, left) ==
    [task EXCEPT !.state = state, !.worker = NoWorker, !.window = "none",
                 !.due = TRUE, !.left = left]
Closed(task) == [task EXCEPT !.state = "COMPLETED", !.window = "none", !.due = TRUE]

(* complete_activity on an instance value: the step is completed and every *)
(* step all of whose predecessors are completed is activated.              *)
Completable_Always(i, s) == i[s] # "NOT_ACTIVATED"
Completable(i, s) == i[s] \in {"ACTIVATED", "RUNNING"}
Advanced(i, s) ==
    [x \in Steps |->
       IF x = s THEN "COMPLETED"
       ELSE IF /\ i[x] = "NOT_ACTIVATED"
               /\ \A y \in After[x] : y = s \/ i[y] = "COMPLETED"
            THEN "ACTIVATED" ELSE i[x]]

Init ==
    /\ inst = [s \in Steps |-> IF After[s] = {} THEN "ACTIVATED" ELSE "NOT_ACTIVATED"]
    /\ tasks = <<>> /\ incidents = {} /\ claims = {} /\ tokens = 0
    /\ req = [t \in Threads |-> Idle]
    /\ done = [s \in Steps |-> 0]
    /\ crashes = 0

(* Bookkeeping of a request: what the thread does next. *)
Goto(t, r) == req' = [req EXCEPT ![t] = r]
Put(k, task) == tasks' = [tasks EXCEPT ![k] = task]

(***************************************************************************)
(* Materialisation, shared by a poll and by a push drive.                  *)
(***************************************************************************)
OpenSteps_OnlyCreated ==
    {tasks[k].step : k \in {j \in DOMAIN tasks : tasks[j].state = "CREATED"}}
OpenSteps == {tasks[k].step : k \in {j \in DOMAIN tasks : tasks[j].state \in OpenStates}}

(* A poll of worker h, or a drive (h = NoWorker): the open tasks are read first. *)
Scan(t, h) ==
    /\ req[t] = Idle
    /\ Goto(t, [pc |-> "scan", holder |-> h, open |-> OpenSteps])
    /\ UNCHANGED <<inst, tasks, incidents, claims, tokens, done, crashes>>

(* ... then the instance; its activated steps without an open task are to be made. *)
Discover(t) ==
    /\ req[t].pc = "scan"
    /\ LET kind == IF req[t].holder = NoWorker THEN Push ELSE Pull
           todo == {s \in kind : inst[s] = "ACTIVATED"} \ req[t].open
       IN Goto(t, [pc |-> "create", holder |-> req[t].holder, todo |-> todo])
    /\ UNCHANGED <<inst, tasks, incidents, claims, tokens, done, crashes>>

CreateTask(t, s) ==
    /\ req[t].pc = "create" /\ s \in req[t].todo /\ Len(tasks) < MaxTasks
    /\ tasks' = Append(tasks, NewTask(s))
    /\ Goto(t, [req[t] EXCEPT !.todo = @ \ {s}])
    /\ UNCHANGED <<inst, incidents, claims, tokens, done, crashes>>

(***************************************************************************)
(* fetch_and_lock: the tasks free to take are listed (as copies), and up   *)
(* to Batch of them written back as locked.                                *)
(***************************************************************************)
Available_NoReclaim(task) == task.state = "CREATED" /\ task.due
Available_AnyLock(task) ==
    (task.state = "CREATED" /\ task.due) \/ (task.state = "LOCKED" /\ task.worker \in Workers)
Available(task) ==
    \/ task.state = "CREATED" /\ task.due
    \/ task.state = "LOCKED" /\ task.window = "over"

(* wanted: the steps whose tasks are of the topics asked for. *)
FetchList(t, wanted) ==
    /\ req[t].pc = "create" /\ req[t].todo = {} /\ req[t].holder \in Workers
    /\ LET found == {k \in DOMAIN tasks : tasks[k].step \in wanted /\ Available(tasks[k])}
       IN Goto(t, IF found = {} THEN Idle
                  ELSE [pc |-> "claim", holder |-> req[t].holder, room |-> Batch,
                        found |-> [k \in found |-> tasks[k]]])
    /\ UNCHANGED <<inst, tasks, incidents, claims, tokens, done, crashes>>

(* Without the task k, the copies a request still holds. *)
Without(found, k) == [j \in DOMAIN found \ {k} |-> found[j]]

Claim(t, k) ==
    /\ req[t].pc = "claim" /\ k \in DOMAIN req[t].found
    /\ Put(k, LockedBy(req[t].found[k], req[t].holder))
    /\ claims' = claims \cup {<<req[t].holder, k>>}
    /\ LET rest == Without(req[t].found, k)
       IN Goto(t, IF req[t].room = 1 \/ DOMAIN rest = {} THEN Idle
                  ELSE [req[t] EXCEPT !.found = rest, !.room = @ - 1])
    /\ UNCHANGED <<inst, incidents, tokens, done, crashes>>

(* An external read for a task fails (502): the poll ends, what it locked stays locked. *)
PrefetchFails(t) ==
    /\ req[t].pc = "claim"
    /\ Goto(t, Idle)
    /\ UNCHANGED <<inst, tasks, incidents, claims, tokens, done, crashes>>

(***************************************************************************)
(* drive_push: every due task of a push step is sent to its endpoint with  *)
(* a fresh token, and only then written back as locked by that token.      *)
(***************************************************************************)
DriveList(t) ==
    /\ req[t].pc = "create" /\ req[t].todo = {} /\ req[t].holder = NoWorker
    /\ LET found == {k \in DOMAIN tasks : /\ tasks[k].step \in Push
                                          /\ tasks[k].state = "CREATED" /\ tasks[k].due}
       IN Goto(t, [pc |-> "post", found |-> [k \in found |-> tasks[k]]])
    /\ UNCHANGED <<inst, tasks, incidents, claims, tokens, done, crashes>>

PostTask(t, k) ==
    /\ req[t].pc = "post" /\ k \in DOMAIN req[t].found /\ tokens < MaxTokens
    /\ tokens' = tokens + 1
    /\ claims' = claims \cup {<<tokens + 1, k>>}
    /\ Goto(t, [pc |-> "mark", found |-> req[t].found, task |-> k, token |-> tokens + 1])
    /\ UNCHANGED <<inst, tasks, incidents, done, crashes>>

(* The external read or the endpoint fails: the task stays CREATED. *)
PostFails(t, k) ==
    /\ req[t].pc = "post" /\ k \in DOMAIN req[t].found
    /\ Goto(t, [req[t] EXCEPT !.found = Without(@, k)])
    /\ UNCHANGED <<inst, tasks, incidents, claims, tokens, done, crashes>>

MarkPushed(t) ==
    /\ req[t].pc = "mark"
    /\ Put(req[t].task, LockedBy(req[t].found[req[t].task], req[t].token))
    /\ Goto(t, [pc |-> "post", found |-> Without(req[t].found, req[t].task)])
    /\ UNCHANGED <<inst, incidents, claims, tokens, done, crashes>>

DriveEnds(t) ==
    /\ req[t].pc = "post" /\ DOMAIN req[t].found = {}
    /\ Goto(t, Idle)
    /\ UNCHANGED <<inst, tasks, incidents, claims, tokens, done, crashes>>

(***************************************************************************)
(* Reports.  _require_locked reads the task and accepts the report of the  *)
(* holder of an unexpired lock; the report then writes that copy back.     *)
(***************************************************************************)
HoldsLock(h, task) == task.state = "LOCKED" /\ task.worker = h /\ task.window # "over"

Report(t, h, k) ==
    /\ req[t] = Idle /\ HoldsLock(h, tasks[k])
    /\ Goto(t, [pc |-> "report", holder |-> h, task |-> k, copy |-> tasks[k]])
    /\ UNCHANGED <<inst, tasks, incidents, claims, tokens, done, crashes>>

GiveBack(t) == claims' = claims \ {<<req[t].holder, req[t].task>>}

Unlock(t) ==
    /\ req[t].pc = "report"
    /\ Put(req[t].task, Requeued(req[t].copy, req[t].copy.left, TRUE))
    /\ GiveBack(t) /\ Goto(t, Idle)
    /\ UNCHANGED <<inst, incidents, tokens, done, crashes>>

ExtendLock(t) ==
    /\ req[t].pc = "report"
    /\ Put(req[t].task, [req[t].copy EXCEPT !.window = "open"])
    /\ claims' = claims \cup {<<req[t].holder, req[t].task>>}
    /\ Goto(t, Idle)
    /\ UNCHANGED <<inst, incidents, tokens, done, crashes>>

BpmnError(t) ==
    /\ req[t].pc = "report"
    /\ Put(req[t].task, Parked(req[t].copy, "BPMN_ERROR", req[t].copy.left))
    /\ GiveBack(t) /\ Goto(t, Idle)
    /\ UNCHANGED <<inst, incidents, tokens, done, crashes>>

(* failure(): one retry less, or the number the worker asks for, whatever  *)
(* the task had left; then a back-off.                                     *)
Remaining(task) == {IF task.left < 1 THEN 0 ELSE task.left - 1} \cup Asked
Failure(t) ==
    /\ req[t].pc = "report"
    /\ GiveBack(t)
    /\ \E left \in Remaining(req[t].copy) :
         IF left > 0
         THEN /\ \E due \in BOOLEAN : Put(req[t].task, Requeued(req[t].copy, left, due))
              /\ Goto(t, Idle)
         ELSE /\ Put(req[t].task, Parked(req[t].copy, "INCIDENT", 0))
              /\ Goto(t, [pc |-> "incident", task |-> req[t].task])
    /\ UNCHANGED <<inst, incidents, tokens, done, crashes>>

PutIncident(t) ==
    /\ req[t].pc = "incident"
    /\ incidents' = incidents \cup {req[t].task}
    /\ Goto(t, Idle)
    /\ UNCHANGED <<inst, tasks, claims, tokens, done, crashes>>

(***************************************************************************)
(* complete: the instance is read, external writes are flushed, the engine *)
(* advances the copy (and stores it), the copy is stored once more, and at *)
(* last the task is closed.                                                *)
(***************************************************************************)
ReadInstance_ClosesFirst(t) ==
    /\ req[t].pc = "report"
    /\ Put(req[t].task, Closed(req[t].copy))
    /\ Goto(t, [pc |-> "flush", holder |-> req[t].holder, task |-> req[t].task,
                copy |-> req[t].copy, inst |-> inst])
    /\ UNCHANGED <<inst, incidents, claims, tokens, done, crashes>>
ReadInstance(t) ==
    /\ req[t].pc = "report"
    /\ Goto(t, [pc |-> "flush", holder |-> req[t].holder, task |-> req[t].task,
                copy |-> req[t].copy, inst |-> inst])
    /\ UNCHANGED <<inst, tasks, incidents, claims, tokens, done, crashes>>

(* Outputs are refused (422) or an external write fails (502). *)
FlushFails(t) ==
    /\ req[t].pc = "flush"
    /\ Goto(t, Idle)
    /\ UNCHANGED <<inst, tasks, incidents, claims, tokens, done, crashes>>

AdvanceInstance(t) ==
    /\ req[t].pc = "flush"
    /\ LET s == req[t].copy.step
           after == Advanced(req[t].inst, s)
       IN IF Completable(req[t].inst, s)
          THEN /\ inst' = after
               /\ done' = [done EXCEPT ![s] = @ + 1]
               /\ Goto(t, [req[t] EXCEPT !.pc = "again", !.inst = after])
          ELSE Goto(t, Idle) /\ UNCHANGED <<inst, done>>
    /\ UNCHANGED <<tasks, incidents, claims, tokens, crashes>>

PutAgain(t) ==
    /\ req[t].pc = "again"
    /\ inst' = req[t].inst
    /\ Goto(t, [req[t] EXCEPT !.pc = "close"])
    /\ UNCHANGED <<tasks, incidents, claims, tokens, done, crashes>>

CloseTask(t) ==
    /\ req[t].pc = "close"
    /\ Put(req[t].task, Closed(req[t].copy))
    /\ GiveBack(t) /\ Goto(t, Idle)
    /\ UNCHANGED <<inst, incidents, tokens, done, crashes>>

(***************************************************************************)
(* An operator resolves an incident, which may have been resolved before:  *)
(* its task, if it is parked, is queued again; then the incident is marked *)
(* as resolved, a flag that is only displayed.                             *)
(***************************************************************************)
ResolveIncident(t, k) ==
    /\ req[t] = Idle /\ k \in incidents
    /\ Goto(t, [pc |-> "resolve", task |-> k, copy |-> tasks[k]])
    /\ UNCHANGED <<inst, tasks, incidents, claims, tokens, done, crashes>>

RequeueTask(t) ==
    /\ req[t].pc = "resolve"
    /\ IF req[t].copy.state = "INCIDENT"
       THEN Put(req[t].task, Requeued(req[t].copy, Budget, TRUE))
       ELSE UNCHANGED tasks
    /\ Goto(t, [pc |-> "resolved", task |-> req[t].task])
    /\ UNCHANGED <<inst, incidents, claims, tokens, done, crashes>>

MarkResolved(t) ==
    /\ req[t].pc = "resolved"
    /\ Goto(t, Idle)
    /\ UNCHANGED <<inst, tasks, incidents, claims, tokens, done, crashes>>

(***************************************************************************)
(* The interactive interface: nothing keeps a user from starting or        *)
(* completing an automatic step.                                           *)
(***************************************************************************)
UserReads(t, s) ==
    /\ req[t] = Idle /\ Completable(inst, s)
    /\ Goto(t, [pc |-> "user", step |-> s, inst |-> inst])
    /\ UNCHANGED <<inst, tasks, incidents, claims, tokens, done, crashes>>

UserStarts(t) ==
    /\ req[t].pc = "user" /\ req[t].inst[req[t].step] = "ACTIVATED"
    /\ inst' = [req[t].inst EXCEPT ![req[t].step] = "RUNNING"]
    /\ Goto(t, Idle)
    /\ UNCHANGED <<tasks, incidents, claims, tokens, done, crashes>>

UserCompletes(t) ==
    /\ req[t].pc = "user"
    /\ LET s == req[t].step
           after == Advanced(req[t].inst, s)
       IN /\ inst' = after
          /\ done' = [done EXCEPT ![s] = @ + 1]
          /\ Goto(t, [pc |-> "userAgain", inst |-> after])
    /\ UNCHANGED <<tasks, incidents, claims, tokens, crashes>>

UserPutsAgain(t) ==
    /\ req[t].pc = "userAgain"
    /\ inst' = req[t].inst
    /\ Goto(t, Idle)
    /\ UNCHANGED <<tasks, incidents, claims, tokens, done, crashes>>

(***************************************************************************)
(* Time and failure.                                                       *)
(***************************************************************************)
(* The window of a claim ends; a token has one only once it was extended. *)
Expire(h, k) ==
    /\ <<h, k>> \in claims
    /\ h \in Workers \/ (tasks[k].worker = h /\ tasks[k].window = "open")
    /\ claims' = claims \ {<<h, k>>}
    /\ IF tasks[k].state = "LOCKED" /\ tasks[k].worker = h
       THEN Put(k, [tasks[k] EXCEPT !.window = "over"])
       ELSE UNCHANGED tasks
    /\ UNCHANGED <<inst, incidents, req, tokens, done, crashes>>

(* The back-off of a failed task is over. *)
BackoffEnds(k) ==
    /\ ~tasks[k].due
    /\ Put(k, [tasks[k] EXCEPT !.due = TRUE])
    /\ UNCHANGED <<inst, incidents, req, claims, tokens, done, crashes>>

(* The server stops and starts: the stores stay, the requests are gone. *)
Crash ==
    /\ crashes < MaxCrashes /\ \E t \in Threads : req[t] # Idle
    /\ crashes' = crashes + 1
    /\ req' = [t \in Threads |-> Idle]
    /\ UNCHANGED <<inst, tasks, incidents, claims, tokens, done>>

(* The tasks of push steps have the topic "", which a poll may ask for too. *)
Fetching(t) ==
    \/ \E w \in Workers : Scan(t, w)
    \/ \E wanted \in SUBSET Pull, untitled \in {{}, Push} : FetchList(t, wanted \cup untitled)
    \/ \E k \in DOMAIN tasks : Claim(t, k)
    \/ PrefetchFails(t)
Pushing(t) ==
    \/ Scan(t, NoWorker)
    \/ DriveList(t)
    \/ \E k \in DOMAIN tasks : PostTask(t, k) \/ PostFails(t, k)
    \/ MarkPushed(t) \/ DriveEnds(t)
Materialising(t) == Discover(t) \/ \E s \in Steps : CreateTask(t, s)
Reporting(t) ==
    \/ \E h \in Holders, k \in DOMAIN tasks : Report(t, h, k)
    \/ Unlock(t) \/ ExtendLock(t) \/ BpmnError(t) \/ Failure(t) \/ PutIncident(t)
    \/ ReadInstance(t) \/ FlushFails(t) \/ AdvanceInstance(t) \/ PutAgain(t) \/ CloseTask(t)
Resolving(t) ==
    \/ \E k \in DOMAIN tasks : ResolveIncident(t, k)
    \/ RequeueTask(t) \/ MarkResolved(t)
Interacting(t) ==
    \/ \E s \in Steps : UserReads(t, s)
    \/ UserStarts(t) \/ UserCompletes(t) \/ UserPutsAgain(t)

Next ==
    \/ \E t \in Threads : \/ Materialising(t) \/ Fetching(t) \/ Pushing(t)
                          \/ Reporting(t) \/ Resolving(t) \/ Interacting(t)
    \/ \E h \in Holders, k \in DOMAIN tasks : Expire(h, k)
    \/ \E k \in DOMAIN tasks : BackoffEnds(k)
    \/ Crash

Spec == Init /\ [][Next]_vars

(***************************************************************************)
(* Fairness.  The server finishes the requests it has begun and clocks run *)
(* on; workers poll for ever for all topics, and again and again a worker  *)
(* reports success while it holds the lock of a step, the external systems *)
(* answering.  Nothing is assumed of crashes, failures, users or operators.*)
(***************************************************************************)
Finishing(t) ==
    \/ Materialising(t) \/ DriveList(t) \/ MarkPushed(t) \/ DriveEnds(t)
    \/ FetchList(t, Pull) \/ PrefetchFails(t) \/ FlushFails(t) \/ PutIncident(t)
    \/ \E k \in DOMAIN tasks : PostFails(t, k)
    \/ Unlock(t) \/ PutAgain(t) \/ CloseTask(t) \/ RequeueTask(t) \/ MarkResolved(t)
    \/ UserCompletes(t) \/ UserPutsAgain(t)
On(s, k) == tasks[k].step = s
Polling(t) == \E w \in Workers : Scan(t, w)
ClaimFor(t, s) == \E k \in DOMAIN tasks : On(s, k) /\ Claim(t, k)
ReportFor(t, s) == \E w \in Workers, k \in DOMAIN tasks : On(s, k) /\ Report(t, w, k)
ReadFor(t, s) == req[t].pc = "report" /\ On(s, req[t].task) /\ ReadInstance(t)
AdvanceFor(t, s) == req[t].pc = "flush" /\ On(s, req[t].task) /\ AdvanceInstance(t)
Fairness ==
    /\ \A t \in Threads : WF_vars(Finishing(t)) /\ SF_vars(FetchList(t, Pull))
    /\ SF_vars(\E t \in Threads : Polling(t))
    /\ \A k \in 1..MaxTasks :
         /\ WF_vars(k \in DOMAIN tasks /\ BackoffEnds(k))
         /\ WF_vars(k \in DOMAIN tasks /\ \E w \in Workers : Expire(w, k))
    /\ \A s \in Pull : /\ SF_vars(\E t \in Threads : ClaimFor(t, s))
                       /\ SF_vars(\E t \in Threads : ReportFor(t, s))
                       /\ SF_vars(\E t \in Threads : ReadFor(t, s))
                       /\ SF_vars(\E t \in Threads : AdvanceFor(t, s))
FairSpec == Spec /\ Fairness

(***************************************************************************)
(* Properties.                                                             *)
(***************************************************************************)
(* The stores are well typed and the fields of every task fit its state,   *)
(* although each request writes back the copy it once read (ExternalTask). *)
TypeOK ==
    /\ inst \in [Steps -> StepStates]
    /\ tasks \in Seq(Task)
    /\ incidents \subseteq DOMAIN tasks
    /\ DOMAIN req = Threads
    /\ claims \subseteq Holders \X DOMAIN tasks
    /\ tokens \in 0..MaxTokens /\ crashes \in 0..MaxCrashes
    /\ done \in [Steps -> Nat]

(* Materialisation is idempotent: however polls, drives, users and crashes *)
(* are ordered, a step never has two open tasks (_materialise).            *)
OneOpenTask ==
    \A j, k \in DOMAIN tasks :
      j # k /\ tasks[j].state \in OpenStates /\ tasks[k].state \in OpenStates
        => tasks[j].step # tasks[k].step

(* A step is advanced at most once, although reports are retried after a   *)
(* crash, after a lost lock, or race a user (complete, complete_activity). *)
AdvancedOnce == \A s \in Steps : done[s] <= 1

(* No two workers hold open windows on one task (fetch_and_lock). *)
ExclusiveClaim ==
    \A v, w \in Workers, k \in DOMAIN tasks :
      <<v, k>> \in claims /\ <<w, k>> \in claims => v = w

(* A task is closed only when its step's completion is stored, at whatever *)
(* point the server stops (the order of the stores in complete).           *)
ClosedMeansDone ==
    \A k \in DOMAIN tasks :
      tasks[k].state = "COMPLETED" => inst[tasks[k].step] = "COMPLETED"

(* A step activated for the workers is at last completed, taken over by a  *)
(* user, or parked for an operator; no lost worker, crash or failed call   *)
(* makes the queue forget it (fetch_and_lock reclaims expired locks).      *)
Served ==
    \A s \in Pull :
      inst[s] = "ACTIVATED"
        ~> \/ inst[s] # "ACTIVATED"
           \/ \E k \in DOMAIN tasks : On(s, k) /\ tasks[k].state \in {"INCIDENT", "BPMN_ERROR"}
====
