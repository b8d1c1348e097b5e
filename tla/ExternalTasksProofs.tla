------------------------- MODULE ExternalTasksProofs -------------------------
(***************************************************************************)
(* Theorems about the work queue, for any number of steps, workers and     *)
(* tasks, any retries, and crashes between any two accesses to a store.    *)
(***************************************************************************)
EXTENDS ExternalTasks, TLAPS

-----------------------------------------------------------------------------
(* What a request carries between two accesses.                            *)

Polled == Workers \cup {NoWorker}
Copies == UNION {[ks -> Task] : ks \in SUBSET DOMAIN tasks}
Instances == [Steps -> StepStates]
PCs == {"idle", "scan", "create", "claim", "post", "mark", "report", "flush", "again",
        "close", "incident", "resolve", "resolved", "user", "userAgain"}

RequestOK(r) ==
  /\ r.pc \in PCs
  /\ r.pc = "idle" => r = Idle
  /\ r.pc = "scan" => r \in [pc : {"scan"}, holder : Polled, open : SUBSET Steps]
  /\ r.pc = "create" => r \in [pc : {"create"}, holder : Polled, todo : SUBSET Steps]
  /\ r.pc = "claim" => r \in [pc : {"claim"}, holder : Workers, room : Nat \ {0}, found : Copies]
  /\ r.pc = "post" => r \in [pc : {"post"}, found : Copies]
  /\ r.pc = "mark" =>
       /\ r \in [pc : {"mark"}, found : Copies, task : DOMAIN tasks, token : 1 .. tokens]
       /\ r.task \in DOMAIN r.found
  /\ r.pc = "report" =>
       /\ r \in [pc : {"report"}, holder : Holders, task : DOMAIN tasks, copy : Task]
       /\ r.copy.state = "LOCKED"
  /\ r.pc \in {"flush", "again", "close"} =>
       r \in [pc : {"flush", "again", "close"}, holder : Holders, task : DOMAIN tasks,
              copy : Task, inst : Instances]
  /\ r.pc \in {"incident", "resolved"} =>
       r \in [pc : {"incident", "resolved"}, task : DOMAIN tasks]
  /\ r.pc = "resolve" => r \in [pc : {"resolve"}, task : DOMAIN tasks, copy : Task]
  /\ r.pc = "user" => r \in [pc : {"user"}, step : Steps, inst : Instances]
  /\ r.pc = "userAgain" => r \in [pc : {"userAgain"}, inst : Instances]

TInv == TypeOK /\ \A t \in Threads : RequestOK(req[t])

(* The tasks and tokens a request knows of stay.                           *)
LEMMA RequestStays ==
  ASSUME TInv, TypeOK', DOMAIN tasks \subseteq DOMAIN tasks', tokens <= tokens'
  PROVE  \A r : RequestOK(r) => RequestOK(r)'
<1> SUFFICES ASSUME NEW r, RequestOK(r) PROVE RequestOK(r)'
  OBVIOUS
<1>1. /\ Copies \subseteq Copies' /\ Holders \subseteq Holders' 
      /\ 1 .. tokens \subseteq 1 .. tokens'
  BY DEF Copies, Holders, TInv, TypeOK
<1>2. QED
  BY <1>1 DEF RequestOK, Instances, Polled

(* A step of thread t with a request that fits the stores it leaves.       *)
LEMMA StepOK ==
  ASSUME TInv, NEW t \in Threads, NEW r, Goto(t, r), RequestOK(r)', TypeOK',
         DOMAIN tasks \subseteq DOMAIN tasks', tokens <= tokens'
  PROVE  TInv'
<1>1. \A u \in Threads : RequestOK(req[u])'
  <2>1. ASSUME NEW u \in Threads PROVE RequestOK(req[u])'
    <3>1. CASE u = t
      <4>1. req'[u] = r
        BY <3>1 DEF Goto, TInv, TypeOK
      <4>2. QED BY <4>1 DEF RequestOK
    <3>2. CASE u # t
      <4>1. req'[u] = req[u] /\ RequestOK(req[u])
        BY <3>2 DEF Goto, TInv, TypeOK
      <4>2. PICK s : s = req[u] 
        OBVIOUS
      <4>3. RequestOK(s)'
        BY <4>1, <4>2, RequestStays
      <4>4. QED BY <4>1, <4>2, <4>3 DEF RequestOK
    <3>3. QED BY <3>1, <3>2
  <2>2. QED BY <2>1
<1>2. QED BY <1>1 DEF TInv

(* ... that leaves the stores alone.                                       *)
LEMMA OnlyRequest ==
  ASSUME TInv, NEW t \in Threads, NEW r, RequestOK(r), Goto(t, r),
         UNCHANGED <<inst, tasks, incidents, claims, tokens, done, crashes>>
  PROVE  TInv'
<1>1. TypeOK'
  BY DEF TInv, TypeOK, Holders, Goto
<1>2. RequestOK(r)'
  BY <1>1, RequestStays DEF TInv, TypeOK
<1>3. DOMAIN tasks \subseteq DOMAIN tasks' /\ tokens <= tokens'
  BY DEF TInv, TypeOK
<1>4. QED BY <1>1, <1>2, <1>3, StepOK

(* ... that writes one task.                                               *)
LEMMA OnlyTask ==
  ASSUME TInv, NEW t \in Threads, NEW r, RequestOK(r), Goto(t, r),
         NEW k \in DOMAIN tasks, NEW x \in Task, Put(k, x),
         claims' \subseteq Holders \X DOMAIN tasks,
         UNCHANGED <<inst, incidents, tokens, done, crashes>>
  PROVE  TInv'
<1>1. tasks' \in Seq(Task) /\ DOMAIN tasks' = DOMAIN tasks
  BY DEF TInv, TypeOK, Put
<1>2. TypeOK'
  BY <1>1 DEF TInv, TypeOK, Holders, Goto
<1>3. RequestOK(r)'
  BY <1>1, <1>2, RequestStays DEF TInv, TypeOK
<1>4. DOMAIN tasks \subseteq DOMAIN tasks' /\ tokens <= tokens'
  BY <1>1 DEF TInv, TypeOK
<1>5. QED BY <1>2, <1>3, <1>4, StepOK

(* ... that writes the instance.                                           *)
LEMMA OnlyInstance ==
  ASSUME TInv, NEW t \in Threads, NEW r, RequestOK(r), Goto(t, r),
         inst' \in Instances, done' \in [Steps -> Nat],
         UNCHANGED <<tasks, incidents, claims, tokens, crashes>>
  PROVE  TInv'
<1>1. TypeOK'
  BY DEF TInv, TypeOK, Holders, Goto, Instances
<1>2. RequestOK(r)'
  BY <1>1, RequestStays DEF TInv, TypeOK
<1>3. DOMAIN tasks \subseteq DOMAIN tasks' /\ tokens <= tokens'
  BY DEF TInv, TypeOK
<1>4. QED BY <1>1, <1>2, <1>3, StepOK

(* A step of no thread: the requests stay as they are.                     *)
LEMMA StoresChange ==
  ASSUME TInv, TypeOK', DOMAIN tasks \subseteq DOMAIN tasks', tokens <= tokens', req' = req
  PROVE  TInv'
<1>1. ASSUME NEW t \in Threads PROVE RequestOK(req[t])'
  <2>1. PICK s : s = req[t]
    OBVIOUS
  <2>2. RequestOK(s)'
    BY <2>1, RequestStays DEF TInv
  <2>3. QED BY <2>1, <2>2 DEF RequestOK
<1>2. QED BY <1>1 DEF TInv


-----------------------------------------------------------------------------
(* Every access keeps the types: what it stores and what it goes on with.  *)

LEMMA TaskAt ==
  ASSUME TInv, NEW k \in DOMAIN tasks
  PROVE  tasks[k] \in Task
BY DEF TInv, TypeOK

LEMMA CopyAt ==
  ASSUME NEW found \in Copies
  PROVE  /\ DOMAIN found \subseteq DOMAIN tasks
         /\ found = [k \in DOMAIN found |-> found[k]]
         /\ \A k \in DOMAIN found : found[k] \in Task
BY DEF Copies

LEMMA ScanTyped ==
  ASSUME TInv, NEW t \in Threads, NEW h \in Polled, Scan(t, h)
  PROVE  TInv'
<1>1. OpenSteps \subseteq Steps
  <2>1. ASSUME NEW k \in DOMAIN tasks PROVE tasks[k].step \in Steps
    BY TaskAt DEF Task, Fields, Fitting
  <2>2. QED BY <2>1 DEF OpenSteps
<1>2. RequestOK([pc |-> "scan", holder |-> h, open |-> OpenSteps])
  BY <1>1 DEF RequestOK, PCs
<1>3. QED BY <1>2, OnlyRequest DEF Scan

LEMMA DiscoverTyped ==
  ASSUME TInv, NEW t \in Threads, Discover(t)
  PROVE  TInv'
<1> DEFINE kind == IF req[t].holder = NoWorker THEN Push ELSE Pull
           r == [pc |-> "create", holder |-> req[t].holder,
                 todo |-> {s \in kind : inst[s] = "ACTIVATED"} \ req[t].open]
<1>1. req[t].holder \in Polled
  BY DEF Discover, TInv, RequestOK
<1>2. RequestOK(r)
  BY <1>1 DEF RequestOK, PCs, Steps
<1>3. QED BY <1>2, OnlyRequest DEF Discover

LEMMA CreateTaskTyped ==
  ASSUME TInv, NEW t \in Threads, NEW s \in Steps, CreateTask(t, s)
  PROVE  TInv'
<1> PICK r : r = [req[t] EXCEPT !.todo = @ \ {s}]
  OBVIOUS
<1>1. NewTask(s) \in Task
  BY ExternalTasksAssumption DEF NewTask, Task, Fields, Fitting, TaskStates, Budget
<1>2. /\ tasks' \in Seq(Task)
      /\ DOMAIN tasks \subseteq DOMAIN tasks'
  BY <1>1 DEF CreateTask, TInv, TypeOK
<1>3. TypeOK'
  BY <1>2 DEF TInv, TypeOK, CreateTask, Goto, Holders
<1>4. RequestOK(r)
  BY DEF TInv, CreateTask, RequestOK, PCs
<1>5. tokens <= tokens' /\ Goto(t, r)
  BY DEF CreateTask, TInv, TypeOK
<1>6. RequestOK(r)'
  BY <1>2, <1>3, <1>4, <1>5, RequestStays
<1>7. QED BY <1>2, <1>3, <1>5, <1>6, StepOK

(* What is listed are copies of tasks.                                     *)
LEMMA CopiesTyped ==
  ASSUME TInv, NEW found \in SUBSET DOMAIN tasks
  PROVE  [k \in found |-> tasks[k]] \in Copies
BY DEF TInv, TypeOK, Copies

LEMMA WithoutTyped ==
  ASSUME NEW found \in Copies, NEW k
  PROVE  Without(found, k) \in Copies
<1>1. Without(found, k) \in [DOMAIN found \ {k} -> Task]
  BY CopyAt DEF Without
<1>2. QED BY <1>1, CopyAt DEF Copies

LEMMA LockTyped ==
  ASSUME TInv, NEW task \in Task, NEW h \in Holders
  PROVE  LockedBy(task, h) \in Task
<1>1. h \in Workers \cup Nat /\ h # NoWorker
  BY ExternalTasksAssumption DEF Holders, TInv, TypeOK
<1>2. QED BY <1>1 DEF LockedBy, Task, Fields, Fitting, TaskStates

(* A request that is over.                                                 *)
LEMMA IdleTyped == RequestOK(Idle)
BY DEF RequestOK, PCs, Idle

LEMMA FetchTyped ==
  ASSUME TInv, NEW t \in Threads, NEW wanted, FetchList(t, wanted)
  PROVE  TInv'
<1> DEFINE found == {k \in DOMAIN tasks : tasks[k].step \in wanted /\ Available(tasks[k])}
           r == [pc |-> "claim", holder |-> req[t].holder, room |-> Batch,
                 found |-> [k \in found |-> tasks[k]]]
<1>1. RequestOK(Idle)
  BY DEF RequestOK, PCs, Idle
<1>2. RequestOK(r)
  BY CopiesTyped, ExternalTasksAssumption DEF FetchList, RequestOK, PCs
<1>3. QED BY <1>1, <1>2, OnlyRequest DEF FetchList

LEMMA ClaimTyped ==
  ASSUME TInv, NEW t \in Threads, NEW k \in DOMAIN tasks, Claim(t, k)
  PROVE  TInv'
<1> DEFINE rest == Without(req[t].found, k)
           r == [req[t] EXCEPT !.found = rest, !.room = @ - 1]
<1>1. /\ req[t] \in [pc : {"claim"}, holder : Workers, room : Nat \ {0}, found : Copies]
      /\ req[t].found[k] \in Task /\ req[t].holder \in Holders
  BY DEF Claim, TInv, RequestOK, Copies, Holders
<1>2. rest \in Copies
  BY <1>1, WithoutTyped
<1>3. ASSUME req[t].room # 1 PROVE RequestOK(r)
  <2>1. req[t].room - 1 \in Nat \ {0}
    BY <1>1, <1>3
  <2>2. r \in [pc : {"claim"}, holder : Workers, room : Nat \ {0}, found : Copies]
    BY <1>1, <1>2, <2>1
  <2>3. QED BY <2>2 DEF RequestOK, PCs
<1>4. LockedBy(req[t].found[k], req[t].holder) \in Task
  BY <1>1, LockTyped
<1>5. claims' \subseteq Holders \X DOMAIN tasks
  BY <1>1 DEF Claim, TInv, TypeOK
<1>6. QED BY <1>3, <1>4, <1>5, IdleTyped, OnlyTask DEF Claim

LEMMA DriveTyped ==
  ASSUME TInv, NEW t \in Threads, DriveList(t)
  PROVE  TInv'
<1> DEFINE found == {k \in DOMAIN tasks : /\ tasks[k].step \in Push
                                          /\ tasks[k].state = "CREATED" /\ tasks[k].due}
           r == [pc |-> "post", found |-> [k \in found |-> tasks[k]]]
<1>1. RequestOK(r)
  BY CopiesTyped DEF RequestOK, PCs
<1>2. QED BY <1>1, OnlyRequest DEF DriveList

LEMMA PostTyped ==
  ASSUME TInv, NEW t \in Threads, NEW k \in DOMAIN tasks, PostTask(t, k)
  PROVE  TInv'
<1> PICK r : r = [pc |-> "mark", found |-> req[t].found, task |-> k, token |-> tokens + 1]
  OBVIOUS
<1>1. tokens \in Nat /\ tokens' = tokens + 1 /\ tasks' = tasks /\ Goto(t, r)
  BY DEF PostTask, TInv, TypeOK
<1>2. req[t].found \in Copies /\ k \in DOMAIN req[t].found
  BY DEF PostTask, TInv, RequestOK
<1>3. TypeOK'
  <2>1. Holders \subseteq Holders' /\ tokens + 1 \in Holders'
    BY <1>1 DEF Holders
  <2>2. claims' \subseteq Holders' \X DOMAIN tasks'
    BY <1>1, <2>1 DEF PostTask, TInv, TypeOK
  <2>3. tokens' \in 0 .. MaxTokens
    BY ExternalTasksAssumption DEF PostTask, TInv, TypeOK
  <2>4. QED BY <2>2, <2>3 DEF TInv, TypeOK, PostTask, Goto
<1>4. RequestOK(r)'
  BY <1>1, <1>2 DEF RequestOK, PCs, Copies
<1>5. QED BY <1>1, <1>3, <1>4, StepOK

LEMMA PostFailsTyped ==
  ASSUME TInv, NEW t \in Threads, NEW k, PostFails(t, k)
  PROVE  TInv'
<1>1. req[t] \in [pc : {"post"}, found : Copies]
  BY DEF PostFails, TInv, RequestOK
<1>2. RequestOK([req[t] EXCEPT !.found = Without(@, k)])
  BY <1>1, WithoutTyped DEF RequestOK, PCs
<1>3. QED BY <1>2, OnlyRequest DEF PostFails

LEMMA MarkTyped ==
  ASSUME TInv, NEW t \in Threads, MarkPushed(t)
  PROVE  TInv'
<1> DEFINE r == [pc |-> "post", found |-> Without(req[t].found, req[t].task)]
<1>1. /\ req[t].found \in Copies /\ req[t].task \in DOMAIN tasks
      /\ req[t].found[req[t].task] \in Task /\ req[t].token \in Holders
  BY CopyAt DEF MarkPushed, TInv, RequestOK, Holders
<1>2. RequestOK(r)
  BY <1>1, WithoutTyped DEF RequestOK, PCs
<1>3. LockedBy(req[t].found[req[t].task], req[t].token) \in Task
  BY <1>1, LockTyped
<1>4. claims' \subseteq Holders \X DOMAIN tasks
  BY DEF MarkPushed, TInv, TypeOK
<1>5. QED BY <1>1, <1>2, <1>3, <1>4, OnlyTask DEF MarkPushed

(* A request that ends without having written anything.                    *)
LEMMA EndTyped ==
  ASSUME TInv, NEW t \in Threads, PrefetchFails(t) \/ DriveEnds(t) \/ FlushFails(t)
  PROVE  TInv'
BY IdleTyped, OnlyRequest DEF PrefetchFails, DriveEnds, FlushFails

-----------------------------------------------------------------------------
LEMMA ReportTyped ==
  ASSUME TInv, NEW t \in Threads, NEW h \in Holders, NEW k \in DOMAIN tasks, Report(t, h, k)
  PROVE  TInv'
<1>1. RequestOK([pc |-> "report", holder |-> h, task |-> k, copy |-> tasks[k]])
  BY TaskAt DEF RequestOK, PCs, Report, HoldsLock
<1>2. QED BY <1>1, OnlyRequest DEF Report

(* A report that writes its task and ends, or goes on to its incident.     *)
LEMMA WritesTyped ==
  ASSUME TInv, NEW t \in Threads, req[t].pc \in {"report", "close", "resolve"},
         NEW r, RequestOK(r), Goto(t, r), NEW x \in Task, Put(req[t].task, x),
         claims' = claims \/ GiveBack(t) \/ (ExtendLock(t) /\ req[t].pc = "report"),
         UNCHANGED <<inst, incidents, tokens, done, crashes>>
  PROVE  TInv'
<1>1. req[t].task \in DOMAIN tasks
  BY DEF TInv, RequestOK
<1>2. ExtendLock(t) /\ req[t].pc = "report" => <<req[t].holder, req[t].task>> \in Holders \X DOMAIN tasks
  BY <1>1 DEF TInv, RequestOK
<1>3. claims' \subseteq Holders \X DOMAIN tasks
  BY <1>2 DEF TInv, TypeOK, GiveBack, ExtendLock
<1>4. QED BY <1>1, <1>3, OnlyTask

LEMMA ParkTyped ==
  ASSUME NEW task \in Task, NEW state \in {"BPMN_ERROR", "INCIDENT"}, NEW left \in Int,
         state = "INCIDENT" => left = 0
  PROVE  Parked(task, state, left) \in Task
BY ExternalTasksAssumption DEF Parked, Task, Fields, Fitting, TaskStates

(* A worker may ask for any number of retries.                             *)
LEMMA RemainingTyped ==
  ASSUME NEW task \in Task
  PROVE  Remaining(task) \subseteq Int
<1>1. task.left \in Int
  BY DEF Task, Fields
<1>2. Asked \subseteq Int
  BY ExternalTasksAssumption
<1>3. {IF task.left < 1 THEN 0 ELSE task.left - 1} \subseteq Int
  BY <1>1
<1>4. QED BY <1>2, <1>3, Zenon DEF Remaining

LEMMA ReportWritesTyped ==
  ASSUME TInv, NEW t \in Threads,
         Unlock(t) \/ ExtendLock(t) \/ BpmnError(t) \/ Failure(t) \/ CloseTask(t)
  PROVE  TInv'
<1> DEFINE copy == req[t].copy
<1>1. /\ req[t].pc \in {"report", "close"} /\ copy \in Task /\ req[t].task \in DOMAIN tasks
  BY DEF TInv, RequestOK, Unlock, ExtendLock, BpmnError, Failure, CloseTask
<1>2. copy \in Fields /\ copy.left \in Int
  BY <1>1 DEF Task, Fields
<1>3. ASSUME NEW left \in Int, NEW due \in BOOLEAN
      PROVE  Requeued(copy, left, due) \in Task
  BY <1>2, ExternalTasksAssumption DEF Requeued, Task, Fields, Fitting, TaskStates
<1>4. /\ Parked(copy, "BPMN_ERROR", copy.left) \in Task
      /\ Parked(copy, "INCIDENT", 0) \in Task
  <2>1. 0 \in Int
    OBVIOUS
  <2> HIDE DEF copy
  <2>2. Parked(copy, "BPMN_ERROR", copy.left) \in Task
    BY <1>1, <1>2, ParkTyped
  <2>3. Parked(copy, "INCIDENT", 0) \in Task
    BY <1>1, <2>1, ParkTyped
  <2>4. QED BY <2>2, <2>3
<1>5. /\ Closed(copy) \in Task
      /\ copy.state = "LOCKED" => [copy EXCEPT !.window = "open"] \in Task
  BY <1>1, <1>2 DEF Closed, Task, Fields, Fitting, TaskStates
<1>6. CASE Unlock(t)
  BY <1>1, <1>2, <1>3, <1>6, IdleTyped, WritesTyped DEF Unlock
<1>7. CASE ExtendLock(t)
  <2>1. Put(req[t].task, [copy EXCEPT !.window = "open"]) /\ Goto(t, Idle) /\ req[t].pc = "report"
        /\ copy.state = "LOCKED" /\ UNCHANGED <<inst, incidents, tokens, done, crashes>>
    BY <1>7 DEF ExtendLock, TInv, RequestOK
  <2>2. QED BY <1>5, <1>7, <2>1, IdleTyped, WritesTyped
<1>8. CASE BpmnError(t)
  BY <1>1, <1>2, <1>4, <1>8, IdleTyped, WritesTyped DEF BpmnError
<1>9. CASE Failure(t)
  <2>1. RequestOK([pc |-> "incident", task |-> req[t].task])
    BY <1>1 DEF RequestOK, PCs
  <2>2. PICK left \in Remaining(copy) :
          IF left > 0
          THEN /\ \E due \in BOOLEAN : Put(req[t].task, Requeued(copy, left, due))
               /\ Goto(t, Idle)
          ELSE /\ Put(req[t].task, Parked(copy, "INCIDENT", 0))
               /\ Goto(t, [pc |-> "incident", task |-> req[t].task])
    BY <1>9 DEF Failure
  <2>3. left \in Int
    BY <1>1, <2>2, RemainingTyped
  <2>4. req[t].pc = "report" /\ GiveBack(t) /\ UNCHANGED <<inst, incidents, tokens, done, crashes>>
    BY <1>9 DEF Failure
  <2>5. CASE left > 0
    BY <1>3, <2>2, <2>3, <2>4, <2>5, IdleTyped, WritesTyped
  <2>6. CASE ~(left > 0)
    BY <1>4, <2>1, <2>2, <2>4, <2>6, WritesTyped
  <2>7. QED BY <2>5, <2>6
<1>10. CASE CloseTask(t)
  BY <1>5, <1>10, IdleTyped, WritesTyped DEF CloseTask
<1>11. QED BY <1>6, <1>7, <1>8, <1>9, <1>10

LEMMA IncidentsTyped ==
  ASSUME TInv, NEW t \in Threads, PutIncident(t) \/ MarkResolved(t)
  PROVE  TInv'
<1>1. req[t].task \in DOMAIN tasks
  BY DEF PutIncident, MarkResolved, TInv, RequestOK
<1>2. TypeOK' /\ tasks' = tasks /\ tokens' = tokens /\ tokens \in Nat /\ Goto(t, Idle)
  BY <1>1 DEF PutIncident, MarkResolved, TInv, TypeOK, Holders, Goto
<1>3. RequestOK(Idle)'
  BY DEF RequestOK, PCs, Idle
<1>4. QED BY <1>2, <1>3, StepOK

LEMMA ReadTyped ==
  ASSUME TInv, NEW t \in Threads, ReadInstance(t)
  PROVE  TInv'
<1>1. inst \in Instances /\ req[t] \in [pc : {"report"}, holder : Holders, task : DOMAIN tasks, copy : Task]
  BY DEF ReadInstance, TInv, TypeOK, RequestOK, Instances
<1>2. RequestOK([pc |-> "flush", holder |-> req[t].holder, task |-> req[t].task,
                 copy |-> req[t].copy, inst |-> inst])
  BY <1>1 DEF RequestOK, PCs
<1>3. QED BY <1>2, OnlyRequest DEF ReadInstance

LEMMA AdvancedTyped ==
  ASSUME NEW i \in Instances, NEW s \in Steps
  PROVE  Advanced(i, s) \in Instances
BY DEF Instances, Advanced, StepStates

LEMMA AdvanceTyped ==
  ASSUME TInv, NEW t \in Threads, AdvanceInstance(t)
  PROVE  TInv'
<1> DEFINE s == req[t].copy.step
           after == Advanced(req[t].inst, s)
<1>1. /\ req[t] \in [pc : {"flush", "again", "close"}, holder : Holders, task : DOMAIN tasks,
                     copy : Task, inst : Instances]
      /\ s \in Steps
  BY DEF AdvanceInstance, TInv, RequestOK, Task, Fields, Fitting
<1>2. after \in Instances
  BY <1>1, AdvancedTyped
<1>3. RequestOK([req[t] EXCEPT !.pc = "again", !.inst = after])
  BY <1>1, <1>2 DEF RequestOK, PCs
<1>4. [done EXCEPT ![s] = @ + 1] \in [Steps -> Nat]
  BY <1>1 DEF TInv, TypeOK
<1>5. inst \in Instances /\ done \in [Steps -> Nat]
  BY DEF TInv, TypeOK, Instances
<1>6. QED BY <1>2, <1>3, <1>4, <1>5, IdleTyped, OnlyInstance DEF AdvanceInstance

LEMMA PutAgainTyped ==
  ASSUME TInv, NEW t \in Threads, PutAgain(t)
  PROVE  TInv'
<1>1. req[t] \in [pc : {"flush", "again", "close"}, holder : Holders, task : DOMAIN tasks,
                  copy : Task, inst : Instances]
  BY DEF PutAgain, TInv, RequestOK
<1>2. RequestOK([req[t] EXCEPT !.pc = "close"])
  BY <1>1 DEF RequestOK, PCs
<1>3. inst' \in Instances /\ done' \in [Steps -> Nat]
  BY <1>1 DEF PutAgain, TInv, TypeOK
<1>4. QED BY <1>2, <1>3, OnlyInstance DEF PutAgain

-----------------------------------------------------------------------------
LEMMA ResolveTyped ==
  ASSUME TInv, NEW t \in Threads, NEW k \in DOMAIN tasks, ResolveIncident(t, k)
  PROVE  TInv'
<1>1. RequestOK([pc |-> "resolve", task |-> k, copy |-> tasks[k]])
  BY TaskAt DEF RequestOK, PCs
<1>2. QED BY <1>1, OnlyRequest DEF ResolveIncident

LEMMA RequeueTyped ==
  ASSUME TInv, NEW t \in Threads, RequeueTask(t)
  PROVE  TInv'
<1>1. req[t].copy \in Task /\ req[t].task \in DOMAIN tasks /\ req[t].pc = "resolve"
  BY DEF RequeueTask, TInv, RequestOK
<1>2. RequestOK([pc |-> "resolved", task |-> req[t].task])
  BY <1>1 DEF RequestOK, PCs
<1>3. Requeued(req[t].copy, Budget, TRUE) \in Task
  <2>1. Budget \in Int
    BY ExternalTasksAssumption DEF Budget
  <2>2. QED BY <1>1, <2>1, ExternalTasksAssumption DEF Requeued, Task, Fields, Fitting, TaskStates
<1>4. QED BY <1>1, <1>2, <1>3, WritesTyped, OnlyRequest DEF RequeueTask

LEMMA UserReadsTyped ==
  ASSUME TInv, NEW t \in Threads, NEW s \in Steps, UserReads(t, s)
  PROVE  TInv'
<1>1. inst \in Instances
  BY DEF TInv, TypeOK, Instances
<1>2. RequestOK([pc |-> "user", step |-> s, inst |-> inst])
  BY <1>1 DEF RequestOK, PCs
<1>3. QED BY <1>2, OnlyRequest DEF UserReads

LEMMA UserWritesTyped ==
  ASSUME TInv, NEW t \in Threads, UserStarts(t) \/ UserCompletes(t) \/ UserPutsAgain(t)
  PROVE  TInv'
<1>1. CASE UserStarts(t)
  <2>1. inst' \in Instances /\ done' \in [Steps -> Nat]
    BY <1>1 DEF UserStarts, TInv, TypeOK, RequestOK, Instances, StepStates
  <2>2. QED BY <1>1, <2>1, IdleTyped, OnlyInstance DEF UserStarts
<1>2. CASE UserCompletes(t)
  <2> DEFINE after == Advanced(req[t].inst, req[t].step)
  <2>1. req[t].step \in Steps /\ req[t].inst \in Instances
    BY <1>2 DEF UserCompletes, TInv, RequestOK
  <2>2. after \in Instances
    BY <2>1, AdvancedTyped
  <2>3. RequestOK([pc |-> "userAgain", inst |-> after])
    BY <2>2 DEF RequestOK, PCs
  <2>4. inst' \in Instances /\ done' \in [Steps -> Nat]
    BY <1>2, <2>1, <2>2 DEF UserCompletes, TInv, TypeOK
  <2>5. QED BY <1>2, <2>3, <2>4, OnlyInstance DEF UserCompletes
<1>3. CASE UserPutsAgain(t)
  <2>1. inst' \in Instances /\ done' \in [Steps -> Nat]
    BY <1>3 DEF UserPutsAgain, TInv, TypeOK, RequestOK
  <2>2. QED BY <1>3, <2>1, IdleTyped, OnlyInstance DEF UserPutsAgain
<1>4. QED BY <1>1, <1>2, <1>3

-----------------------------------------------------------------------------
LEMMA ExpireTyped ==
  ASSUME TInv, NEW h \in Holders, NEW k \in DOMAIN tasks, Expire(h, k)
  PROVE  TInv'
<1>1. tasks[k].state = "LOCKED" => [tasks[k] EXCEPT !.window = "over"] \in Task
  BY TaskAt DEF Task, Fields, Fitting
<1>2. tasks' \in Seq(Task) /\ DOMAIN tasks' = DOMAIN tasks
  <2>1. \/ tasks' = tasks
        \/ /\ tasks[k].state = "LOCKED"
           /\ tasks' = [tasks EXCEPT ![k] = [tasks[k] EXCEPT !.window = "over"]]
    BY DEF Expire, Put
  <2>2. CASE tasks' = tasks
    BY <2>2 DEF TInv, TypeOK
  <2>3. CASE tasks' # tasks
    <3>1. PICK x \in Task : tasks' = [tasks EXCEPT ![k] = x]
      BY <1>1, <2>1, <2>3
    <3>2. QED BY <3>1 DEF TInv, TypeOK
  <2>4. QED BY <2>2, <2>3
<1>3. TypeOK'
  BY <1>2 DEF Expire, TInv, TypeOK, Holders
<1>4. tokens <= tokens' /\ req' = req
  BY DEF Expire, TInv, TypeOK
<1>5. QED BY <1>2, <1>3, <1>4, StoresChange

LEMMA BackoffTyped ==
  ASSUME TInv, NEW k \in DOMAIN tasks, BackoffEnds(k)
  PROVE  TInv'
<1>1. [tasks[k] EXCEPT !.due = TRUE] \in Task
  BY TaskAt DEF Task, Fields, Fitting
<1>2. tasks' \in Seq(Task) /\ DOMAIN tasks' = DOMAIN tasks
  BY <1>1 DEF BackoffEnds, Put, TInv, TypeOK
<1>3. TypeOK'
  BY <1>2 DEF BackoffEnds, TInv, TypeOK, Holders
<1>4. tokens <= tokens' /\ req' = req
  BY DEF BackoffEnds, TInv, TypeOK
<1>5. QED BY <1>2, <1>3, <1>4, StoresChange

LEMMA CrashTyped ==
  ASSUME TInv, Crash
  PROVE  TInv'
<1>1. crashes' \in 0 .. MaxCrashes
  BY ExternalTasksAssumption DEF Crash, TInv, TypeOK
<1>2. TypeOK'
  BY <1>1 DEF Crash, TInv, TypeOK, Holders
<1>3. \A t \in Threads : req'[t] = Idle
  BY DEF Crash
<1>4. RequestOK(Idle)'
  BY DEF RequestOK, PCs, Idle
<1>5. \A t \in Threads : RequestOK(req[t])'
  BY <1>3, <1>4 DEF RequestOK
<1>6. QED BY <1>2, <1>5 DEF TInv

LEMMA InitTyped == Init => TInv
<1> SUFFICES ASSUME Init PROVE TInv
  OBVIOUS
<1>1. TypeOK
  BY ExternalTasksAssumption DEF Init, TypeOK, StepStates, Steps, Holders
<1>2. QED BY <1>1, IdleTyped DEF Init, TInv

(* Whatever the threads, clocks and crashes do, the types are kept.        *)
LEMMA TypeKept == TInv /\ [Next]_vars => TInv'
<1> SUFFICES ASSUME TInv, [Next]_vars PROVE TInv'
  OBVIOUS
<1>1. ASSUME NEW t \in Threads, Materialising(t) PROVE TInv'
  BY <1>1, DiscoverTyped, CreateTaskTyped DEF Materialising
<1>2. ASSUME NEW t \in Threads, Fetching(t) PROVE TInv'
  BY <1>2, ScanTyped, FetchTyped, ClaimTyped, EndTyped DEF Fetching, Polled
<1>3. ASSUME NEW t \in Threads, Pushing(t) PROVE TInv'
  BY <1>3, ScanTyped, DriveTyped, PostTyped, PostFailsTyped, MarkTyped, EndTyped
     DEF Pushing, Polled
<1>4. ASSUME NEW t \in Threads, Reporting(t) PROVE TInv'
  BY <1>4, ReportTyped, ReportWritesTyped, IncidentsTyped, ReadTyped, EndTyped, AdvanceTyped,
     PutAgainTyped DEF Reporting
<1>5. ASSUME NEW t \in Threads, Resolving(t) PROVE TInv'
  BY <1>5, ResolveTyped, RequeueTyped, IncidentsTyped DEF Resolving
<1>6. ASSUME NEW t \in Threads, Interacting(t) PROVE TInv'
  BY <1>6, UserReadsTyped, UserWritesTyped DEF Interacting
<1>7. CASE UNCHANGED vars
  <2>1. TypeOK' /\ tasks' = tasks /\ tokens' = tokens /\ tokens \in Nat /\ req' = req
    BY <1>7 DEF vars, TInv, TypeOK, Holders
  <2>2. QED BY <2>1, StoresChange
<1>8. QED BY <1>1, <1>2, <1>3, <1>4, <1>5, <1>6, <1>7, ExpireTyped, BackoffTyped, CrashTyped
          DEF Next

(* Whatever the order of the accesses of any number of threads, however    *)
(* many retries workers ask for, and wherever the server stops: a locked   *)
(* task has its holder and deadline, a queued or parked one neither, and   *)
(* an incident no retries left, although requests write back old copies.   *)
THEOREM TypeCorrect == Spec => []TypeOK
<1>1. TInv => TypeOK
  BY DEF TInv
<1>2. QED BY <1>1, InitTyped, TypeKept, PTL DEF Spec

-----------------------------------------------------------------------------
(***************************************************************************)
(* Requests handled one after the other, by any number of threads: the     *)
(* copies a request works on agree with the stores, up to what time alone  *)
(* changes (windows and back-offs).  When two requests overlap they do     *)
(* not, and the properties fail.                                           *)
(***************************************************************************)
Serial == \A t, u \in Threads : t = u \/ req[t] = Idle \/ req[u] = Idle

Same(x, y) == x.step = y.step /\ x.state = y.state /\ x.worker = y.worker
Free(k) == \A w \in Workers : <<w, k>> \notin claims

Current(r) ==
  /\ r.pc = "scan" => r.open = OpenSteps
  /\ r.pc = "create" => r.todo \cap OpenSteps = {}
  /\ r.pc \in {"claim", "post", "mark"} =>
       \A k \in DOMAIN r.found : /\ Same(r.found[k], tasks[k]) /\ Free(k)
                                 /\ r.found[k].state \in {"CREATED", "LOCKED"}
  /\ r.pc \in {"report", "flush", "again", "close", "resolve"} => Same(r.copy, tasks[r.task])
  /\ r.pc \in {"report", "flush", "again", "close"} =>
       r.copy.state = "LOCKED" /\ r.copy.worker = r.holder
  /\ r.pc \in {"flush", "again", "user", "userAgain"} => r.inst = inst
  /\ r.pc \in {"again", "close"} => inst[r.copy.step] = "COMPLETED"
  /\ r.pc = "user" => Completable(inst, r.step)

(* An open claim of a worker is the lock the task records.                 *)
ClaimsHeld ==
  \A w \in Workers, k \in DOMAIN tasks :
    <<w, k>> \in claims =>
      tasks[k].state = "LOCKED" /\ tasks[k].worker = w /\ tasks[k].window # "over"

Counted == \A s \in Steps : done[s] = IF inst[s] = "COMPLETED" THEN 1 ELSE 0

Stored == ClaimsHeld /\ Counted /\ OneOpenTask /\ ClosedMeansDone

SInv == Stored /\ \A t \in Threads : Current(req[t])

-----------------------------------------------------------------------------
LEMMA IdleCurrent == Current(Idle) /\ Current(Idle)'
BY DEF Current, Idle

(* What the one request goes on with is all there is to look at.           *)
LEMMA Moves ==
  ASSUME Serial, Serial', TInv, Stored', NEW t \in Threads, NEW r, Goto(t, r), Current(r)',
         req[t].pc # "idle" \/ r.pc # "idle"
  PROVE  SInv'
<1>1. \A u \in Threads : req'[u] = IF u = t THEN r ELSE req[u]
  BY DEF TInv, TypeOK, Goto
<1>2. \A u \in Threads : req'[u] = IF u = t THEN r ELSE Idle
  BY <1>1 DEF Serial, Idle
<1>3. \A u \in Threads : Current(req[u])'
  BY <1>2, IdleCurrent DEF Current
<1>4. QED BY <1>3 DEF SInv

LEMMA OnlyMoves ==
  ASSUME Serial, Serial', TInv, SInv, NEW t \in Threads, NEW r, Goto(t, r), Current(r),
         req[t].pc # "idle" \/ r.pc # "idle",
         UNCHANGED <<inst, tasks, claims, done>>
  PROVE  SInv'
<1>1. Stored'
  BY DEF SInv, Stored, ClaimsHeld, Counted, OneOpenTask, ClosedMeansDone
<1>2. Current(r)'
  BY DEF Current, OpenSteps, Free
<1>3. QED BY <1>1, <1>2, Moves

(* The task k is written back: it stays the task of its step, it is not    *)
(* opened again, and it is closed only when its step is completed.         *)
Rewrite(k, x) ==
  /\ Put(k, x)
  /\ x.step = tasks[k].step
  /\ x.state \in OpenStates => tasks[k].state \in OpenStates
  /\ x.state = "COMPLETED" => inst[x.step] = "COMPLETED"
  /\ \A w \in Workers, j \in DOMAIN tasks :
       <<w, j>> \in claims' =>
         IF j = k THEN x.state = "LOCKED" /\ x.worker = w /\ x.window # "over"
                  ELSE <<w, j>> \in claims

LEMMA WriteKept ==
  ASSUME TInv, Stored, NEW k \in DOMAIN tasks, NEW x, Rewrite(k, x), UNCHANGED <<inst, done>>
  PROVE  Stored'
<1>1. /\ DOMAIN tasks' = DOMAIN tasks /\ tasks'[k] = x
      /\ \A j \in DOMAIN tasks : j # k => tasks'[j] = tasks[j]
  BY DEF Rewrite, Put, TInv, TypeOK
<1>2. ClaimsHeld'
  BY <1>1 DEF Stored, ClaimsHeld, Rewrite
<1>3. Counted'
  BY DEF Stored, Counted
<1>4. OneOpenTask'
  BY <1>1 DEF Stored, OneOpenTask, Rewrite
<1>5. ClosedMeansDone'
  BY <1>1 DEF Stored, ClosedMeansDone, Rewrite
<1>6. QED BY <1>2, <1>3, <1>4, <1>5 DEF Stored

(* A request that writes its last task and ends.                           *)
LEMMA WritesAndEnds ==
  ASSUME Serial, Serial', TInv, SInv, NEW t \in Threads, Goto(t, Idle), req[t].pc # "idle",
         NEW k \in DOMAIN tasks, NEW x, Rewrite(k, x), UNCHANGED <<inst, done>>
  PROVE  SInv'
BY WriteKept, IdleCurrent, Moves DEF SInv

-----------------------------------------------------------------------------
LEMMA ScanSafe ==
  ASSUME Serial, Serial', TInv, SInv, NEW t \in Threads, NEW h, Scan(t, h)
  PROVE  SInv'
<1>1. Current([pc |-> "scan", holder |-> h, open |-> OpenSteps])
  BY DEF Current
<1>2. QED BY <1>1, OnlyMoves DEF Scan

LEMMA DiscoverSafe ==
  ASSUME Serial, Serial', TInv, SInv, NEW t \in Threads, Discover(t)
  PROVE  SInv'
<1> DEFINE kind == IF req[t].holder = NoWorker THEN Push ELSE Pull
           todo == {s \in kind : inst[s] = "ACTIVATED"} \ req[t].open
<1>1. todo \cap OpenSteps = {}
  BY DEF Discover, SInv, Current
<1>2. Current([pc |-> "create", holder |-> req[t].holder, todo |-> todo])
  BY <1>1 DEF Current
<1>3. QED BY <1>2, OnlyMoves DEF Discover

(* Materialisation: a task is made of a step that has no open one.         *)
LEMMA CreateTaskSafe ==
  ASSUME Serial, Serial', TInv, SInv, NEW t \in Threads, NEW s \in Steps, CreateTask(t, s)
  PROVE  SInv'
<1> PICK r : r = [req[t] EXCEPT !.todo = @ \ {s}]
  OBVIOUS
<1> DEFINE n == Len(tasks) + 1
<1>1. /\ DOMAIN tasks' = DOMAIN tasks \cup {n} /\ n \notin DOMAIN tasks
      /\ tasks'[n] = NewTask(s)
      /\ \A k \in DOMAIN tasks : tasks'[k] = tasks[k]
  BY DEF CreateTask, TInv, TypeOK
<1>2. s \notin OpenSteps /\ req[t].todo \cap OpenSteps = {}
  BY DEF CreateTask, SInv, Current
<1>3. /\ NewTask(s).step = s /\ NewTask(s).state = "CREATED"
  BY DEF NewTask
<1>4. ClaimsHeld'
  <2>1. \A w, k : <<w, k>> \in claims => k \in DOMAIN tasks
    BY DEF TInv, TypeOK
  <2>2. QED BY <1>1, <2>1 DEF SInv, Stored, ClaimsHeld, CreateTask
<1>5. Counted'
  BY DEF SInv, Stored, Counted, CreateTask
<1>6. OneOpenTask'
  <2>1. \A k \in DOMAIN tasks : tasks[k].state \in OpenStates => tasks[k].step # s
    BY <1>2 DEF OpenSteps
  <2>2. QED BY <1>1, <1>3, <2>1 DEF SInv, Stored, OneOpenTask
<1>7. ClosedMeansDone'
  BY <1>1, <1>3 DEF SInv, Stored, ClosedMeansDone, CreateTask
<1>8. OpenSteps' \subseteq OpenSteps \cup {s}
  BY <1>1, <1>3 DEF OpenSteps
<1>9. r.pc = "create" /\ r.todo = req[t].todo \ {s} /\ Goto(t, r)
  BY DEF CreateTask, TInv, RequestOK
<1>10. Current(r)'
  BY <1>2, <1>8, <1>9 DEF Current
<1>11. QED BY <1>4, <1>5, <1>6, <1>7, <1>9, <1>10, Moves DEF Stored

-----------------------------------------------------------------------------
(* What is listed is free: a lock that may be taken over has no claim.     *)
LEMMA ListedCurrent ==
  ASSUME TInv, SInv, NEW found \in SUBSET DOMAIN tasks,
         \A k \in found : Available(tasks[k]),
         NEW r, r.pc \in {"claim", "post"}, r.found = [k \in found |-> tasks[k]]
  PROVE  Current(r)
<1>1. \A k \in found : Free(k) /\ tasks[k].state \in {"CREATED", "LOCKED"}
  BY DEF SInv, Stored, ClaimsHeld, Available, Free
<1>2. QED BY <1>1 DEF Current, Same

LEMMA FetchSafe ==
  ASSUME Serial, Serial', TInv, SInv, NEW t \in Threads, NEW wanted, FetchList(t, wanted)
  PROVE  SInv'
<1> DEFINE found == {k \in DOMAIN tasks : tasks[k].step \in wanted /\ Available(tasks[k])}
           r == [pc |-> "claim", holder |-> req[t].holder, room |-> Batch,
                 found |-> [k \in found |-> tasks[k]]]
<1>1. Current(r)
  BY ListedCurrent
<1>2. QED BY <1>1, IdleCurrent, OnlyMoves DEF FetchList

LEMMA DriveSafe ==
  ASSUME Serial, Serial', TInv, SInv, NEW t \in Threads, DriveList(t)
  PROVE  SInv'
<1> DEFINE found == {k \in DOMAIN tasks : /\ tasks[k].step \in Push
                                          /\ tasks[k].state = "CREATED" /\ tasks[k].due}
           r == [pc |-> "post", found |-> [k \in found |-> tasks[k]]]
<1>1. Current(r)
  BY ListedCurrent DEF Available
<1>2. QED BY <1>1, OnlyMoves DEF DriveList

(* A copy is written back as locked: the task was free, and is the holder's. *)
LEMMA LockRewrites ==
  ASSUME TInv, Stored, NEW k \in DOMAIN tasks, NEW copy \in Task, Same(copy, tasks[k]), Free(k),
         copy.state \in {"CREATED", "LOCKED"}, NEW h \in Holders, Put(k, LockedBy(copy, h)),
         claims' \subseteq claims \cup {<<h, k>>}
  PROVE  Rewrite(k, LockedBy(copy, h))
<1> DEFINE x == LockedBy(copy, h)
<1>1. /\ x.step = tasks[k].step /\ x.state = "LOCKED" /\ x.worker = h
      /\ h \in Workers => x.window = "open"
  BY DEF LockedBy, Task, Fields, Fitting, Same
<1>2. tasks[k].state \in OpenStates
  BY DEF Same, OpenStates
<1>3. QED BY <1>1, <1>2 DEF Rewrite, Free

LEMMA ClaimSafe ==
  ASSUME Serial, Serial', TInv, SInv, NEW t \in Threads, NEW k \in DOMAIN tasks, Claim(t, k)
  PROVE  SInv'
<1> PICK r : r = [req[t] EXCEPT !.found = Without(req[t].found, k), !.room = @ - 1]
  OBVIOUS
<1> DEFINE copy == req[t].found[k]
<1>1. /\ req[t] \in [pc : {"claim"}, holder : Workers, room : Nat \ {0}, found : Copies]
      /\ k \in DOMAIN req[t].found /\ req[t].holder \in Holders
  BY DEF Claim, TInv, RequestOK, Holders
<1>2. \A j \in DOMAIN req[t].found :
        /\ Same(req[t].found[j], tasks[j]) /\ Free(j) /\ j \in DOMAIN tasks
        /\ req[t].found[j].state \in {"CREATED", "LOCKED"} /\ req[t].found[j] \in Task
  BY <1>1, CopyAt DEF SInv, Current
<1>3. Rewrite(k, LockedBy(copy, req[t].holder))
  BY <1>1, <1>2, LockRewrites DEF Claim, SInv
<1>4. Stored'
  BY <1>3, WriteKept DEF SInv, Claim
<1>5. Current(r)'
  <2>1. \A j \in DOMAIN tasks : j # k => tasks'[j] = tasks[j] /\ (Free(j) => Free(j)')
    BY DEF Claim, Put, Free, TInv, TypeOK
  <2>2. r.pc = "claim" /\ r.found = Without(req[t].found, k)
    BY <1>1
  <2>3. \A j \in DOMAIN r.found : j \in DOMAIN req[t].found /\ j # k /\ r.found[j] = req[t].found[j]
    BY <2>2 DEF Without
  <2>4. QED BY <1>2, <2>1, <2>2, <2>3 DEF Current
<1>6. QED BY <1>4, <1>5, IdleCurrent, Moves DEF Claim

LEMMA PostSafe ==
  ASSUME Serial, Serial', TInv, SInv, NEW t \in Threads, NEW k \in DOMAIN tasks, PostTask(t, k)
  PROVE  SInv'
<1> PICK r : r = [pc |-> "mark", found |-> req[t].found, task |-> k, token |-> tokens + 1]
  OBVIOUS
<1>1. \A w \in Workers : \A j : <<w, j>> \in claims' => <<w, j>> \in claims
  BY ExternalTasksAssumption DEF PostTask, TInv, TypeOK
<1>2. Stored'
  BY <1>1 DEF SInv, Stored, ClaimsHeld, Counted, OneOpenTask, ClosedMeansDone, PostTask
<1>3. Current(r)'
  BY <1>1 DEF SInv, Current, PostTask, Free
<1>4. QED BY <1>2, <1>3, Moves DEF PostTask

LEMMA PostFailsSafe ==
  ASSUME Serial, Serial', TInv, SInv, NEW t \in Threads, NEW k, PostFails(t, k)
  PROVE  SInv'
<1> PICK r : r = [req[t] EXCEPT !.found = Without(@, k)]
  OBVIOUS
<1>1. r.pc = "post" /\ r.found = Without(req[t].found, k)
  BY DEF PostFails, TInv, RequestOK
<1>2. \A j \in DOMAIN r.found : j \in DOMAIN req[t].found /\ r.found[j] = req[t].found[j]
  BY <1>1 DEF Without
<1>3. Current(r)
  BY <1>1, <1>2 DEF SInv, Current, PostFails
<1>4. QED BY <1>3, OnlyMoves DEF PostFails

LEMMA MarkSafe ==
  ASSUME Serial, Serial', TInv, SInv, NEW t \in Threads, MarkPushed(t)
  PROVE  SInv'
<1> DEFINE k == req[t].task
           copy == req[t].found[k]
<1> PICK r : r = [pc |-> "post", found |-> Without(req[t].found, k)]
  OBVIOUS
<1>1. /\ req[t].found \in Copies /\ k \in DOMAIN req[t].found /\ req[t].token \in Holders
  BY DEF MarkPushed, TInv, RequestOK, Holders
<1>2. \A j \in DOMAIN req[t].found :
        /\ Same(req[t].found[j], tasks[j]) /\ Free(j) /\ j \in DOMAIN tasks
        /\ req[t].found[j].state \in {"CREATED", "LOCKED"} /\ req[t].found[j] \in Task
  BY <1>1, CopyAt DEF SInv, Current, MarkPushed
<1>3. Rewrite(k, LockedBy(copy, req[t].token))
  BY <1>1, <1>2, LockRewrites DEF MarkPushed, SInv
<1>4. Stored'
  BY <1>1, <1>2, <1>3, WriteKept DEF SInv, MarkPushed
<1>5. Current(r)'
  <2>1. \A j \in DOMAIN tasks : j # k => tasks'[j] = tasks[j] /\ (Free(j) => Free(j)')
    BY DEF MarkPushed, Put, Free, TInv, TypeOK
  <2>2. \A j \in DOMAIN r.found : j \in DOMAIN req[t].found /\ j # k /\ r.found[j] = req[t].found[j]
    BY DEF Without
  <2>3. QED BY <1>2, <2>1, <2>2 DEF Current
<1>6. QED BY <1>4, <1>5, Moves DEF MarkPushed

LEMMA EndSafe ==
  ASSUME Serial, Serial', TInv, SInv, NEW t \in Threads,
         PrefetchFails(t) \/ DriveEnds(t) \/ FlushFails(t) \/ PutIncident(t) \/ MarkResolved(t)
  PROVE  SInv'
BY IdleCurrent, OnlyMoves DEF PrefetchFails, DriveEnds, FlushFails, PutIncident, MarkResolved

-----------------------------------------------------------------------------
LEMMA ReportSafe ==
  ASSUME Serial, Serial', TInv, SInv, NEW t \in Threads, NEW h \in Holders, NEW k \in DOMAIN tasks,
         Report(t, h, k)
  PROVE  SInv'
<1>1. Current([pc |-> "report", holder |-> h, task |-> k, copy |-> tasks[k]])
  BY DEF Current, Same, Report, HoldsLock
<1>2. QED BY <1>1, OnlyMoves DEF Report

(* What a report knows of its task while it runs.                          *)
LEMMA Reported ==
  ASSUME TInv, SInv, NEW t \in Threads, req[t].pc \in {"report", "flush", "again", "close"}
  PROVE  /\ req[t].task \in DOMAIN tasks /\ req[t].copy \in Task
         /\ Same(req[t].copy, tasks[req[t].task])
         /\ req[t].copy.state = "LOCKED" /\ req[t].copy.worker = req[t].holder
BY DEF TInv, SInv, RequestOK, Current

(* A report gives the lock back: nobody else has a claim on the task.      *)
LEMMA ReportRewrites ==
  ASSUME TInv, SInv, NEW t \in Threads, req[t].pc \in {"report", "close"}, GiveBack(t),
         NEW x, Put(req[t].task, x), x.step = req[t].copy.step,
         x.state = "COMPLETED" => inst[x.step] = "COMPLETED"
  PROVE  Rewrite(req[t].task, x)
<1>1. \A w \in Workers : <<w, req[t].task>> \in claims => w = req[t].holder
  BY Reported DEF SInv, Stored, ClaimsHeld, Same
<1>2. tasks[req[t].task].state \in OpenStates /\ x.step = tasks[req[t].task].step
  BY Reported DEF Same, OpenStates
<1>3. QED BY <1>1, <1>2 DEF Rewrite, GiveBack

LEMMA UnlockSafe ==
  ASSUME Serial, Serial', TInv, SInv, NEW t \in Threads, Unlock(t)
  PROVE  SInv'
<1> DEFINE x == Requeued(req[t].copy, req[t].copy.left, TRUE)
<1>1. req[t].pc = "report" /\ req[t].task \in DOMAIN tasks /\ req[t].copy \in Task
  BY Reported DEF Unlock
<1>2. x.step = req[t].copy.step /\ x.state = "CREATED"
  BY <1>1 DEF Requeued, Task, Fields, Fitting
<1>3. Rewrite(req[t].task, x)
  BY <1>1, <1>2, ReportRewrites DEF Unlock
<1>4. QED BY <1>1, <1>3, WritesAndEnds DEF Unlock

LEMMA ExtendSafe ==
  ASSUME Serial, Serial', TInv, SInv, NEW t \in Threads, ExtendLock(t)
  PROVE  SInv'
<1> DEFINE k == req[t].task
           x == [req[t].copy EXCEPT !.window = "open"]
<1>1. /\ req[t].pc = "report" /\ k \in DOMAIN tasks /\ req[t].copy \in Task
      /\ Same(req[t].copy, tasks[k])
      /\ req[t].copy.state = "LOCKED" /\ req[t].copy.worker = req[t].holder
  BY Reported DEF ExtendLock
<1>2. /\ x.step = tasks[k].step /\ x.state = "LOCKED" /\ x.window = "open"
      /\ x.worker = req[t].holder
  BY <1>1 DEF Task, Fields, Fitting, Same
<1>3. \A w \in Workers : <<w, k>> \in claims' => w = req[t].holder
  BY <1>1 DEF SInv, Stored, ClaimsHeld, Same, ExtendLock
<1>4. Rewrite(k, x)
  BY <1>1, <1>2, <1>3 DEF Rewrite, ExtendLock, Same, OpenStates
<1>5. QED BY <1>1, <1>4, WritesAndEnds DEF ExtendLock

LEMMA BpmnErrorSafe ==
  ASSUME Serial, Serial', TInv, SInv, NEW t \in Threads, BpmnError(t)
  PROVE  SInv'
<1> DEFINE x == Parked(req[t].copy, "BPMN_ERROR", req[t].copy.left)
<1>1. req[t].pc = "report" /\ req[t].task \in DOMAIN tasks /\ req[t].copy \in Task
  BY Reported DEF BpmnError
<1>2. x.step = req[t].copy.step /\ x.state = "BPMN_ERROR"
  BY <1>1 DEF Parked, Task, Fields, Fitting
<1>3. Rewrite(req[t].task, x)
  BY <1>1, <1>2, ReportRewrites DEF BpmnError
<1>4. QED BY <1>1, <1>3, WritesAndEnds DEF BpmnError

LEMMA FailureSafe ==
  ASSUME Serial, Serial', TInv, SInv, NEW t \in Threads, Failure(t)
  PROVE  SInv'
<1> DEFINE k == req[t].task
           copy == req[t].copy
<1>1. req[t].pc = "report" /\ k \in DOMAIN tasks /\ copy \in Task
  BY Reported DEF Failure
<1>2. ASSUME NEW left, NEW due
      PROVE  /\ Requeued(copy, left, due).step = copy.step
             /\ Requeued(copy, left, due).state = "CREATED"
  BY <1>1 DEF Requeued, Task, Fields, Fitting
<1>3. Parked(copy, "INCIDENT", 0).step = copy.step /\ Parked(copy, "INCIDENT", 0).state = "INCIDENT"
  BY <1>1 DEF Parked, Task, Fields, Fitting
<1>4. PICK left :
        IF left > 0
        THEN /\ \E due \in BOOLEAN : Put(k, Requeued(copy, left, due))
             /\ Goto(t, Idle)
        ELSE /\ Put(k, Parked(copy, "INCIDENT", 0))
             /\ Goto(t, [pc |-> "incident", task |-> k])
  BY DEF Failure
<1>5. GiveBack(t) /\ UNCHANGED <<inst, done>>
  BY DEF Failure
<1>6. CASE left > 0
  <2>1. PICK due \in BOOLEAN : Put(k, Requeued(copy, left, due))
    BY <1>4, <1>6
  <2>2. Rewrite(k, Requeued(copy, left, due))
    BY <1>1, <1>2, <1>5, <2>1, ReportRewrites
  <2>3. QED BY <1>1, <1>4, <1>5, <1>6, <2>2, WritesAndEnds
<1>7. CASE ~(left > 0)
  <2> PICK r : r = [pc |-> "incident", task |-> k]
    OBVIOUS
  <2>1. Rewrite(k, Parked(copy, "INCIDENT", 0))
    BY <1>1, <1>3, <1>4, <1>5, <1>7, ReportRewrites
  <2>2. Stored'
    BY <1>1, <1>5, <2>1, WriteKept DEF SInv
  <2>3. Current(r)'
    BY DEF Current
  <2>4. QED BY <1>4, <1>7, <2>2, <2>3, Moves
<1>8. QED BY <1>6, <1>7

-----------------------------------------------------------------------------
(* complete: the step is completed first, its task closed after.           *)

LEMMA ReadSafe ==
  ASSUME Serial, Serial', TInv, SInv, NEW t \in Threads, ReadInstance(t)
  PROVE  SInv'
<1>1. Current([pc |-> "flush", holder |-> req[t].holder, task |-> req[t].task,
               copy |-> req[t].copy, inst |-> inst])
  BY Reported DEF Current, ReadInstance
<1>2. QED BY <1>1, OnlyMoves DEF ReadInstance

LEMMA AdvancedCompletes ==
  ASSUME NEW i \in Instances, NEW s \in Steps, NEW x \in Steps
  PROVE  Advanced(i, s)[x] = "COMPLETED" <=> x = s \/ i[x] = "COMPLETED"
BY DEF Advanced, Instances

(* A step that was not completed is, and counted once.                     *)
LEMMA InstanceKept ==
  ASSUME TInv, Stored, NEW s \in Steps, Completable(inst, s), inst' = Advanced(inst, s),
         done' = [done EXCEPT ![s] = @ + 1], UNCHANGED <<tasks, claims>>
  PROVE  Stored'
<1>1. inst \in Instances
  BY DEF TInv, TypeOK, Instances
<1>2. \A x \in Steps : inst'[x] = "COMPLETED" <=> x = s \/ inst[x] = "COMPLETED"
  BY <1>1, AdvancedCompletes
<1>3. Counted'
  BY <1>2 DEF Stored, Counted, Completable, TInv, TypeOK
<1>4. \A k \in DOMAIN tasks : tasks[k].step \in Steps
  BY TaskAt DEF Task, Fields, Fitting
<1>5. ClosedMeansDone'
  BY <1>2, <1>4 DEF Stored, ClosedMeansDone
<1>6. QED BY <1>3, <1>5 DEF Stored, ClaimsHeld, OneOpenTask

LEMMA AdvanceSafe ==
  ASSUME Serial, Serial', TInv, SInv, NEW t \in Threads, AdvanceInstance(t)
  PROVE  SInv'
<1> DEFINE s == req[t].copy.step
           after == Advanced(req[t].inst, s)
<1>1. /\ req[t] \in [pc : {"flush", "again", "close"}, holder : Holders, task : DOMAIN tasks,
                     copy : Task, inst : Instances]
      /\ s \in Steps /\ req[t].inst = inst /\ req[t].pc = "flush"
  BY DEF AdvanceInstance, TInv, SInv, Current, RequestOK, Task, Fields, Fitting
<1>2. CASE Completable(inst, s)
  <2> PICK r : r = [req[t] EXCEPT !.pc = "again", !.inst = after]
    OBVIOUS
  <2>1. inst' = after /\ done' = [done EXCEPT ![s] = @ + 1] /\ Goto(t, r) /\ UNCHANGED <<tasks, claims>>
    BY <1>1, <1>2 DEF AdvanceInstance
  <2>2. Stored'
    BY <1>1, <1>2, <2>1, InstanceKept DEF SInv
  <2>3. /\ r.pc = "again" /\ r.inst = inst' /\ r.copy = req[t].copy /\ r.task = req[t].task
        /\ r.holder = req[t].holder
    BY <1>1, <2>1
  <2>4. inst'[s] = "COMPLETED"
    BY <1>1, <2>1, AdvancedCompletes
  <2>5. Current(r)'
    BY <1>1, <2>1, <2>3, <2>4, Reported DEF Current
  <2>6. QED BY <2>1, <2>2, <2>3, <2>5, Moves
<1>3. CASE ~Completable(inst, s)
  BY <1>1, <1>3, IdleCurrent, OnlyMoves DEF AdvanceInstance
<1>4. QED BY <1>2, <1>3

LEMMA PutAgainSafe ==
  ASSUME Serial, Serial', TInv, SInv, NEW t \in Threads, PutAgain(t)
  PROVE  SInv'
<1> PICK r : r = [req[t] EXCEPT !.pc = "close"]
  OBVIOUS
<1>1. /\ r.pc = "close" /\ r.copy = req[t].copy /\ r.task = req[t].task
      /\ r.holder = req[t].holder
  BY DEF PutAgain, TInv, RequestOK
<1>2. req[t].pc = "again" /\ inst' = inst /\ inst[req[t].copy.step] = "COMPLETED"
  BY DEF PutAgain, SInv, Current
<1>3. Current(r)
  BY <1>1, <1>2, Reported DEF Current
<1>4. QED BY <1>2, <1>3, OnlyMoves DEF PutAgain

LEMMA CloseSafe ==
  ASSUME Serial, Serial', TInv, SInv, NEW t \in Threads, CloseTask(t)
  PROVE  SInv'
<1> DEFINE x == Closed(req[t].copy)
<1>1. /\ req[t].pc = "close" /\ req[t].task \in DOMAIN tasks /\ req[t].copy \in Task
      /\ inst[req[t].copy.step] = "COMPLETED"
  BY Reported DEF CloseTask, SInv, Current
<1>2. x.step = req[t].copy.step /\ x.state = "COMPLETED"
  BY <1>1 DEF Closed, Task, Fields, Fitting
<1>3. Rewrite(req[t].task, x)
  BY <1>1, <1>2, ReportRewrites DEF CloseTask
<1>4. QED BY <1>1, <1>3, WritesAndEnds DEF CloseTask

-----------------------------------------------------------------------------
LEMMA ResolveSafe ==
  ASSUME Serial, Serial', TInv, SInv, NEW t \in Threads, NEW k \in DOMAIN tasks, ResolveIncident(t, k)
  PROVE  SInv'
<1>1. Current([pc |-> "resolve", task |-> k, copy |-> tasks[k]])
  BY DEF Current, Same
<1>2. QED BY <1>1, OnlyMoves DEF ResolveIncident

LEMMA RequeueSafe ==
  ASSUME Serial, Serial', TInv, SInv, NEW t \in Threads, RequeueTask(t)
  PROVE  SInv'
<1> PICK r : r = [pc |-> "resolved", task |-> req[t].task]
  OBVIOUS
<1> DEFINE k == req[t].task
           x == Requeued(req[t].copy, Budget, TRUE)
<1>1. /\ k \in DOMAIN tasks /\ req[t].copy \in Task /\ Same(req[t].copy, tasks[k])
  BY DEF RequeueTask, TInv, SInv, RequestOK, Current
<1>2. x.step = tasks[k].step /\ x.state = "CREATED"
  BY <1>1 DEF Requeued, Task, Fields, Fitting, Same
<1>3. Current(r) /\ Current(r)'
  BY DEF Current
<1>4. CASE req[t].copy.state = "INCIDENT"
  <2>1. tasks[k].state = "INCIDENT"
    BY <1>1, <1>4 DEF Same
  <2>2. Rewrite(k, x)
    BY <1>2, <1>4, <2>1 DEF Rewrite, RequeueTask, SInv, Stored, ClaimsHeld, OpenStates
  <2>3. Stored'
    BY <1>1, <2>2, WriteKept DEF SInv, RequeueTask
  <2>4. QED BY <1>3, <2>3, Moves DEF RequeueTask
<1>5. CASE req[t].copy.state # "INCIDENT"
  BY <1>3, <1>5, OnlyMoves DEF RequeueTask
<1>6. QED BY <1>4, <1>5

LEMMA UserReadsSafe ==
  ASSUME Serial, Serial', TInv, SInv, NEW t \in Threads, NEW s \in Steps, UserReads(t, s)
  PROVE  SInv'
<1>1. Current([pc |-> "user", step |-> s, inst |-> inst])
  BY DEF Current, UserReads
<1>2. QED BY <1>1, OnlyMoves DEF UserReads

LEMMA UserWritesSafe ==
  ASSUME Serial, Serial', TInv, SInv, NEW t \in Threads,
         UserStarts(t) \/ UserCompletes(t) \/ UserPutsAgain(t)
  PROVE  SInv'
<1>1. CASE UserStarts(t)
  <2>1. /\ req[t].inst = inst /\ req[t].step \in Steps
        /\ inst' = [inst EXCEPT ![req[t].step] = "RUNNING"]
        /\ inst[req[t].step] = "ACTIVATED" /\ Goto(t, Idle) /\ UNCHANGED <<tasks, claims, done>>
    BY <1>1 DEF UserStarts, TInv, SInv, Current, RequestOK
  <2>2. \A x \in Steps : inst'[x] = "COMPLETED" <=> inst[x] = "COMPLETED"
    BY <2>1 DEF TInv, TypeOK
  <2>3. \A k \in DOMAIN tasks : tasks[k].step \in Steps
    BY TaskAt DEF Task, Fields, Fitting
  <2>4. ClosedMeansDone' /\ Counted'
    BY <2>1, <2>2, <2>3 DEF SInv, Stored, ClosedMeansDone, Counted
  <2>5. Stored'
    BY <2>1, <2>4 DEF SInv, Stored, ClaimsHeld, OneOpenTask
  <2>6. QED BY <1>1, <2>1, <2>5, IdleCurrent, Moves DEF UserStarts
<1>2. CASE UserCompletes(t)
  <2> DEFINE after == Advanced(req[t].inst, req[t].step)
  <2> PICK r : r = [pc |-> "userAgain", inst |-> after]
    OBVIOUS
  <2>1. /\ req[t].inst = inst /\ req[t].step \in Steps /\ Completable(inst, req[t].step)
        /\ inst' = after /\ done' = [done EXCEPT ![req[t].step] = @ + 1] /\ Goto(t, r)
        /\ UNCHANGED <<tasks, claims>>
    BY <1>2 DEF UserCompletes, TInv, SInv, Current, RequestOK
  <2>2. Stored'
    BY <2>1, InstanceKept DEF SInv
  <2>3. Current(r)'
    BY <2>1 DEF Current
  <2>4. QED BY <2>1, <2>2, <2>3, Moves
<1>3. CASE UserPutsAgain(t)
  <2>1. inst' = inst
    BY <1>3 DEF UserPutsAgain, SInv, Current
  <2>2. QED BY <1>3, <2>1, IdleCurrent, OnlyMoves DEF UserPutsAgain
<1>4. QED BY <1>1, <1>2, <1>3

-----------------------------------------------------------------------------
(* Time touches windows and back-offs only, which no copy is compared on.  *)
TimePasses ==
  /\ DOMAIN tasks' = DOMAIN tasks /\ \A k \in DOMAIN tasks : Same(tasks'[k], tasks[k])
  /\ claims' \subseteq claims
  /\ UNCHANGED <<inst, req, done>>

LEMMA TimeSafe ==
  ASSUME TInv, SInv, TimePasses, ClaimsHeld'
  PROVE  SInv'
<1>1. Stored'
  BY DEF SInv, Stored, Counted, OneOpenTask, ClosedMeansDone, TimePasses, Same
<1>2. OpenSteps' = OpenSteps
  BY DEF OpenSteps, TimePasses, Same
<1>3. \A k : Free(k) => Free(k)'
  BY DEF Free, TimePasses
<1>4. ASSUME NEW t \in Threads PROVE Current(req[t])'
  <2>1. Current(req[t]) /\ RequestOK(req[t]) /\ req'[t] = req[t]
    BY DEF SInv, TInv, TimePasses
  <2>2. /\ req[t].pc \in {"claim", "post", "mark"} => DOMAIN req[t].found \subseteq DOMAIN tasks
        /\ req[t].pc \in {"report", "flush", "again", "close", "resolve"} =>
             req[t].task \in DOMAIN tasks
    BY <2>1, CopyAt DEF RequestOK
  <2>3. QED BY <1>2, <1>3, <2>1, <2>2 DEF Current, TimePasses, Same
<1>5. QED BY <1>1, <1>4 DEF SInv

LEMMA ExpireSafe ==
  ASSUME TInv, SInv, NEW h \in Holders, NEW k \in DOMAIN tasks, Expire(h, k)
  PROVE  SInv'
<1>1. tasks' = tasks \/ tasks' = [tasks EXCEPT ![k] = [tasks[k] EXCEPT !.window = "over"]]
  BY DEF Expire, Put
<1>2. /\ DOMAIN tasks' = DOMAIN tasks
      /\ \A j \in DOMAIN tasks : j # k => tasks'[j] = tasks[j]
      /\ Same(tasks'[k], tasks[k])
      /\ tasks[k].worker # h => tasks'[k] = tasks[k]
  BY <1>1, TaskAt DEF TInv, TypeOK, Expire, Task, Fields, Fitting, Same
<1>3. TimePasses
  BY <1>2 DEF TimePasses, Expire, Same
<1>4. ClaimsHeld'
  BY <1>2 DEF SInv, Stored, ClaimsHeld, Expire
<1>5. QED BY <1>3, <1>4, TimeSafe

LEMMA BackoffSafe ==
  ASSUME TInv, SInv, NEW k \in DOMAIN tasks, BackoffEnds(k)
  PROVE  SInv'
<1>1. /\ DOMAIN tasks' = DOMAIN tasks
      /\ \A j \in DOMAIN tasks : /\ Same(tasks'[j], tasks[j])
                                 /\ tasks'[j].window = tasks[j].window
  BY TaskAt DEF TInv, TypeOK, BackoffEnds, Put, Task, Fields, Fitting, Same
<1>2. TimePasses
  BY <1>1 DEF TimePasses, BackoffEnds
<1>3. ClaimsHeld'
  BY <1>1 DEF SInv, Stored, ClaimsHeld, BackoffEnds, Same
<1>4. QED BY <1>2, <1>3, TimeSafe

(* A crash leaves the stores as they are, and no copies.                   *)
LEMMA CrashSafe ==
  ASSUME SInv, Crash
  PROVE  SInv'
<1>1. Stored'
  BY DEF Crash, SInv, Stored, ClaimsHeld, Counted, OneOpenTask, ClosedMeansDone
<1>2. \A t \in Threads : req'[t] = Idle
  BY DEF Crash
<1>3. \A t \in Threads : Current(req[t])'
  BY <1>2, IdleCurrent DEF Current
<1>4. QED BY <1>1, <1>3 DEF SInv

LEMMA InitSafe == Init => SInv
<1> SUFFICES ASSUME Init PROVE SInv
  OBVIOUS
<1>1. Stored
  BY DEF Init, Stored, ClaimsHeld, Counted, OneOpenTask, ClosedMeansDone
<1>2. \A t \in Threads : Current(req[t])
  BY IdleCurrent DEF Init
<1>3. QED BY <1>1, <1>2 DEF SInv

LEMMA SafeKept == TInv /\ SInv /\ Serial /\ Serial' /\ [Next]_vars => SInv'
<1> SUFFICES ASSUME TInv, SInv, Serial, Serial', [Next]_vars PROVE SInv'
  OBVIOUS
<1>1. ASSUME NEW t \in Threads, Materialising(t) PROVE SInv'
  BY <1>1, DiscoverSafe, CreateTaskSafe DEF Materialising
<1>2. ASSUME NEW t \in Threads, Fetching(t) PROVE SInv'
  BY <1>2, ScanSafe, FetchSafe, ClaimSafe, EndSafe DEF Fetching
<1>3. ASSUME NEW t \in Threads, Pushing(t) PROVE SInv'
  BY <1>3, ScanSafe, DriveSafe, PostSafe, PostFailsSafe, MarkSafe, EndSafe DEF Pushing
<1>4. ASSUME NEW t \in Threads, Reporting(t) PROVE SInv'
  BY <1>4, ReportSafe, UnlockSafe, ExtendSafe, BpmnErrorSafe, FailureSafe, ReadSafe, EndSafe,
     AdvanceSafe, PutAgainSafe, CloseSafe DEF Reporting
<1>5. ASSUME NEW t \in Threads, Resolving(t) PROVE SInv'
  BY <1>5, ResolveSafe, RequeueSafe, EndSafe DEF Resolving
<1>6. ASSUME NEW t \in Threads, Interacting(t) PROVE SInv'
  BY <1>6, UserReadsSafe, UserWritesSafe DEF Interacting
<1>7. CASE UNCHANGED vars
  <2>1. TimePasses /\ ClaimsHeld'
    BY <1>7 DEF vars, TimePasses, Same, SInv, Stored, ClaimsHeld
  <2>2. QED BY <2>1, TimeSafe
<1>8. QED BY <1>1, <1>2, <1>3, <1>4, <1>5, <1>6, <1>7, ExpireSafe, BackoffSafe, CrashSafe
          DEF Next

LEMMA SafeAlways == Spec /\ []Serial => [](TInv /\ SInv)
<1>1. Init => TInv /\ SInv
  BY InitTyped, InitSafe
<1>2. TInv /\ SInv /\ Serial /\ Serial' /\ [Next]_vars => TInv' /\ SInv'
  BY TypeKept, SafeKept
<1>3. QED BY <1>1, <1>2, PTL DEF Spec

(* Polls and drives make one task of an activated step, however many there *)
(* are and wherever one of them stops: materialisation is idempotent as    *)
(* long as requests are handled one after the other (_materialise).        *)
THEOREM Idempotent == Spec /\ []Serial => []OneOpenTask
<1>1. SInv => OneOpenTask
  BY DEF SInv, Stored
<1>2. QED BY <1>1, SafeAlways, PTL

(* Requests one after the other advance a step once: neither a retried     *)
(* report nor a user's completion beside it counts twice (complete).       *)
THEOREM OnlyOnce == Spec /\ []Serial => []AdvancedOnce
<1>1. SInv => AdvancedOnce
  BY DEF SInv, Stored, Counted, AdvancedOnce
<1>2. QED BY <1>1, SafeAlways, PTL

(* Requests one after the other grant no two workers one task: a lock is   *)
(* taken over only when its holder's window is over (fetch_and_lock).      *)
THEOREM Exclusive == Spec /\ []Serial => []ExclusiveClaim
<1>1. SInv => ExclusiveClaim
  BY DEF SInv, Stored, ClaimsHeld, ExclusiveClaim
<1>2. QED BY <1>1, SafeAlways, PTL

(* Wherever the server stops, a closed task is one of a completed step: a  *)
(* report completes the step first (complete).                             *)
THEOREM StepFirst == Spec /\ []Serial => []ClosedMeansDone
<1>1. SInv => ClosedMeansDone
  BY DEF SInv, Stored
<1>2. QED BY <1>1, SafeAlways, PTL
=============================================================================
