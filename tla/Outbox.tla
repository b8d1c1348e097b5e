---- MODULE Outbox ----
(***************************************************************************)
(* Webhooks and the outbox (outbox.py): a domain event, stored before, is  *)
(* queued for every subscription, one store access each, and the request   *)
(* that emitted it then tries every due entry of the queue.  Nothing else  *)
(* ever dispatches.  The circuit breaker lives in the process's memory.    *)
(*                                                                         *)
(* Clocks are abstracted: due says that next_attempt_at has come, a        *)
(* breaker is open until CoolDown.  All subscriptions want all events (one *)
(* event type), and a push is an entry without a subscription.             *)
(***************************************************************************)
EXTENDS Integers, Sequences, FiniteSets, Functions

CONSTANTS
    Threads,        \* request threads
    Subs,           \* subscriptions that may be made
    HostOf,         \* the host of each subscription's url
    NoSub,          \* subscription_id = "": a push
    MaxAttempts,    \* attempts an event's entry gets (5)
    PushAttempts,   \* attempts a push may get: any retry_max of a binding
    Threshold,      \* consecutive failures that open a host's breaker (5)
    MaxEntries,     \* bound: entries ever queued
    MaxEvents,      \* bound: domain events that have subscribers
    MaxCrashes      \* bound: crashes of the server

Hosts == Range(HostOf)

ASSUME OutboxAssumption ==
    /\ Threads # {} /\ Subs # {} /\ IsFiniteSet(Subs) /\ NoSub \notin Subs /\ DOMAIN HostOf = Subs
    /\ MaxAttempts \in Int /\ PushAttempts \subseteq Int /\ Threshold \in Nat \ {0}
    /\ MaxEntries \in Nat /\ MaxEvents \in Nat /\ MaxCrashes \in Nat

VARIABLES
    subs,       \* the stored subscriptions
    entries,    \* the outbox, in the order of creation
    circuit,    \* per host: consecutive failures, and whether the breaker is open
    req,        \* what each thread is doing
    owed,       \* <<event, subscription>>: events stored while it was subscribed
    posts,      \* how often each entry was sent
    streak,     \* failed sends to each host since the last accepted one, up to Threshold
    log,        \* rows of the delivery log
    crashes
vars == <<subs, entries, circuit, req, owed, posts, streak, log, crashes>>

Idle == [pc |-> "idle"]
Closed == [fails |-> 0, open |-> FALSE]
Events == {p[1] : p \in owed}

Entry(s, h, e, max) == [sub |-> s, host |-> h, event |-> e, state |-> "PENDING",
                        attempts |-> 0, max |-> max, due |-> TRUE]

Init ==
    /\ subs = {} /\ entries = <<>> /\ owed = {} /\ posts = <<>> /\ log = 0 /\ crashes = 0
    /\ circuit = [h \in Hosts |-> Closed] /\ streak = [h \in Hosts |-> 0]
    /\ req = [t \in Threads |-> Idle]

Goto(t, r) == req' = [req EXCEPT ![t] = r]
Queue(entry) ==
    /\ Len(entries) < MaxEntries
    /\ entries' = Append(entries, entry)
    /\ posts' = Append(posts, 0)

(***************************************************************************)
(* Subscriptions.                                                          *)
(***************************************************************************)
Subscribe(s) ==
    /\ s \notin subs
    /\ subs' = subs \cup {s}
    /\ UNCHANGED <<entries, circuit, req, owed, posts, streak, log, crashes>>

Unsubscribe(s) ==
    /\ s \in subs
    /\ subs' = subs \ {s}
    /\ UNCHANGED <<entries, circuit, req, owed, posts, streak, log, crashes>>

(***************************************************************************)
(* _emit_event: a handler has stored its state; it lists the subscriptions *)
(* and queues an entry for each, then dispatches.                          *)
(***************************************************************************)
StoreState(t) ==
    /\ req[t] = Idle /\ subs # {} /\ Cardinality(Events) < MaxEvents
    /\ Len(entries) + Cardinality(Subs) <= MaxEntries
    /\ LET e == Cardinality(Events) + 1
       IN /\ owed' = owed \cup ({e} \X subs)
          /\ Goto(t, [pc |-> "stored", event |-> e])
    /\ UNCHANGED <<subs, entries, circuit, posts, streak, log, crashes>>

ListSubscriptions(t) ==
    /\ req[t].pc = "stored"
    /\ Goto(t, [pc |-> "emit", event |-> req[t].event, todo |-> subs])
    /\ UNCHANGED <<subs, entries, circuit, owed, posts, streak, log, crashes>>

PutEntry(t, s) ==
    /\ req[t].pc = "emit" /\ s \in req[t].todo
    /\ Queue(Entry(s, HostOf[s], req[t].event, MaxAttempts))
    /\ Goto(t, [req[t] EXCEPT !.todo = @ \ {s}])
    /\ UNCHANGED <<subs, circuit, owed, streak, log, crashes>>

(* _push_external: a step's package is queued for its endpoint. *)
Push(t, h, max) ==
    /\ req[t] = Idle
    /\ Queue(Entry(NoSub, h, 0, max))
    /\ Goto(t, [pc |-> "emit", event |-> 0, todo |-> {}])
    /\ UNCHANGED <<subs, circuit, owed, streak, log, crashes>>

(* test_delivery: one synthetic entry, sent at once whatever the breaker says. *)
TestDelivery(t, s) ==
    /\ req[t] = Idle /\ s \in subs
    /\ Queue(Entry(s, HostOf[s], 0, 1))
    /\ LET k == Len(entries) + 1
       IN Goto(t, [pc |-> "post", entry |-> k, copy |-> entries'[k], todo |-> <<>>])
    /\ UNCHANGED <<subs, circuit, owed, streak, log, crashes>>

(***************************************************************************)
(* dispatch_pending works through a copy of the due entries.               *)
(***************************************************************************)
Pending_Dead(entry) == entry.state \in {"PENDING", "FAILED", "DEAD"} /\ entry.due
Pending_FirstOnly(entry) == entry.state = "PENDING" /\ entry.due
Pending(entry) == entry.state \in {"PENDING", "FAILED"} /\ entry.due
Due == [k \in {j \in DOMAIN entries : Pending(entries[j])} |-> entries[k]]

Dispatch(t) ==
    /\ req[t].pc = "emit" /\ req[t].todo = {}
    /\ Goto(t, [pc |-> "dispatch", todo |-> Due])
    /\ UNCHANGED <<subs, entries, circuit, owed, posts, streak, log, crashes>>

(* An event nobody subscribed to queues nothing, and still dispatches. *)
UnheardEvent(t) ==
    /\ req[t] = Idle
    /\ Goto(t, [pc |-> "emit", event |-> 0, todo |-> {}])
    /\ UNCHANGED <<subs, entries, circuit, owed, posts, streak, log, crashes>>

Without(todo, k) == [j \in DOMAIN todo \ {k} |-> todo[j]]

NextEntry(t, k) ==
    /\ req[t].pc = "dispatch" /\ k \in DOMAIN req[t].todo
    /\ LET copy == req[t].todo[k]
           rest == Without(req[t].todo, k)
       IN Goto(t, IF circuit[copy.host].open
                  THEN [req[t] EXCEPT !.todo = rest]
                  ELSE [pc |-> "post", entry |-> k, copy |-> copy, todo |-> rest])
    /\ UNCHANGED <<subs, entries, circuit, owed, posts, streak, log, crashes>>

DispatchEnds(t) ==
    /\ req[t].pc = "dispatch" /\ DOMAIN req[t].todo = {}
    /\ Goto(t, Idle)
    /\ UNCHANGED <<subs, entries, circuit, owed, posts, streak, log, crashes>>

(* _deliver: the POST is answered with 2xx or not, or its answer is lost. *)
UpTo(n) == IF n < Threshold THEN n ELSE Threshold
Post(t, ok) ==
    /\ req[t].pc = "post"
    /\ posts' = [posts EXCEPT ![req[t].entry] = @ + 1]
    /\ streak' = [streak EXCEPT ![req[t].copy.host] = IF ok THEN 0 ELSE UpTo(@ + 1)]
    /\ Goto(t, [pc |-> "store", entry |-> req[t].entry, copy |-> req[t].copy,
                todo |-> req[t].todo, ok |-> ok])
    /\ UNCHANGED <<subs, entries, circuit, owed, log, crashes>>

Outcome(copy, ok) ==
    LET attempt == copy.attempts + 1
    IN [copy EXCEPT !.attempts = attempt,
                    !.state = IF ok THEN "DELIVERED"
                              ELSE IF attempt >= copy.max THEN "DEAD" ELSE "FAILED",
                    !.due = ok \/ attempt >= copy.max]

StoreOutcome_Uncounted(t) ==
    /\ req[t].pc = "store"
    /\ LET outcome == Outcome(req[t].copy, req[t].ok)
       IN entries' = [entries EXCEPT ![req[t].entry] =
                        [outcome EXCEPT !.attempts = IF req[t].ok THEN @ ELSE @ - 1]]
    /\ Goto(t, [pc |-> "record", host |-> req[t].copy.host, ok |-> req[t].ok, todo |-> req[t].todo])
    /\ UNCHANGED <<subs, circuit, owed, posts, streak, log, crashes>>
StoreOutcome(t) ==
    /\ req[t].pc = "store"
    /\ entries' = [entries EXCEPT ![req[t].entry] = Outcome(req[t].copy, req[t].ok)]
    /\ Goto(t, [pc |-> "record", host |-> req[t].copy.host, ok |-> req[t].ok, todo |-> req[t].todo])
    /\ UNCHANGED <<subs, circuit, owed, posts, streak, log, crashes>>

(***************************************************************************)
(* _record_circuit, without a lock: a success drops the host's count; a    *)
(* failure reads the count and then writes it back, one higher (failures   *)
(* are counted up to the threshold, which is all it compares).             *)
(***************************************************************************)
RecordSuccess_NeverReset(t) ==
    /\ req[t].pc = "record" /\ req[t].ok
    /\ circuit' = [circuit EXCEPT ![req[t].host].open = FALSE]
    /\ Goto(t, [pc |-> "log", todo |-> req[t].todo])
    /\ UNCHANGED <<subs, entries, owed, posts, streak, log, crashes>>
RecordSuccess(t) ==
    /\ req[t].pc = "record" /\ req[t].ok
    /\ circuit' = [circuit EXCEPT ![req[t].host] = Closed]
    /\ Goto(t, [pc |-> "log", todo |-> req[t].todo])
    /\ UNCHANGED <<subs, entries, owed, posts, streak, log, crashes>>

ReadFailures(t) ==
    /\ req[t].pc = "record" /\ ~req[t].ok
    /\ Goto(t, [pc |-> "count", host |-> req[t].host, fails |-> circuit[req[t].host].fails,
                todo |-> req[t].todo])
    /\ UNCHANGED <<subs, entries, circuit, owed, posts, streak, log, crashes>>

Failed(n) == [fails |-> UpTo(n + 1), open |-> n + 1 >= Threshold]
RecordFailure(t) ==
    /\ req[t].pc = "count"
    /\ circuit' = [circuit EXCEPT ![req[t].host] = Failed(req[t].fails)]
    /\ Goto(t, [pc |-> "log", todo |-> req[t].todo])
    /\ UNCHANGED <<subs, entries, owed, posts, streak, log, crashes>>

LogDelivery(t) ==
    /\ req[t].pc = "log"
    /\ log' = log + 1
    /\ Goto(t, [pc |-> "dispatch", todo |-> req[t].todo])
    /\ UNCHANGED <<subs, entries, circuit, owed, posts, streak, crashes>>

(***************************************************************************)
(* Time and failure.                                                       *)
(***************************************************************************)
BackoffEnds(k) ==
    /\ k \in DOMAIN entries /\ ~entries[k].due
    /\ entries' = [entries EXCEPT ![k].due = TRUE]
    /\ UNCHANGED <<subs, circuit, req, owed, posts, streak, log, crashes>>

(* The cool-down is over; the failures stay counted, so one more opens it again. *)
CoolDown(h) ==
    /\ circuit[h].open
    /\ circuit' = [circuit EXCEPT ![h].open = FALSE]
    /\ UNCHANGED <<subs, entries, req, owed, posts, streak, log, crashes>>

Crash ==
    /\ crashes < MaxCrashes /\ \E t \in Threads : req[t] # Idle
    /\ crashes' = crashes + 1
    /\ req' = [t \in Threads |-> Idle]
    /\ circuit' = [h \in Hosts |-> Closed]
    /\ UNCHANGED <<subs, entries, owed, posts, streak, log>>

Finishing(t) ==
    \/ ListSubscriptions(t) \/ Dispatch(t) \/ DispatchEnds(t)
    \/ \E s \in Subs : PutEntry(t, s)
    \/ \E k \in DOMAIN entries : NextEntry(t, k)
    \/ \E ok \in BOOLEAN : Post(t, ok)
    \/ StoreOutcome(t) \/ RecordSuccess(t) \/ ReadFailures(t) \/ RecordFailure(t)
    \/ LogDelivery(t)

Next ==
    \/ \E s \in Subs : Subscribe(s) \/ Unsubscribe(s)
    \/ \E t \in Threads : \/ StoreState(t) \/ UnheardEvent(t) \/ Finishing(t)
                          \/ \E h \in Hosts, max \in PushAttempts : Push(t, h, max)
                          \/ \E s \in Subs : TestDelivery(t, s)
    \/ \E k \in DOMAIN entries : BackoffEnds(k)
    \/ \E h \in Hosts : CoolDown(h)
    \/ Crash

Spec == Init /\ [][Next]_vars

(***************************************************************************)
(* Fairness.  The server finishes what it began and clocks run on; that is *)
(* all the code itself provides.  BusySpec adds that requests never cease: *)
(* then and only then are entries tried again.                             *)
(***************************************************************************)
Clocks ==
    /\ \A k \in 1..MaxEntries : WF_vars(BackoffEnds(k))
    /\ \A h \in Hosts : WF_vars(CoolDown(h))
QuietSpec == Spec /\ Clocks /\ \A t \in Threads : WF_vars(Finishing(t))
BusySpec == QuietSpec /\ \A t \in Threads : WF_vars(UnheardEvent(t))

(***************************************************************************)
(* Properties.                                                             *)
(***************************************************************************)
(* The attempt budget binds from above and from below: an entry is never   *)
(* sent more often than its attempts allow (once, where they allow none),  *)
(* but for one send more per crash that lost count, and what is given up   *)
(* has used all of them (_deliver).                                        *)
Allowed(entry) == IF entry.max < 1 THEN 1 ELSE entry.max
AttemptBudget ==
    \A k \in DOMAIN entries :
      /\ posts[k] <= Allowed(entries[k]) + crashes
      /\ entries[k].state = "DEAD" => posts[k] >= entries[k].max

(* What was accepted or given up stays so; no later pass, no test ping and *)
(* no restart sends it again (dispatch_pending).                           *)
SettledStays ==
    [][\A k \in DOMAIN entries :
         entries[k].state \in {"DELIVERED", "DEAD"}
           => entries'[k] = entries[k] /\ posts'[k] = posts[k]]_vars

(* A breaker cuts a host off only after Threshold failures in a row, over  *)
(* all entries, pushes and pings to that host; a ping that got through is  *)
(* excepted until it is recorded (_record_circuit).                        *)
Accepted(r, h) ==
    \/ r.pc = "store" /\ r.ok /\ r.copy.host = h
    \/ r.pc = "record" /\ r.ok /\ r.host = h
BreakerJustified ==
    \A h \in Hosts :
      circuit[h].open => streak[h] >= Threshold \/ \E t \in Threads : Accepted(req[t], h)

(* Every queued entry is at last delivered or dead-lettered (the retry of  *)
(* dispatch_pending, the breaker's cool-down).                             *)
Settles ==
    \A k \in 1..MaxEntries :
      k \in DOMAIN entries ~> (k \in DOMAIN entries /\ entries[k].state \in {"DELIVERED", "DEAD"})
====
