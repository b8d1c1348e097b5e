----------------------------- MODULE OutboxProofs -----------------------------
(***************************************************************************)
(* Theorems about the outbox, for any subscriptions, hosts and attempts.   *)
(***************************************************************************)
EXTENDS Outbox, FiniteSetTheorems, TLAPS

-----------------------------------------------------------------------------
(***************************************************************************)
(* Requests one after the other, by any number of threads: what a pass has *)
(* listed is what is stored, and is pending.                               *)
(***************************************************************************)
Serial == \A t, u \in Threads : t = u \/ req[t] = Idle \/ req[u] = Idle

States == {"PENDING", "FAILED", "DELIVERED", "DEAD"}
Settled(x) == x.state \in {"DELIVERED", "DEAD"}
Entries == [sub : Subs \cup {NoSub}, host : Hosts, event : Nat, state : States,
            attempts : Nat, max : Int, due : BOOLEAN]

(* An entry has attempts left until it is settled, none when it is given up, *)
(* and what is settled never waits.                                          *)
EntryOK(x) ==
  /\ x.attempts <= Allowed(x)
  /\ ~Settled(x) => x.attempts < Allowed(x)
  /\ x.state = "DEAD" => x.attempts >= x.max
  /\ Settled(x) => x.due

Stored ==
  /\ entries \in Seq(Entries) /\ posts \in Seq(Nat) /\ Len(posts) = Len(entries)
  /\ crashes \in Nat /\ DOMAIN req = Threads
  /\ subs \subseteq Subs /\ owed \subseteq Nat \X Subs /\ IsFiniteSet(owed)
  /\ \A k \in DOMAIN entries : EntryOK(entries[k])

Listed(todo) ==
  /\ DOMAIN todo \subseteq DOMAIN entries
  /\ \A k \in DOMAIN todo : todo[k] = entries[k] /\ Pending(entries[k])

Fits(r) ==
  /\ r.pc = "stored" => r.event \in Nat
  /\ r.pc = "emit" => /\ r = [pc |-> "emit", event |-> r.event, todo |-> r.todo]
                      /\ r.event \in Nat /\ r.todo \subseteq Subs
  /\ r.pc = "dispatch" => r = [pc |-> "dispatch", todo |-> r.todo]
  /\ r.pc \in {"dispatch", "post", "store", "record", "count", "log"} => Listed(r.todo)
  /\ r.pc \in {"post", "store"} =>
       /\ r.entry \in DOMAIN entries \ DOMAIN r.todo
       /\ r.copy = entries[r.entry] /\ Pending(r.copy)

(* What was sent is counted, but for what is being sent and what a crash lost. *)
Sent(r, k) == r.pc = "store" /\ r.entry = k
Counted(k, sent) ==
  /\ entries[k].attempts + sent <= posts[k]
  /\ posts[k] <= entries[k].attempts + sent + crashes
Spent ==
  \A k \in DOMAIN entries : Counted(k, IF \E t \in Threads : Sent(req[t], k) THEN 1 ELSE 0)

BInv == Stored /\ Spent /\ \A t \in Threads : Fits(req[t])

Within(r) == \A k \in DOMAIN entries : Counted(k, IF Sent(r, k) THEN 1 ELSE 0)

-----------------------------------------------------------------------------
LEMMA IdleFits == Fits(Idle) /\ Fits(Idle)'
BY DEF Fits, Idle

LEMMA EntryAt ==
  ASSUME Stored, NEW k \in DOMAIN entries
  PROVE  /\ k \in DOMAIN posts /\ posts[k] \in Nat /\ crashes \in Nat
         /\ entries[k] \in Entries /\ EntryOK(entries[k])
         /\ entries[k].attempts \in Nat /\ entries[k].max \in Int
<1>1. DOMAIN posts = DOMAIN entries
  BY DEF Stored
<1>2. entries[k] \in Entries /\ posts[k] \in Nat
  BY <1>1 DEF Stored
<1>3. QED BY <1>1, <1>2 DEF Stored, Entries

LEMMA Alone ==
  ASSUME Serial, Serial', Stored, NEW t \in Threads, NEW r, Goto(t, r),
         req[t].pc # "idle" \/ r.pc # "idle"
  PROVE  /\ req'[t] = r
         /\ \A u \in Threads : u # t => req[u] = Idle /\ req'[u] = Idle
<1>1. \A u \in Threads : req'[u] = IF u = t THEN r ELSE req[u]
  BY DEF Stored, Goto
<1>2. QED BY <1>1 DEF Serial, Idle

(* What the one request goes on with is all there is to look at.           *)
LEMMA Moves ==
  ASSUME Serial, Serial', BInv, Stored', NEW t \in Threads, NEW r, Goto(t, r), Fits(r)',
         req[t].pc # "idle" \/ r.pc # "idle", Within(req[t]) => Within(r)'
  PROVE  BInv'
<1>1. /\ req'[t] = r
      /\ \A u \in Threads : u # t => req[u] = Idle /\ req'[u] = Idle
  BY Alone DEF BInv
<1>2. \A k : ~Sent(Idle, k)
  BY DEF Sent, Idle
<1>3. \A k : (\E u \in Threads : Sent(req[u], k)) <=> Sent(req[t], k)
  BY <1>1, <1>2
<1>4. Within(req[t])
  BY <1>3 DEF BInv, Spent, Within, Counted
<1>5. \A k : (\E u \in Threads : Sent(req'[u], k)) <=> Sent(r, k)
  BY <1>1, <1>2
<1>6. Spent'
  BY <1>4, <1>5 DEF Spent, Within, Sent, Counted
<1>7. \A u \in Threads : Fits(req[u])'
  BY <1>1, IdleFits DEF Fits
<1>8. QED BY <1>6, <1>7 DEF BInv

LEMMA OnlyMoves ==
  ASSUME Serial, Serial', BInv, NEW t \in Threads, NEW r, Goto(t, r), Fits(r),
         req[t].pc # "idle" \/ r.pc # "idle", req[t].pc # "store", r.pc # "store",
         UNCHANGED <<subs, entries, owed, posts, crashes>>
  PROVE  BInv'
<1>1. Stored'
  BY DEF BInv, Stored, Goto
<1>2. Fits(r)'
  BY DEF Fits, Listed
<1>3. Within(req[t]) => Within(r)'
  <2> SUFFICES ASSUME Within(req[t]) PROVE Within(r)'
    OBVIOUS
  <2>1. \A k : ~Sent(req[t], k)
    BY DEF Sent
  <2>2. \A k : ~Sent(r, k)
    BY DEF Sent
  <2>3. QED BY <2>1, <2>2 DEF Within, Sent, Counted
<1>4. QED BY <1>1, <1>2, <1>3, Moves

(* A new entry is behind the others, unsent.                               *)
LEMMA Queued ==
  ASSUME Stored, NEW x \in Entries, x.attempts = 0, EntryOK(x), Queue(x),
         DOMAIN req' = Threads, UNCHANGED <<subs, owed, crashes>>
  PROVE  /\ Stored'
         /\ DOMAIN entries' = DOMAIN entries \cup {Len(entries) + 1}
         /\ Len(entries) + 1 \notin DOMAIN entries
         /\ entries'[Len(entries) + 1] = x
         /\ \A k \in DOMAIN entries : entries'[k] = entries[k]
         /\ \A r : Within(r) /\ ~Sent(r, Len(entries) + 1) => Within(r)'
<1> DEFINE n == Len(entries) + 1
<1>1. /\ entries' \in Seq(Entries) /\ DOMAIN entries' = DOMAIN entries \cup {n}
      /\ n \notin DOMAIN entries /\ entries'[n] = x
      /\ \A k \in DOMAIN entries : entries'[k] = entries[k]
  BY DEF Stored, Queue
<1>2. /\ posts' \in Seq(Nat) /\ Len(posts') = Len(entries') /\ posts'[n] = 0
      /\ \A k \in DOMAIN entries : posts'[k] = posts[k]
  BY DEF Stored, Queue
<1>3. Stored'
  BY <1>1, <1>2 DEF Stored, EntryOK, Settled, Allowed
<1>4. ASSUME NEW r, Within(r), ~Sent(r, n) PROVE Within(r)'
  <2>1. crashes' = crashes /\ crashes \in Nat
    BY DEF Stored
  <2>2. ASSUME NEW k, k = n PROVE Counted(k, IF Sent(r, k) THEN 1 ELSE 0)'
    BY <1>1, <1>2, <1>4, <2>1, <2>2 DEF Counted, Sent
  <2>3. ASSUME NEW k \in DOMAIN entries PROVE Counted(k, IF Sent(r, k) THEN 1 ELSE 0)'
    <3>1. Counted(k, IF Sent(r, k) THEN 1 ELSE 0)
      BY <1>4 DEF Within
    <3>2. entries'[k] = entries[k] /\ posts'[k] = posts[k]
      BY <1>1, <1>2
    <3>3. QED BY <2>1, <3>1, <3>2 DEF Counted, Sent
  <2>4. QED BY <1>1, <2>2, <2>3 DEF Within
<1>5. QED BY <1>1, <1>3, <1>4

-----------------------------------------------------------------------------
LEMMA HostTyped == \A s \in Subs : HostOf[s] \in Hosts
BY OutboxAssumption DEF Hosts, Range

LEMMA StoreStateSafe ==
  ASSUME Serial, Serial', BInv, NEW t \in Threads, StoreState(t)
  PROVE  BInv'
<1> DEFINE e == Cardinality(Events) + 1
<1> PICK r : r = [pc |-> "stored", event |-> e]
  OBVIOUS
<1>1. e \in Nat
  <2>1. [p \in owed |-> p[1]] \in Surjection(owed, Events)
    BY DEF Surjection, Events
  <2>2. IsFiniteSet(owed)
    BY DEF BInv, Stored
  <2>3. IsFiniteSet(Events)
    BY <2>1, <2>2, FS_Surjection
  <2>4. QED BY <2>3, FS_CardinalityType
<1>2. owed' \subseteq Nat \X Subs /\ IsFiniteSet(owed')
  <2>1. IsFiniteSet(subs)
    BY OutboxAssumption, FS_Subset DEF BInv, Stored
  <2>2. IsFiniteSet({e})
    BY FS_Singleton
  <2>3. IsFiniteSet({e} \X subs)
    BY <2>1, <2>2, FS_Product
  <2>4. IsFiniteSet(owed \cup ({e} \X subs))
    BY <2>3, FS_Union DEF BInv, Stored
  <2>5. owed' = owed \cup ({e} \X subs)
    BY DEF StoreState
  <2>6. QED BY <1>1, <2>4, <2>5 DEF BInv, Stored
<1>3. Stored'
  BY <1>2 DEF StoreState, BInv, Stored, Goto
<1>4. Fits(r)'
  BY <1>1 DEF Fits
<1>5. Within(req[t]) => Within(r)'
  BY DEF StoreState, Within, Sent, Idle, Counted
<1>6. QED BY <1>3, <1>4, <1>5, Moves DEF StoreState

LEMMA ListSafe ==
  ASSUME Serial, Serial', BInv, NEW t \in Threads, ListSubscriptions(t)
  PROVE  BInv'
<1>1. Fits([pc |-> "emit", event |-> req[t].event, todo |-> subs])
  BY DEF ListSubscriptions, BInv, Stored, Fits
<1>2. QED BY <1>1, OnlyMoves DEF ListSubscriptions

LEMMA PutEntrySafe ==
  ASSUME Serial, Serial', BInv, NEW t \in Threads, NEW s \in Subs, PutEntry(t, s)
  PROVE  BInv'
<1> DEFINE x == Entry(s, HostOf[s], req[t].event, MaxAttempts)
<1> PICK r : r = [req[t] EXCEPT !.todo = @ \ {s}]
  OBVIOUS
<1>1. /\ req[t] = [pc |-> "emit", event |-> req[t].event, todo |-> req[t].todo]
      /\ req[t].event \in Nat /\ req[t].todo \subseteq Subs /\ Stored /\ req[t].pc = "emit"
  BY DEF PutEntry, BInv, Fits
<1>2. x \in Entries /\ x.attempts = 0 /\ EntryOK(x)
  BY <1>1, OutboxAssumption, HostTyped DEF Entry, Entries, States, EntryOK, Settled, Allowed
<1>3. r = [pc |-> "emit", event |-> req[t].event, todo |-> req[t].todo \ {s}]
  BY <1>1
<1>4. Stored' /\ (Within(r) => Within(r)')
  BY <1>1, <1>2, <1>3, Queued DEF PutEntry, Goto, Stored, Sent
<1>5. Fits(r)' /\ Goto(t, r)
  BY <1>1, <1>3 DEF Fits, PutEntry
<1>6. Within(req[t]) => Within(r)
  BY <1>1, <1>3 DEF Within, Sent
<1>7. QED BY <1>1, <1>4, <1>5, <1>6, Moves

LEMMA PushSafe ==
  ASSUME Serial, Serial', BInv, NEW t \in Threads, NEW h \in Hosts, NEW max \in PushAttempts,
         Push(t, h, max)
  PROVE  BInv'
<1> DEFINE x == Entry(NoSub, h, 0, max)
<1> PICK r : r = [pc |-> "emit", event |-> 0, todo |-> {}]
  OBVIOUS
<1>1. x \in Entries /\ x.attempts = 0 /\ EntryOK(x)
  BY OutboxAssumption DEF Entry, Entries, States, EntryOK, Settled, Allowed
<1>2. Stored' /\ (Within(r) => Within(r)')
  BY <1>1, Queued DEF Push, Goto, BInv, Stored, Sent
<1>3. Fits(r)'
  BY DEF Fits
<1>4. Within(req[t]) => Within(r)
  BY DEF Push, Within, Sent, Idle
<1>5. QED BY <1>2, <1>3, <1>4, Moves DEF Push

LEMMA TestSafe ==
  ASSUME Serial, Serial', BInv, NEW t \in Threads, NEW s \in Subs, TestDelivery(t, s)
  PROVE  BInv'
<1> DEFINE x == Entry(s, HostOf[s], 0, 1)
           n == Len(entries) + 1
<1> PICK r : r = [pc |-> "post", entry |-> n, copy |-> entries'[n], todo |-> <<>>]
  BY Zenon
<1>1. x \in Entries /\ x.attempts = 0 /\ EntryOK(x) /\ Pending(x)
  BY HostTyped DEF Entry, Entries, States, EntryOK, Settled, Pending, Allowed
<1>2. /\ Stored' /\ (Within(r) => Within(r)')
      /\ DOMAIN entries' = DOMAIN entries \cup {n} /\ entries'[n] = x
  BY <1>1, Queued DEF TestDelivery, Goto, BInv, Stored, Sent
<1>3. DOMAIN r.todo = {} /\ r.entry = n /\ r.copy = x /\ r.pc = "post"
  BY <1>2
<1>4. Fits(r)'
  BY <1>1, <1>2, <1>3 DEF Fits, Listed
<1>5. Within(req[t]) => Within(r)
  BY <1>3 DEF TestDelivery, Within, Sent, Idle
<1>6. QED BY <1>2, <1>3, <1>4, <1>5, Moves DEF TestDelivery

-----------------------------------------------------------------------------
LEMMA DispatchSafe ==
  ASSUME Serial, Serial', BInv, NEW t \in Threads, Dispatch(t)
  PROVE  BInv'
<1>1. Listed(Due)
  BY DEF Listed, Due
<1>2. Fits([pc |-> "dispatch", todo |-> Due])
  BY <1>1 DEF Fits
<1>3. QED BY <1>2, OnlyMoves DEF Dispatch

LEMMA UnheardSafe ==
  ASSUME Serial, Serial', BInv, NEW t \in Threads, UnheardEvent(t)
  PROVE  BInv'
<1>1. Fits([pc |-> "emit", event |-> 0, todo |-> {}])
  BY DEF Fits
<1>2. QED BY <1>1, OnlyMoves DEF UnheardEvent, Idle

LEMMA NextEntrySafe ==
  ASSUME Serial, Serial', BInv, NEW t \in Threads, NEW k \in DOMAIN entries, NextEntry(t, k)
  PROVE  BInv'
<1> DEFINE copy == req[t].todo[k]
           rest == Without(req[t].todo, k)
<1>1. /\ req[t] = [pc |-> "dispatch", todo |-> req[t].todo] /\ Listed(req[t].todo)
      /\ k \in DOMAIN req[t].todo /\ req[t].pc = "dispatch"
  BY DEF NextEntry, BInv, Fits
<1>2. /\ DOMAIN rest = DOMAIN req[t].todo \ {k}
      /\ \A j \in DOMAIN rest : rest[j] = req[t].todo[j]
  BY DEF Without
<1>3. Listed(rest)
  BY <1>1, <1>2 DEF Listed
<1>4. Fits([req[t] EXCEPT !.todo = rest])
  BY <1>1, <1>3 DEF Fits
<1>5. Fits([pc |-> "post", entry |-> k, copy |-> copy, todo |-> rest])
  BY <1>1, <1>2, <1>3 DEF Fits, Listed
<1>6. QED BY <1>1, <1>4, <1>5, OnlyMoves DEF NextEntry

LEMMA EndSafe ==
  ASSUME Serial, Serial', BInv, NEW t \in Threads, DispatchEnds(t)
  PROVE  BInv'
BY IdleFits, OnlyMoves DEF DispatchEnds, Idle

LEMMA LogSafe ==
  ASSUME Serial, Serial', BInv, NEW t \in Threads, LogDelivery(t)
  PROVE  BInv'
<1>1. Fits([pc |-> "dispatch", todo |-> req[t].todo])
  BY DEF LogDelivery, BInv, Fits
<1>2. QED BY <1>1, OnlyMoves DEF LogDelivery

LEMMA RecordSafe ==
  ASSUME Serial, Serial', BInv, NEW t \in Threads,
         RecordSuccess(t) \/ ReadFailures(t) \/ RecordFailure(t)
  PROVE  BInv'
<1>1. Listed(req[t].todo)
  BY DEF RecordSuccess, ReadFailures, RecordFailure, BInv, Fits
<1>2. Fits([pc |-> "log", todo |-> req[t].todo])
  BY <1>1 DEF Fits
<1>3. Fits([pc |-> "count", host |-> req[t].host, fails |-> circuit[req[t].host].fails,
            todo |-> req[t].todo])
  BY <1>1 DEF Fits
<1>4. QED BY <1>2, <1>3, OnlyMoves DEF RecordSuccess, ReadFailures, RecordFailure

(* The entry is sent before it is counted.                                 *)
LEMMA PostSafe ==
  ASSUME Serial, Serial', BInv, NEW t \in Threads, NEW ok, Post(t, ok)
  PROVE  BInv'
<1> DEFINE e == req[t].entry
<1> PICK r : r = [pc |-> "store", entry |-> e, copy |-> req[t].copy,
                  todo |-> req[t].todo, ok |-> ok]
  OBVIOUS
<1>1. Stored /\ e \in DOMAIN entries /\ posts' = [posts EXCEPT ![e] = @ + 1] /\ req[t].pc = "post"
  BY DEF Post, BInv, Fits
<1>2. /\ posts' \in Seq(Nat) /\ Len(posts') = Len(posts)
      /\ \A k \in DOMAIN entries : posts'[k] = IF k = e THEN posts[k] + 1 ELSE posts[k]
  BY <1>1, EntryAt DEF Stored
<1>3. Stored'
  BY <1>2 DEF Post, BInv, Stored, Goto
<1>4. Fits(r)'
  BY DEF Post, BInv, Fits, Listed
<1>5. Within(req[t]) => Within(r)'
  <2> SUFFICES ASSUME Within(req[t]), NEW k \in DOMAIN entries
               PROVE  Counted(k, IF Sent(r, k) THEN 1 ELSE 0)'
    BY DEF Within, Post, Sent
  <2>1. posts[k] \in Nat /\ entries[k].attempts \in Nat /\ crashes \in Nat
    BY <1>1, EntryAt
  <2>2. Counted(k, 0)
    BY <1>1 DEF Within, Sent
  <2>3. Sent(r, k)' <=> k = e
    BY DEF Sent
  <2>4. UNCHANGED <<entries, crashes>>
    BY DEF Post
  <2>5. CASE k = e
    <3>1. posts'[k] = posts[k] + 1
      BY <1>2, <2>5
    <3>2. QED BY <2>1, <2>2, <2>3, <2>4, <2>5, <3>1 DEF Counted
  <2>6. CASE k # e
    <3>1. posts'[k] = posts[k]
      BY <1>2, <2>6
    <3>2. QED BY <2>1, <2>2, <2>3, <2>4, <2>6, <3>1 DEF Counted
  <2>7. QED BY <2>5, <2>6
<1>6. QED BY <1>1, <1>3, <1>4, <1>5, Moves DEF Post

(* An attempt is counted; the last one, or an accepted one, settles.       *)
LEMMA OutcomeOK ==
  ASSUME NEW x \in Entries, EntryOK(x), Pending(x), NEW ok
  PROVE  /\ Outcome(x, ok) \in Entries /\ EntryOK(Outcome(x, ok))
         /\ Outcome(x, ok).attempts = x.attempts + 1
<1> DEFINE n == x.attempts + 1
           st == IF ok THEN "DELIVERED" ELSE IF n >= x.max THEN "DEAD" ELSE "FAILED"
           due == ok \/ n >= x.max
<1>1. /\ x.attempts \in Nat /\ x.max \in Int /\ Allowed(x) \in Nat
      /\ x.attempts < Allowed(x) /\ x.max <= Allowed(x)
  BY DEF Entries, EntryOK, Pending, Settled, Allowed
<1>2. n \in Nat /\ n <= Allowed(x) /\ st \in States /\ due \in BOOLEAN
  BY <1>1 DEF States
<1>3. /\ st \in {"DELIVERED", "DEAD"} => due
      /\ st \notin {"DELIVERED", "DEAD"} => n < Allowed(x)
      /\ st = "DEAD" => n >= x.max
  BY <1>1
<1>4. Outcome(x, ok) = [x EXCEPT !.attempts = n, !.state = st, !.due = due]
  BY DEF Outcome
<1> HIDE DEF n, st, due
<1>5. /\ Outcome(x, ok) \in Entries
      /\ Outcome(x, ok).attempts = n /\ Outcome(x, ok).state = st
      /\ Outcome(x, ok).due = due /\ Outcome(x, ok).max = x.max
  BY <1>2, <1>4 DEF Entries
<1>6. Outcome(x, ok).attempts = x.attempts + 1
  BY <1>5 DEF n
<1>7. Allowed(Outcome(x, ok)) = Allowed(x)
  BY <1>5 DEF Allowed
<1>8. QED BY <1>2, <1>3, <1>5, <1>6, <1>7 DEF EntryOK, Settled

LEMMA StoreSafe ==
  ASSUME Serial, Serial', BInv, NEW t \in Threads, StoreOutcome(t)
  PROVE  BInv'
<1> DEFINE e == req[t].entry
           x == Outcome(req[t].copy, req[t].ok)
<1> PICK r : r = [pc |-> "record", host |-> req[t].copy.host, ok |-> req[t].ok,
                  todo |-> req[t].todo]
  OBVIOUS
<1>1. /\ Stored /\ e \in DOMAIN entries \ DOMAIN req[t].todo /\ req[t].pc = "store"
      /\ req[t].copy = entries[e] /\ Pending(entries[e]) /\ Listed(req[t].todo)
      /\ entries' = [entries EXCEPT ![e] = x]
  BY DEF StoreOutcome, BInv, Fits
<1>2. x \in Entries /\ EntryOK(x) /\ x.attempts = entries[e].attempts + 1
  BY <1>1, EntryAt, OutcomeOK
<1>3. /\ entries' \in Seq(Entries) /\ Len(entries') = Len(entries)
      /\ DOMAIN entries' = DOMAIN entries /\ entries'[e] = x
      /\ \A k \in DOMAIN entries : k # e => entries'[k] = entries[k]
  BY <1>1, <1>2 DEF Stored
<1>4. Stored'
  BY <1>1, <1>2, <1>3 DEF Stored, StoreOutcome, Goto, EntryOK, Settled, Allowed
<1>5. Fits(r)'
  BY <1>1, <1>3 DEF Fits, Listed
<1>6. Within(req[t]) => Within(r)'
  <2> SUFFICES ASSUME Within(req[t]), NEW k \in DOMAIN entries
               PROVE  Counted(k, IF Sent(r, k) THEN 1 ELSE 0)'
    BY <1>3 DEF Within, StoreOutcome, Sent
  <2>1. posts[k] \in Nat /\ entries[k].attempts \in Nat /\ crashes \in Nat
    BY <1>1, EntryAt
  <2>2. Counted(k, IF k = e THEN 1 ELSE 0)
    BY <1>1 DEF Within, Sent
  <2>3. ~Sent(r, k)' /\ UNCHANGED <<posts, crashes>>
    BY DEF Sent, StoreOutcome
  <2>4. CASE k = e
    BY <1>2, <1>3, <2>1, <2>2, <2>3, <2>4 DEF Counted
  <2>5. CASE k # e
    BY <1>3, <2>1, <2>2, <2>3, <2>5 DEF Counted
  <2>6. QED BY <2>4, <2>5
<1>7. QED BY <1>1, <1>4, <1>5, <1>6, Moves DEF StoreOutcome

-----------------------------------------------------------------------------
(* A step that is no request's, and leaves the outbox alone.               *)
LEMMA Beside ==
  ASSUME BInv, subs' \subseteq Subs, UNCHANGED <<entries, req, owed, posts, crashes>>
  PROVE  BInv'
BY DEF BInv, Stored, Spent, Fits, Listed, Counted

(* Only an entry that waits has a back-off; what is listed is due.         *)
LEMMA BackoffSafe ==
  ASSUME BInv, NEW k \in DOMAIN entries, BackoffEnds(k)
  PROVE  BInv'
<1> DEFINE x == [entries[k] EXCEPT !.due = TRUE]
<1>1. entries[k] \in Entries /\ EntryOK(entries[k]) /\ entries' = [entries EXCEPT ![k] = x]
  BY EntryAt DEF BInv, BackoffEnds
<1>2. /\ x \in Entries /\ EntryOK(x) /\ x.attempts = entries[k].attempts
      /\ ~Pending(entries[k])
  BY <1>1 DEF Entries, EntryOK, Settled, BackoffEnds, Pending, Allowed
<1>3. /\ entries' \in Seq(Entries) /\ Len(entries') = Len(entries)
      /\ DOMAIN entries' = DOMAIN entries /\ entries'[k] = x
      /\ \A j \in DOMAIN entries : j # k => entries'[j] = entries[j]
  BY <1>1, <1>2 DEF BInv, Stored
<1>4. Stored'
  BY <1>2, <1>3 DEF BInv, Stored, BackoffEnds, EntryOK, Settled, Allowed
<1>5. Spent'
  <2>1. \A j \in DOMAIN entries : entries'[j].attempts = entries[j].attempts
    BY <1>2, <1>3
  <2>2. QED BY <1>3, <2>1 DEF BInv, Spent, BackoffEnds, Counted
<1>6. ASSUME NEW t \in Threads PROVE Fits(req[t])'
  <2>1. Fits(req[t]) /\ req' = req
    BY DEF BInv, BackoffEnds
  <2>2. Listed(req[t].todo) => Listed(req[t].todo)'
    BY <1>2, <1>3, <2>1 DEF Listed
  <2>3. QED BY <1>2, <1>3, <2>1, <2>2 DEF Fits
<1>7. QED BY <1>4, <1>5, <1>6 DEF BInv

LEMMA CrashSafe ==
  ASSUME BInv, Crash
  PROVE  BInv'
<1>1. Stored /\ crashes' = crashes + 1 /\ UNCHANGED <<subs, entries, owed, posts>>
  BY DEF Crash, BInv
<1>2. Stored'
  BY <1>1 DEF Stored, Crash
<1>3. ASSUME NEW k \in DOMAIN entries PROVE Counted(k, 0)'
  <2>1. posts[k] \in Nat /\ entries[k].attempts \in Nat /\ crashes \in Nat
    BY <1>1, EntryAt
  <2>2. Counted(k, 1) \/ Counted(k, 0)
    BY DEF BInv, Spent
  <2>3. QED BY <1>1, <2>1, <2>2 DEF Counted
<1>4. \A t \in Threads : req'[t] = Idle
  BY DEF Crash
<1>5. \A k : ~(\E t \in Threads : Sent(req[t], k))'
  BY <1>4 DEF Sent, Idle
<1>6. Spent'
  BY <1>1, <1>3, <1>5 DEF Spent
<1>7. \A t \in Threads : Fits(req[t])'
  BY <1>4, IdleFits DEF Fits
<1>8. QED BY <1>2, <1>6, <1>7 DEF BInv

LEMMA BInit == Init => BInv
<1> SUFFICES ASSUME Init PROVE BInv
  OBVIOUS
<1>1. Stored
  BY FS_EmptySet DEF Init, Stored
<1>2. Spent
  BY DEF Init, Spent
<1>3. \A t \in Threads : Fits(req[t])
  BY IdleFits DEF Init
<1>4. QED BY <1>1, <1>2, <1>3 DEF BInv

LEMMA BStep == BInv /\ Serial /\ Serial' /\ [Next]_vars => BInv'
<1> SUFFICES ASSUME BInv, Serial, Serial', [Next]_vars PROVE BInv'
  OBVIOUS
<1>1. ASSUME NEW s \in Subs, Subscribe(s) \/ Unsubscribe(s) PROVE BInv'
  BY <1>1, Beside DEF Subscribe, Unsubscribe, BInv, Stored
<1>2. ASSUME NEW h \in Hosts, CoolDown(h) PROVE BInv'
  BY <1>2, Beside DEF CoolDown, BInv, Stored
<1>3. CASE UNCHANGED vars
  BY <1>3, Beside DEF vars, BInv, Stored
<1>4. ASSUME NEW t \in Threads, Finishing(t) PROVE BInv'
  BY <1>4, ListSafe, DispatchSafe, EndSafe, PutEntrySafe, NextEntrySafe, PostSafe, StoreSafe,
     RecordSafe, LogSafe DEF Finishing
<1>5. ASSUME NEW t \in Threads,
             \/ StoreState(t) \/ UnheardEvent(t)
             \/ \E h \in Hosts, max \in PushAttempts : Push(t, h, max)
             \/ \E s \in Subs : TestDelivery(t, s)
      PROVE BInv'
  BY <1>5, StoreStateSafe, UnheardSafe, PushSafe, TestSafe
<1>6. QED BY <1>1, <1>2, <1>3, <1>4, <1>5, BackoffSafe, CrashSafe DEF Next

LEMMA BAlways == Spec /\ []Serial => []BInv
BY BInit, BStep, PTL DEF Spec

(* As long as requests are handled one after the other, no entry is sent   *)
(* more often than its attempts allow, and once more for each crash        *)
(* between the sending and its count; and an entry that is given up was    *)
(* sent as often as its attempts allow, whatever crashed (_deliver).       *)
THEOREM BudgetBinds == Spec /\ []Serial => []AttemptBudget
<1>1. BInv => AttemptBudget
  <2> SUFFICES ASSUME BInv, NEW k \in DOMAIN entries
               PROVE  /\ posts[k] <= Allowed(entries[k]) + crashes
                      /\ entries[k].state = "DEAD" => posts[k] >= entries[k].max
    BY DEF AttemptBudget
  <2>1. /\ posts[k] \in Nat /\ entries[k].attempts \in Nat /\ entries[k].max \in Int
        /\ Allowed(entries[k]) \in Nat /\ crashes \in Nat /\ EntryOK(entries[k])
    BY EntryAt DEF BInv, Allowed
  <2>2. CASE \E t \in Threads : Sent(req[t], k)
    <3>1. Pending(entries[k])
      BY <2>2 DEF BInv, Fits, Sent
    <3>2. entries[k].attempts < Allowed(entries[k]) /\ entries[k].state # "DEAD"
      BY <2>1, <3>1 DEF Pending, EntryOK, Settled
    <3>3. Counted(k, 1)
      BY <2>2 DEF BInv, Spent
    <3>4. QED BY <2>1, <3>2, <3>3 DEF Counted
  <2>3. CASE ~\E t \in Threads : Sent(req[t], k)
    <3>1. Counted(k, 0)
      BY <2>3 DEF BInv, Spent
    <3>2. QED BY <2>1, <3>1 DEF EntryOK, Counted
  <2>4. QED BY <2>2, <2>3
<1>2. QED BY <1>1, BAlways, PTL

(* What a step of any kind leaves of a settled entry: all of it.           *)
LEMMA SettledStep ==
  ASSUME BInv, [Next]_vars, NEW k \in DOMAIN entries, Settled(entries[k])
  PROVE  entries'[k] = entries[k] /\ posts'[k] = posts[k]
<1>1. entries[k].due /\ ~Pending(entries[k]) /\ Stored
  BY EntryAt DEF BInv, EntryOK, Settled, Pending
<1>2. ASSUME NEW x, Queue(x) PROVE entries'[k] = entries[k] /\ posts'[k] = posts[k]
  BY <1>1, <1>2 DEF Queue, Stored
<1>3. ASSUME NEW t \in Threads, NEW ok, Post(t, ok)
      PROVE  entries'[k] = entries[k] /\ posts'[k] = posts[k]
  <2>1. req[t].entry # k
    BY <1>1, <1>3 DEF Post, BInv, Fits
  <2>2. QED BY <1>1, <1>3, <2>1, EntryAt DEF Post
<1>4. ASSUME NEW t \in Threads, StoreOutcome(t)
      PROVE  entries'[k] = entries[k] /\ posts'[k] = posts[k]
  <2>1. req[t].entry # k
    BY <1>1, <1>4 DEF StoreOutcome, BInv, Fits
  <2>2. QED BY <1>1, <1>4, <2>1 DEF StoreOutcome, Stored
<1>5. ASSUME NEW j \in DOMAIN entries, BackoffEnds(j)
      PROVE  entries'[k] = entries[k] /\ posts'[k] = posts[k]
  BY <1>1, <1>5 DEF BackoffEnds, Stored
<1>6. CASE UNCHANGED <<entries, posts>>
  BY <1>6
<1>7. QED
  BY <1>2, <1>3, <1>4, <1>5, <1>6
     DEF Next, vars, Subscribe, Unsubscribe, StoreState, UnheardEvent, Finishing, Push,
         TestDelivery, ListSubscriptions, Dispatch, DispatchEnds, PutEntry, NextEntry,
         RecordSuccess, ReadFailures, RecordFailure, LogDelivery, CoolDown, Crash

(* As long as requests are handled one after the other, an entry that was  *)
(* accepted or given up is never touched or sent again (dispatch_pending). *)
THEOREM SettledForGood == Spec /\ []Serial => SettledStays
<1>1. BInv /\ [Next]_vars =>
        \A k \in DOMAIN entries :
          entries[k].state \in {"DELIVERED", "DEAD"}
            => entries'[k] = entries[k] /\ posts'[k] = posts[k]
  BY SettledStep DEF Settled
<1>2. QED BY <1>1, BAlways, PTL DEF Spec, SettledStays

-----------------------------------------------------------------------------
(***************************************************************************)
(* The breaker, requests one after the other: what a request has read of a *)
(* host's count is still the count, and each failure that is counted or    *)
(* about to be is one of the streak.                                       *)
(***************************************************************************)
Refused(r, h) ==
  \/ r.pc = "store" /\ ~r.ok /\ r.copy.host = h
  \/ r.pc = "record" /\ ~r.ok /\ r.host = h
  \/ r.pc = "count" /\ r.host = h

Reckoned(r) ==
  \A h \in Hosts :
    /\ Accepted(r, h) \/ circuit[h].fails <= streak[h]
    /\ Refused(r, h) => UpTo(circuit[h].fails + 1) <= streak[h]
    /\ r.pc = "count" /\ r.host = h => r.fails = circuit[h].fails

CircuitOK ==
  /\ circuit \in [Hosts -> [fails : 0 .. Threshold, open : BOOLEAN]]
  /\ streak \in [Hosts -> 0 .. Threshold]
  /\ \A h \in Hosts : circuit[h].open => circuit[h].fails = Threshold

BreakerInv ==
  /\ CircuitOK
  /\ \A h \in Hosts :
       (\E t \in Threads : Accepted(req[t], h)) \/ circuit[h].fails <= streak[h]
  /\ \A h \in Hosts, t \in Threads :
       /\ Refused(req[t], h) => UpTo(circuit[h].fails + 1) <= streak[h]
       /\ req[t].pc = "count" /\ req[t].host = h => req[t].fails = circuit[h].fails

-----------------------------------------------------------------------------
LEMMA UpToOK ==
  ASSUME NEW n \in 0 .. Threshold
  PROVE  /\ UpTo(n + 1) \in 0 .. Threshold
         /\ \A m \in 0 .. Threshold : n <= m => UpTo(n + 1) <= UpTo(m + 1)
         /\ n + 1 >= Threshold => UpTo(n + 1) = Threshold
BY OutboxAssumption DEF UpTo

LEMMA FailedOK ==
  ASSUME NEW n \in 0 .. Threshold
  PROVE  /\ Failed(n) \in [fails : 0 .. Threshold, open : BOOLEAN]
         /\ Failed(n).fails = UpTo(n + 1)
         /\ Failed(n).open => UpTo(n + 1) = Threshold
<1>1. (n + 1 >= Threshold) \in BOOLEAN
  OBVIOUS
<1>2. QED BY <1>1, UpToOK DEF Failed

LEMMA BreakerInit == Init => BreakerInv
BY OutboxAssumption DEF Init, BreakerInv, CircuitOK, Closed, Idle, Refused

(* The one request that is under way is all there is to look at.           *)
LEMMA Reckons ==
  ASSUME Serial, Serial', BInv, BreakerInv, NEW t \in Threads, NEW r, Goto(t, r),
         req[t].pc # "idle" \/ r.pc # "idle", CircuitOK', Reckoned(req[t]) => Reckoned(r)'
  PROVE  BreakerInv'
<1>1. /\ req'[t] = r
      /\ \A u \in Threads : u # t => req[u] = Idle /\ req'[u] = Idle
  BY Alone DEF BInv
<1>2. \A h : ~Accepted(Idle, h) /\ ~Refused(Idle, h) /\ Idle.pc # "count"
  BY DEF Accepted, Refused, Idle
<1>3. Reckoned(req[t])
  BY <1>1, <1>2 DEF BreakerInv, Reckoned
<1>4. Reckoned(r)'
  BY <1>3
<1>5. ASSUME NEW h \in Hosts
      PROVE  /\ (\E u \in Threads : Accepted(req'[u], h)) \/ circuit'[h].fails <= streak'[h]
             /\ \A u \in Threads :
                  /\ Refused(req'[u], h) => UpTo(circuit'[h].fails + 1) <= streak'[h]
                  /\ req'[u].pc = "count" /\ req'[u].host = h => req'[u].fails = circuit'[h].fails
  BY <1>1, <1>2, <1>4 DEF Reckoned, Accepted, Refused, UpTo
<1>6. QED BY <1>5 DEF BreakerInv, Accepted, Refused, UpTo

(* A step of a request that neither sends nor records.                     *)
LEMMA BreakerKept ==
  ASSUME Serial, Serial', BInv, BreakerInv, NEW t \in Threads, NEW r, Goto(t, r),
         req[t].pc # "idle" \/ r.pc # "idle", UNCHANGED <<circuit, streak>>,
         req[t].pc \notin {"store", "record", "count"}, r.pc \notin {"store", "record", "count"}
  PROVE  BreakerInv'
<1>1. CircuitOK'
  BY DEF BreakerInv, CircuitOK
<1>2. Reckoned(req[t]) => Reckoned(r)'
  BY DEF Reckoned, Accepted, Refused
<1>3. QED BY <1>1, <1>2, Reckons

LEMMA BreakerPost ==
  ASSUME Serial, Serial', BInv, BreakerInv, NEW t \in Threads, NEW ok \in BOOLEAN, Post(t, ok)
  PROVE  BreakerInv'
<1> DEFINE g == req[t].copy.host
<1> PICK r : r = [pc |-> "store", entry |-> req[t].entry, copy |-> req[t].copy,
                  todo |-> req[t].todo, ok |-> ok]
  OBVIOUS
<1>1. /\ streak' = [streak EXCEPT ![g] = IF ok THEN 0 ELSE UpTo(@ + 1)] /\ circuit' = circuit
      /\ req[t].pc = "post"
  BY DEF Post
<1>2. ASSUME NEW h \in Hosts
      PROVE  /\ h = g => streak'[h] = IF ok THEN 0 ELSE UpTo(streak[h] + 1)
             /\ h # g => streak'[h] = streak[h]
             /\ streak[h] \in 0 .. Threshold /\ circuit[h].fails \in 0 .. Threshold
             /\ streak'[h] \in 0 .. Threshold
  BY <1>1, OutboxAssumption, UpToOK DEF BreakerInv, CircuitOK
<1>3. CircuitOK'
  BY <1>1, <1>2 DEF BreakerInv, CircuitOK
<1>4. Reckoned(req[t]) => Reckoned(r)'
  <2> SUFFICES ASSUME Reckoned(req[t]), NEW h \in Hosts
               PROVE  /\ Accepted(r, h) \/ circuit'[h].fails <= streak'[h]
                      /\ Refused(r, h) => UpTo(circuit'[h].fails + 1) <= streak'[h]
    BY DEF Reckoned, Accepted, Refused, UpTo
  <2>1. circuit[h].fails <= streak[h]
    BY <1>1 DEF Reckoned, Accepted
  <2>2. CASE h = g /\ ok
    BY <2>2 DEF Accepted, Refused
  <2>3. CASE h = g /\ ~ok
    <3>1. UpTo(circuit[h].fails + 1) <= streak'[h] /\ circuit[h].fails <= UpTo(circuit[h].fails + 1)
      BY <1>2, <2>1, <2>3, UpToOK, OutboxAssumption DEF UpTo
    <3>2. UpTo(circuit[h].fails + 1) \in 0 .. Threshold
      BY <1>2, UpToOK
    <3>3. QED BY <1>1, <1>2, <3>1, <3>2
  <2>4. CASE h # g
    BY <1>1, <1>2, <2>1, <2>4 DEF Refused
  <2>5. QED BY <2>2, <2>3, <2>4
<1>5. QED BY <1>1, <1>3, <1>4, Reckons DEF Post

LEMMA BreakerStore ==
  ASSUME Serial, Serial', BInv, BreakerInv, NEW t \in Threads, StoreOutcome(t)
  PROVE  BreakerInv'
<1> PICK r : r = [pc |-> "record", host |-> req[t].copy.host, ok |-> req[t].ok,
                  todo |-> req[t].todo]
  OBVIOUS
<1>1. req[t].pc = "store" /\ UNCHANGED <<circuit, streak>>
  BY DEF StoreOutcome
<1>2. CircuitOK'
  BY <1>1 DEF BreakerInv, CircuitOK
<1>3. \A h : (Accepted(r, h) <=> Accepted(req[t], h)) /\ (Refused(r, h) <=> Refused(req[t], h))
  BY <1>1 DEF Accepted, Refused
<1>4. Reckoned(req[t]) => Reckoned(r)'
  BY <1>1, <1>3 DEF Reckoned, Accepted, Refused, UpTo
<1>5. QED BY <1>1, <1>2, <1>4, Reckons DEF StoreOutcome

LEMMA BreakerRead ==
  ASSUME Serial, Serial', BInv, BreakerInv, NEW t \in Threads, ReadFailures(t)
  PROVE  BreakerInv'
<1> PICK r : r = [pc |-> "count", host |-> req[t].host, fails |-> circuit[req[t].host].fails,
                  todo |-> req[t].todo]
  OBVIOUS
<1>1. req[t].pc = "record" /\ ~req[t].ok /\ UNCHANGED <<circuit, streak>>
  BY DEF ReadFailures
<1>2. CircuitOK'
  BY <1>1 DEF BreakerInv, CircuitOK
<1>3. \A h : ~Accepted(req[t], h) /\ (Refused(r, h) <=> Refused(req[t], h))
  BY <1>1 DEF Accepted, Refused
<1>4. Reckoned(req[t]) => Reckoned(r)'
  BY <1>1, <1>3 DEF Reckoned, Accepted, Refused, UpTo
<1>5. QED BY <1>1, <1>2, <1>4, Reckons DEF ReadFailures

LEMMA BreakerSuccess ==
  ASSUME Serial, Serial', BInv, BreakerInv, NEW t \in Threads, RecordSuccess(t)
  PROVE  BreakerInv'
<1> DEFINE g == req[t].host
<1> PICK r : r = [pc |-> "log", todo |-> req[t].todo]
  OBVIOUS
<1>1. /\ req[t].pc = "record" /\ req[t].ok /\ streak' = streak
      /\ circuit' = [circuit EXCEPT ![g] = Closed]
  BY DEF RecordSuccess
<1>2. ASSUME NEW h \in Hosts
      PROVE  circuit'[h] = IF h = g THEN Closed ELSE circuit[h]
  BY <1>1 DEF BreakerInv, CircuitOK
<1>3. Closed \in [fails : 0 .. Threshold, open : BOOLEAN] /\ Closed.fails = 0 /\ ~Closed.open
  BY OutboxAssumption DEF Closed
<1>4. CircuitOK'
  BY <1>1, <1>2, <1>3 DEF BreakerInv, CircuitOK
<1>5. Reckoned(req[t]) => Reckoned(r)'
  <2> SUFFICES ASSUME Reckoned(req[t]), NEW h \in Hosts
               PROVE  circuit'[h].fails <= streak'[h]
    BY DEF Reckoned, Refused
  <2>1. h # g => circuit[h].fails <= streak[h]
    BY <1>1 DEF Reckoned, Accepted
  <2>2. 0 <= streak[h]
    BY OutboxAssumption DEF BreakerInv, CircuitOK
  <2>3. QED BY <1>1, <1>2, <1>3, <2>1, <2>2
<1>6. QED BY <1>1, <1>4, <1>5, Reckons DEF RecordSuccess

LEMMA BreakerFailure ==
  ASSUME Serial, Serial', BInv, BreakerInv, NEW t \in Threads, RecordFailure(t)
  PROVE  BreakerInv'
<1> DEFINE g == req[t].host
<1> PICK r : r = [pc |-> "log", todo |-> req[t].todo]
  OBVIOUS
<1>1. /\ req[t].pc = "count" /\ streak' = streak
      /\ circuit' = [circuit EXCEPT ![g] = Failed(req[t].fails)]
  BY DEF RecordFailure
<1>2. ASSUME NEW h \in Hosts
      PROVE  circuit'[h] = IF h = g THEN Failed(circuit[h].fails) ELSE circuit[h]
  BY <1>1 DEF BreakerInv, CircuitOK
<1>3. ASSUME NEW h \in Hosts
      PROVE  /\ Failed(circuit[h].fails) \in [fails : 0 .. Threshold, open : BOOLEAN]
             /\ Failed(circuit[h].fails).fails = UpTo(circuit[h].fails + 1)
             /\ Failed(circuit[h].fails).open => UpTo(circuit[h].fails + 1) = Threshold
  <2>1. circuit[h].fails \in 0 .. Threshold
    BY DEF BreakerInv, CircuitOK
  <2>2. QED BY <2>1, FailedOK
<1>4. CircuitOK'
  <2>1. DOMAIN circuit' = Hosts /\ UNCHANGED streak
    BY <1>1 DEF BreakerInv, CircuitOK
  <2>2. ASSUME NEW h \in Hosts
        PROVE  /\ circuit'[h] \in [fails : 0 .. Threshold, open : BOOLEAN]
               /\ circuit'[h].open => circuit'[h].fails = Threshold
    BY <1>2, <1>3 DEF BreakerInv, CircuitOK
  <2>3. circuit' \in [Hosts -> [fails : 0 .. Threshold, open : BOOLEAN]]
    BY <1>1, <2>1, <2>2 DEF BreakerInv, CircuitOK
  <2>4. QED BY <2>1, <2>2, <2>3 DEF BreakerInv, CircuitOK
<1>5. Reckoned(req[t]) => Reckoned(r)'
  <2> SUFFICES ASSUME Reckoned(req[t]), NEW h \in Hosts
               PROVE  circuit'[h].fails <= streak'[h]
    BY DEF Reckoned, Refused
  <2>1. CASE h = g
    BY <1>1, <1>2, <1>3, <2>1 DEF Reckoned, Refused
  <2>2. CASE h # g
    BY <1>1, <1>2, <2>2 DEF Reckoned, Accepted
  <2>3. QED BY <2>1, <2>2
<1>6. QED BY <1>1, <1>4, <1>5, Reckons DEF RecordFailure

LEMMA BreakerCools ==
  ASSUME BreakerInv, NEW g \in Hosts, CoolDown(g)
  PROVE  BreakerInv'
<1>1. ASSUME NEW h \in Hosts
      PROVE  /\ circuit'[h] \in [fails : 0 .. Threshold, open : BOOLEAN]
             /\ circuit'[h].fails = circuit[h].fails
             /\ circuit'[h].open => circuit[h].open
  BY DEF BreakerInv, CircuitOK, CoolDown
<1>2. UNCHANGED <<req, streak>> /\ DOMAIN circuit' = Hosts
      /\ circuit' \in [Hosts -> [fails : 0 .. Threshold, open : BOOLEAN]]
  BY DEF BreakerInv, CircuitOK, CoolDown
<1>3. CircuitOK'
  BY <1>1, <1>2 DEF BreakerInv, CircuitOK
<1>4. QED BY <1>1, <1>2, <1>3 DEF BreakerInv, Accepted, Refused, UpTo

LEMMA BreakerCrash ==
  ASSUME BInv, BreakerInv, Crash
  PROVE  BreakerInv'
<1>1. \A t \in Threads : req'[t] = Idle
  BY DEF Crash
<1>2. circuit' = [h \in Hosts |-> Closed] /\ streak' = streak
  BY DEF Crash
<1>3. QED BY <1>1, <1>2, OutboxAssumption DEF BreakerInv, CircuitOK, Closed, Idle, Refused

LEMMA BreakerStep == BInv /\ BreakerInv /\ Serial /\ Serial' /\ [Next]_vars => BreakerInv'
<1> SUFFICES ASSUME BInv, BreakerInv, Serial, Serial', [Next]_vars PROVE BreakerInv'
  OBVIOUS
<1>1. CASE UNCHANGED <<circuit, streak, req>>
  BY <1>1 DEF BreakerInv, CircuitOK, Accepted, Refused, UpTo
<1>2. ASSUME NEW t \in Threads,
             \/ StoreState(t) \/ ListSubscriptions(t) \/ Dispatch(t) \/ UnheardEvent(t)
             \/ DispatchEnds(t) \/ LogDelivery(t)
             \/ \E h \in Hosts, max \in PushAttempts : Push(t, h, max)
             \/ \E s \in Subs : PutEntry(t, s) \/ TestDelivery(t, s)
             \/ \E k \in DOMAIN entries : NextEntry(t, k)
      PROVE  BreakerInv'
  <2>1. CASE \E s \in Subs : PutEntry(t, s)
    <3>1. PICK s \in Subs : PutEntry(t, s)
      BY <2>1
    <3>2. PICK r : r = [req[t] EXCEPT !.todo = @ \ {s}]
      OBVIOUS
    <3>3. r.pc = "emit"
      BY <3>1, <3>2 DEF PutEntry, BInv, Fits
    <3>4. QED BY <3>1, <3>2, <3>3, BreakerKept DEF PutEntry
  <2>2. CASE \E k \in DOMAIN entries : NextEntry(t, k)
    <3>1. PICK k \in DOMAIN entries : NextEntry(t, k)
      BY <2>2
    <3> DEFINE rest == Without(req[t].todo, k)
               skip == [req[t] EXCEPT !.todo = rest]
               send == [pc |-> "post", entry |-> k, copy |-> req[t].todo[k], todo |-> rest]
    <3>2. /\ Goto(t, skip) \/ Goto(t, send)
          /\ req[t].pc = "dispatch" /\ UNCHANGED <<circuit, streak>>
      BY <3>1 DEF NextEntry
    <3>3. skip.pc = "dispatch" /\ send.pc = "post"
      BY <3>2 DEF BInv, Fits
    <3> HIDE DEF skip, send
    <3>4. QED BY <3>2, <3>3, BreakerKept
  <2>3. CASE StoreState(t)
    BY <2>3, BreakerKept DEF StoreState, Idle
  <2>4. CASE \/ UnheardEvent(t) \/ \E h \in Hosts, max \in PushAttempts : Push(t, h, max)
             \/ \E s \in Subs : TestDelivery(t, s)
    BY <2>4, BreakerKept DEF UnheardEvent, Push, TestDelivery, Idle
  <2>5. CASE ListSubscriptions(t) \/ Dispatch(t) \/ DispatchEnds(t) \/ LogDelivery(t)
    BY <2>5, BreakerKept DEF ListSubscriptions, Dispatch, DispatchEnds, LogDelivery, Idle
  <2>6. QED BY <1>2, <2>1, <2>2, <2>3, <2>4, <2>5
<1>3. ASSUME NEW t \in Threads,
             \/ \E ok \in BOOLEAN : Post(t, ok)
             \/ StoreOutcome(t) \/ RecordSuccess(t) \/ ReadFailures(t) \/ RecordFailure(t)
      PROVE  BreakerInv'
  BY <1>3, BreakerPost, BreakerStore, BreakerSuccess, BreakerRead, BreakerFailure
<1>4. QED
  BY <1>1, <1>2, <1>3, BreakerCools, BreakerCrash
     DEF Next, vars, Subscribe, Unsubscribe, Finishing, BackoffEnds

(* As long as requests are handled one after the other, a host is cut off  *)
(* only behind Threshold failed sends in a row, of any entries: a success  *)
(* drops what was counted, a restart forgets failures and never invents    *)
(* one, and a crash between the store of an outcome and its count or       *)
(* between the reading of the count and its writing invents none either    *)
(* (_record_circuit).                                                      *)
THEOREM BreakerEarned == Spec /\ []Serial => []BreakerJustified
<1>1. BreakerInv => BreakerJustified
  <2> SUFFICES ASSUME BreakerInv, NEW h \in Hosts, circuit[h].open,
                      ~\E t \in Threads : Accepted(req[t], h)
               PROVE  streak[h] >= Threshold
    BY DEF BreakerJustified
  <2>1. circuit[h].fails = Threshold /\ circuit[h].fails <= streak[h] /\ streak[h] \in 0 .. Threshold
    BY DEF BreakerInv, CircuitOK
  <2>2. QED BY <2>1, OutboxAssumption
<1>2. QED BY <1>1, BAlways, BreakerInit, BreakerStep, PTL DEF Spec
=============================================================================
