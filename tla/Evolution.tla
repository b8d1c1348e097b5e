------------------------------ MODULE Evolution ------------------------------
(***************************************************************************)
(* Changes to running instances: ad-hoc changes of one instance (adhoc.py) *)
(* and the migration onto another released schema (migration.py, M1-M5),   *)
(* beside the engine of module Engine, which goes on with whatever schema  *)
(* and markings they leave.  Nothing here advances an instance: a change   *)
(* only rewrites its schema and its markings.                              *)
(***************************************************************************)
EXTENDS Engine

CONSTANTS
  NewNodes,   \* ids for inserted activities; bounds the insertions
  MaxChanges  \* bound: ad-hoc changes and migrations made

ASSUME NewNodesAssumption == NoNode \notin NewNodes

VARIABLE changes
evars == <<store, call, callers, past, reply, changes>>

Frozen(I) == {n \in DOMAIN I.ns : I.ns[n] \in {"COMPLETED", "RUNNING", "SKIPPED"}}
EdgesIn(S, nodes) == {e \in S.edges : e[1] \in nodes /\ e[2] \in nodes}
Restricted(f, s) == [x \in s |-> f[x]]

-----------------------------------------------------------------------------
(* adhoc_insert_activity and adhoc_delete_node: the variant of the schema. *)
Inserted(S, anchor, next, new) ==
  [S EXCEPT !.order = Append(@, new),
            !.kind = [n \in DOMAIN @ \cup {new} |-> IF n = new THEN "ACTIVITY" ELSE @[n]],
            !.edges = (@ \ {<<anchor, next>>}) \cup {<<anchor, new>>, <<new, next>>}]

(* The dictionary without a key: what follows it moves up.                 *)
Without(order, n) ==
  [k \in 1 .. Len(order) - 1 |-> IF \E j \in 1 .. k : order[j] = n THEN order[k + 1] ELSE order[k]]

Deleted(S, n, prev, next) ==
  LET others == DOMAIN S.kind \ {n}
      elsewhere(a) == a[1] # n
  IN [S EXCEPT !.order = Without(@, n),
               !.kind = Restricted(@, others),
               !.edges = {e \in @ : n \notin {e[1], e[2]}} \cup {<<prev, next>>},
               !.reads = {a \in @ : elsewhere(a)}, !.writes = {a \in @ : elsewhere(a)}]

(* R1 of an insertion: nothing behind the anchor has been reached.         *)
MayInsert_Signalled(S, I, anchor, next) ==
  S.kind[anchor] # "END" /\ Succs(S, anchor) = {next}
MayInsert(S, I, anchor, next) ==
  /\ S.kind[anchor] # "END"
  /\ Succs(S, anchor) = {next}
  /\ I.es[<<anchor, next>>] = "NOT_SIGNALED"
  /\ I.ns[next] = "NOT_ACTIVATED"

(* R1 of a deletion: an activity not reached, with one edge in and one out.*)
MayDelete_Finished(S, I, n) == S.kind[n] = "ACTIVITY"
MayDelete(S, I, n) == S.kind[n] = "ACTIVITY" /\ I.ns[n] = "NOT_ACTIVATED"

Change(I) == changes' = changes + 1 /\ Answer(PutIn(store, I), "ok")

AdhocInsert(id, anchor, next, new) ==
  LET I == store[id]
      S == Effective(I)
      T == Inserted(S, anchor, next, new)
  IN /\ changes < MaxChanges /\ new \notin NodesOf(S)
     /\ MayInsert(S, I, anchor, next) /\ Valid(T, Typed)
     /\ Change([I EXCEPT !.own = <<T>>,
          !.ns = [n \in DOMAIN @ \cup {new} |-> IF n = new THEN "NOT_ACTIVATED" ELSE @[n]],
          !.es = [e \in (DOMAIN @ \ {<<anchor, next>>}) \cup {<<anchor, new>>, <<new, next>>} |->
                    IF new \in {e[1], e[2]} THEN "NOT_SIGNALED" ELSE @[e]]])

AdhocDelete(id, n, prev, next) ==
  LET I == store[id]
      S == Effective(I)
      T == Deleted(S, n, prev, next)
  IN /\ Preds(S, n) = {prev} /\ Succs(S, n) = {next}
     /\ changes < MaxChanges /\ MayDelete(S, I, n) /\ Valid(T, Typed)
     /\ Change([I EXCEPT !.own = <<T>>,
          !.ns = Restricted(@, DOMAIN @ \ {n}),
          !.es = [e \in (DOMAIN @ \ {<<prev, n>>, <<n, next>>}) \cup {<<prev, next>>} |->
                    IF e = <<prev, next>> THEN "NOT_SIGNALED" ELSE @[e]]])

(* A relabelling changes nothing but that the instance has a variant now.  *)
AdhocRename(id, n) ==
  LET I == store[id]
      S == Effective(I)
  IN /\ S.kind[n] \in {"ACTIVITY", "SUBPROCESS"} /\ I.ns[n] = "NOT_ACTIVATED"
     /\ changes < MaxChanges /\ I.own = <<>> /\ Change([I EXCEPT !.own = <<S>>])

-----------------------------------------------------------------------------
(* check_migration.  M1 is that the target is released, which Released     *)
(* gives, and correct.                                                     *)
M1(T) == Valid(T, Typed)

M2(S, T, I) ==
  /\ \A n \in Frozen(I) : n \in NodesOf(T) /\ T.kind[n] = S.kind[n]
  /\ EdgesIn(S, Frozen(I)) = EdgesIn(T, Frozen(I))

M3_RunningOnly(S, T, I) ==
  \A n \in DOMAIN I.ns : I.ns[n] = "RUNNING" =>
    n \in NodesOf(T) /\ T.kind[n] \in {"ACTIVITY", "SUBPROCESS"}
M3(S, T, I) ==
  /\ \A n \in DOMAIN I.ns : I.ns[n] = "COMPLETED" /\ n \in NodesOf(T) =>
       Succs(S, n) = Succs(T, n)
  /\ \A n \in DOMAIN I.ns : I.ns[n] = "RUNNING" =>
       n \in NodesOf(T) /\ T.kind[n] \in {"ACTIVITY", "SUBPROCESS"}

M4(T, I, mapping) ==
  \A r \in T.reads : r[1] \in Frozen(I) => I.data[r[2]] # NoValue \/ mapping[r[2]] # NoValue

M5(I) == I.own = <<>>

Migratable(S, T, I, mapping) ==
  M5(I) /\ M2(S, T, I) /\ M3(S, T, I) /\ M4(T, I, mapping) /\ M1(T)

(* migrate_instance: markings are taken over by node id and edge key.      *)
Migrated(T, name, I, mapping) ==
  LET kept(f, dom, default) == [x \in dom |-> IF x \in DOMAIN f THEN f[x] ELSE default]
  IN [I EXCEPT !.schema = name,
               !.ns = kept(@, NodesOf(T), "NOT_ACTIVATED"),
               !.es = kept(@, T.edges, "NOT_SIGNALED"),
               !.dec = kept(@, NodesOf(T) \cup DOMAIN @, NoNode),
               !.children = kept(@, NodesOf(T) \cup DOMAIN @, 0),
               !.data = Overlay(@, mapping)]

PostMigrate(id, name, mapping) ==
  LET I == store[id] IN
  /\ changes < MaxChanges
  /\ Migratable(Schemas[I.schema], Schemas[name], I, mapping)
  /\ Change(Migrated(Schemas[name], name, I, mapping))

-----------------------------------------------------------------------------
(* A change is one request, made between the calls of the engine.          *)
AdhocChange ==
  /\ call = Idle
  /\ \E id \in DOMAIN store :
       LET S == Effective(store[id]) IN
         \/ \E e \in S.edges, new \in NewNodes : AdhocInsert(id, e[1], e[2], new)
         \/ \E n \in NodesOf(S) : \E prev \in Preds(S, n), next \in Succs(S, n) :
              AdhocDelete(id, n, prev, next)
         \/ \E n \in NodesOf(S) : AdhocRename(id, n)
Migration ==
  /\ call = Idle
  /\ \E id \in DOMAIN store, name \in Released, mapping \in ClientWrites :
       PostMigrate(id, name, mapping)

EngineStep == Next /\ UNCHANGED changes

EInit == Init /\ changes = 0
ESpec == EInit /\ [][EngineStep \/ AdhocChange \/ Migration]_evars

-----------------------------------------------------------------------------
(* A change never rewrites the past: what an instance has finished or is   *)
(* working on keeps its state, its type and its signals ("the past stays   *)
(* producible"; R1: "a node that is already RUNNING/COMPLETED/SKIPPED is   *)
(* frozen"), and finished nodes stay finished.                             *)
HistoryKept ==
  [][\A id \in DOMAIN store :
       LET I == store[id]
           J == store'[id]
       IN /\ \A n \in Frozen(I) :
               /\ n \in DOMAIN J.ns /\ n \in NodesOf(Effective(J))
               /\ Effective(J).kind[n] = Effective(I).kind[n]
               /\ I.ns[n] \in Terminal => J.ns[n] = I.ns[n]
          /\ \A e \in EdgesIn(Effective(I), Frozen(I)) :
               e \in Effective(J).edges /\ (I.es[e] # "NOT_SIGNALED" => J.es[e] = I.es[e])]_evars

(* After any change the markings are ones the engine could have produced:  *)
(* every edge of the schema in force is signalled exactly when its source  *)
(* is finished, and no other marking is left over.                         *)
MarkingsFit ==
  \A id \in DOMAIN store :
    LET I == store[id]
        S == Effective(I)
    IN /\ DOMAIN I.ns = NodesOf(S) /\ DOMAIN I.es = S.edges
       /\ \A e \in S.edges : (I.es[e] # "NOT_SIGNALED") <=> (I.ns[e[1]] \in Terminal)
=============================================================================
