----------------------------- MODULE Annotations -----------------------------
(***************************************************************************)
(* The other requests of the modelling side: what is declared in a schema  *)
(* and attached to its nodes and elements, and its follow-ups.  Each is a  *)
(* whole request as in module SchemaOps, checked by all rules; the edits   *)
(* of that module go on around them, so that what was right when it was    *)
(* attached meets nodes that move, change their type and disappear.        *)
(***************************************************************************)
EXTENDS SchemaOps

CONSTANTS
  Connectors, Templates,   \* what clients declare; Automatic of the templates
  Durations, Deadlines     \* the times clients give, and NoDeadline

VARIABLE topic   \* bound: the group of requests a behaviour's clients ask for

ASSUME AnnotationAssumption ==
  /\ Automatic \subseteq Templates
  /\ Durations \subseteq Nat /\ Deadlines \subseteq Nat \cup {NoDeadline}

Activities(id) == NodesOfKind(stored[id], "ACTIVITY")
Steps(id) == Activities(id) \cup NodesOfKind(stored[id], "SUBPROCESS")

-----------------------------------------------------------------------------
(* Data.                                                                   *)

AddDataElement(id) ==
  \E x \in Elems \ stored[id].elems : Change(id, [stored[id] EXCEPT !.elems = @ \cup {x}])

RegisterConnector(id) ==
  \E c \in Connectors \ stored[id].conns : Change(id, [stored[id] EXCEPT !.conns = @ \cup {c}])

(* Element x is from now on EXTERNAL, by one query of this kind.           *)
Queried(S, x, kind, c, from) ==
  [S EXCEPT !.query = With(@, x, [kind |-> kind, conn |-> c, from |-> from])]

BindExternalData(id) ==
  \E x \in stored[id].elems, c \in stored[id].conns, key \in stored[id].elems :
    Change(id, Queried(stored[id], x, "record", c, {key}))

BindSqlSelect(id) ==
  \E x \in stored[id].elems, c \in stored[id].conns, from \in SUBSET stored[id].elems :
    Change(id, Queried(stored[id], x, "select", c, from))

(* A write-back has a filter at least, on the column that tells rows apart. *)
BindSqlWrite(id) ==
  \E x \in stored[id].elems, c \in stored[id].conns, from \in (SUBSET stored[id].elems) \ {{}} :
    Change(id, Queried(stored[id], x, "write", c, from))

-----------------------------------------------------------------------------
(* Services and staff.                                                     *)

AddActivityTemplate(id) ==
  \E t \in Templates \ stored[id].tmpls : Change(id, [stored[id] EXCEPT !.tmpls = @ \cup {t}])

(* assign_service: a new binding, whatever drove the step before; its      *)
(* template says whether it is automatic, or else the client.              *)
AssignService(id) ==
  \E n \in Activities(id), t \in stored[id].tmpls \cup {NoTemplate}, asked \in BOOLEAN :
    LET auto == IF t = NoTemplate THEN asked ELSE t \in Automatic
        b == [auto |-> auto, drive |-> "none", tmpl |-> t]
    IN Change(id, [stored[id] EXCEPT !.services = With(@, n, b)])

(* set_automation: a driven step is automatic, and stays so when nobody    *)
(* drives it any more.                                                     *)
SetAutomation(id) ==
  \E n \in Activities(id) \cap DOMAIN stored[id].services, drive \in {"none", "pull", "push"} :
    Change(id, [stored[id] EXCEPT !.services[n] =
                  [@ EXCEPT !.drive = drive, !.auto = @ \/ drive # "none"]])

(* assign_staff_rule, of a rule that is right by Z1-Z3 (module Staffing).  *)
AssignStaffRule(id) ==
  \E n \in Activities(id) : Change(id, [stored[id] EXCEPT !.staffed = @ \cup {n}])

-----------------------------------------------------------------------------
(* Time and notes.                                                         *)

SetTimeConstraint(id) ==
  \E n \in Steps(id) :
    \/ \E d \in Durations : Change(id, [stored[id] EXCEPT !.times = With(@, n, d)])
    \/ Change(id, [stored[id] EXCEPT !.times = [m \in DOMAIN @ \ {n} |-> @[m]]])

SetDeadline(id) ==
  \E d \in Deadlines : Change(id, [stored[id] EXCEPT !.deadline = d])

(* set_value_class, set_node_priority: set or cleared.                     *)
SetNote(id) ==
  \E n \in Steps(id), note \in {"value", "priority"} :
    \/ Change(id, [stored[id] EXCEPT !.notes = @ \cup {<<n, note>>}])
    \/ Change(id, [stored[id] EXCEPT !.notes = @ \ {<<n, note>>}])

-----------------------------------------------------------------------------
(* Follow-ups and the library.                                             *)

LinkFollowUp(id) ==
  \E t \in DOMAIN stored : \E version \in {0, stored[t].version} :
    LET C == [stored[id] EXCEPT !.links = With(@, next, [target |-> t, version |-> version])]
    IN Editable(id) /\ TargetsOK(id, C) = TRUE /\ Commit(id, C, 1)

UnlinkFollowUp(id) ==
  \E k \in DOMAIN stored[id].links :
    Change(id, [stored[id] EXCEPT !.links = [l \in DOMAIN @ \ {k} |-> @[l]]])

(* set_library_subprocess: in any state of the lifecycle.                  *)
SetLibrary(id) ==
  \E flag \in BOOLEAN : Commit(id, [stored[id] EXCEPT !.library = flag], 0)

-----------------------------------------------------------------------------
(* A start names its groups too.                                           *)
AnnInit == Init /\ \E s \in Starts : s.stored = stored /\ topic \in s.topics

Asked(id) ==
  \/ topic = "data" /\ (\/ AddDataElement(id) \/ RegisterConnector(id) \/ BindExternalData(id)
                        \/ BindSqlSelect(id) \/ BindSqlWrite(id))
  \/ topic = "service" /\ (\/ AddActivityTemplate(id) \/ AssignService(id)
                           \/ SetAutomation(id) \/ AssignStaffRule(id))
  \/ topic = "time" /\ (SetTimeConstraint(id) \/ SetDeadline(id) \/ SetNote(id))
  \/ topic = "link" /\ (LinkFollowUp(id) \/ UnlinkFollowUp(id) \/ SetLibrary(id))

(* The edits of module SchemaOps that go on around them, by group; masks   *)
(* come to the rules here as the accesses they stand for.                  *)
Around(id) ==
  \/ SerialInsert(id) \/ DeleteNode(id) \/ Release(id) \/ NewRevision(id)
  \/ topic = "data" /\ ConnectData(id)
  \/ topic = "time" /\ (ParallelInsert(id) \/ ConditionalInsert(id) \/ ConvertActivity(id))
  \/ topic \in {"data", "service", "link"} /\ Composing(id)

AnnNext ==
  /\ \/ CreateSchema
     \/ \E id \in DOMAIN stored : Asked(id) \/ Around(id)
  /\ UNCHANGED topic

AnnSpec == AnnInit /\ [][AnnNext]_<<vars, topic>>

-----------------------------------------------------------------------------
(* Whenever a query is run -- a step that may read the element, or write   *)
(* it back, is reached -- every source of its filters is the instance's    *)
(* own element, and a step or child that ran before has written it,        *)
(* whichever branches were taken (C5 and C8, "D1 coupling").  What a child *)
(* hands over to the element stays in the instance, and runs no query.     *)
FiltersSupplied ==
  \A id \in DOMAIN stored : LET S == stored[id] IN
    \A x \in {x \in DOMAIN S.query : S.query[x].kind # "record"}, c \in Routes(S) :
      LET ran == Ran(S, c)
          modes == IF S.query[x].kind = "select" THEN S.reads \cup S.mayread
                   ELSE S.writes \cup S.maywrite
      IN \A n \in NodesOfKind(S, "ACTIVITY") \cap ran, y \in S.query[x].from :
           <<n, x>> \in modes =>
             /\ y \notin DOMAIN S.query
             /\ \E w \in S.writes : w[2] = y /\ w[1] \in ran /\ n \in Reachable(S, w[1])

(* The time at which node n is done when every step of route c takes as    *)
(* long as it may and starts as soon as all it waits for is done.          *)
DoneAt(S, c) ==
  LET ran == Ran(S, c)
      done[n \in ran] ==
        Duration(S, n)
          + Max({0} \cup {done[e[1]] : e \in {e \in Into(S, n) : e[1] \in ran /\ Taken(S, c, e)}})
  IN done

(* A stored schema keeps its deadline on every route, as long as each step *)
(* takes no longer than annotated: "the bound is sound" (_check_temporal). *)
(* A SUBPROCESS counts with its own annotation, as T2 has it, whatever its *)
(* child takes.                                                            *)
DeadlineHolds ==
  \A id \in DOMAIN stored : LET S == stored[id] IN
    S.deadline # NoDeadline => \A c \in Routes(S) : DoneAt(S, c)[END] <= S.deadline

(* The schemas that an instance of a stored schema starts, directly.       *)
Starting(id) == {b.target : b \in Bindings(stored[id]) \cup Links(stored[id])}

(* An instance of a released schema never leads to another instance of it, *)
(* through children and follow-ups in however many steps: a completion     *)
(* that starts itself would never end.  The rules only look for cycles of  *)
(* calls (H3); what excludes the others is the order of releases.          *)
StartsEnd ==
  \A id \in DOMAIN stored : stored[id].state = "RELEASED" =>
    LET s(t) == Starting(t) \cap DOMAIN stored
    IN id \notin Closure(s, s(id), Cardinality(DOMAIN stored))
=============================================================================
