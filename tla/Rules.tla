-------------------------------- MODULE Rules --------------------------------
(***************************************************************************)
(* The rules of validator.py about what is attached to the nodes and       *)
(* elements of a schema: outside data (C1-C9), masks (U1, U3), services    *)
(* (Z4, A1-A3, I1-I4) and time (T1, T2).  The schema record of module      *)
(* Validator has in addition:                                              *)
(*   elems, conns, tmpls   the declared elements, connectors, templates    *)
(*   mayread, maywrite     optional accesses: <<node, element>>            *)
(*   forms     [node -> [element -> access]], the input masks              *)
(*   query     [EXTERNAL element -> [kind, conn, from]]: a record looked   *)
(*             up by a key, a select or a write-back, from the elements    *)
(*             that give its key or filters; other elements are INSTANCE   *)
(*   services  [node -> [auto, drive, tmpl]]                               *)
(*   staffed   the nodes with a staff rule                                 *)
(*   times     [node -> its longest duration], deadline                    *)
(* A request whose types, texts or parameter names do not fit (D3, C3, C4, *)
(* C6, C7, C9, U2, A3, I1, I4) is refused whatever the rest of the schema, *)
(* and types never change; such requests are left out.                     *)
(***************************************************************************)
EXTENDS Validator

CONSTANTS
  Automatic,    \* the templates an executor runs without a person
  NoTemplate,   \* a service without a template
  NoDeadline    \* a schema without a deadline

Instance(S) == S.elems \ DOMAIN S.query

(* C1, C2: a registered connector, and a key that is an INSTANCE element.  *)
(* C5, C8: the sources of filters are INSTANCE elements too.               *)
SourcesOK(S) ==
  \A x \in DOMAIN S.query :
    /\ S.query[x].conn \in S.conns
    /\ S.query[x].from \subseteq Instance(S)

(* Mutant: only what a step has to read is looked at.                      *)
Touching_Mandatory(S, x) ==
  {n \in NodesOfKind(S, "ACTIVITY") :
     <<n, x>> \in IF S.query[x].kind = "select" THEN S.reads ELSE S.writes}

(* The steps at which a select is run (reading_nodes) or a write-back is   *)
(* (writing_nodes), by their data accesses.  What a child hands over to    *)
(* such an element is not one of them: it runs no query.                   *)
Touching(S, x) ==
  {n \in NodesOfKind(S, "ACTIVITY") :
     <<n, x>> \in IF S.query[x].kind = "select" THEN S.reads \cup S.mayread
                  ELSE S.writes \cup S.maywrite}

(* C5, C8: every filter source is written before any node that runs the    *)
(* query, whichever way leads there.  C2 asks nothing of the kind of keys. *)
FiltersBefore(S) ==
  LET before == MustWrittenBefore(S) IN
  \A x \in DOMAIN S.query : S.query[x].kind # "record" =>
    \A n \in Touching(S, x) : S.query[x].from \subseteq before[n]

(* D4, K7: only declared elements are accessed, and only the instance's    *)
(* own decide a split.                                                     *)
ElementsOK(S) ==
  /\ \A a \in S.reads \cup S.writes \cup S.mayread \cup S.maywrite : a[2] \in S.elems
  /\ \A a \in S.mayread \cup S.maywrite : a[1] \in NodesOfKind(S, "ACTIVITY")
  /\ \A x \in DOMAIN S.disc : S.disc[x] \in Instance(S)

(* U1, U3: a mask is of an activity, and every field stands for an access. *)
FormsOK(S) ==
  \A n \in DOMAIN S.forms :
    /\ n \in NodesOfKind(S, "ACTIVITY")
    /\ \A x \in DOMAIN S.forms[n] :
         <<n, x>> \in IF S.forms[n][x] \in {"reads", "mayread"} THEN S.reads \cup S.mayread
                      ELSE S.writes \cup S.maywrite

(* Z4: services are of activities, and an automatic step has no staff rule. *)
BoundOK(S) ==
  /\ DOMAIN S.services \cup S.staffed \subseteq NodesOfKind(S, "ACTIVITY")
  /\ \A n \in DOMAIN S.services : S.services[n].auto => n \notin S.staffed

(* A1, A2: the template of a service says whether it is automatic.         *)
RepositoryOK(S) ==
  \A n \in DOMAIN S.services : LET b == S.services[n] IN
    b.tmpl # NoTemplate => b.tmpl \in S.tmpls /\ b.auto = (b.tmpl \in Automatic)

(* I2: a step driven from outside is automatic.                            *)
IntegrationOK(S) ==
  \A n \in DOMAIN S.services : S.services[n].drive # "none" => S.services[n].auto

-----------------------------------------------------------------------------
Duration(S, n) == IF n \in DOMAIN S.times THEN S.times[n] ELSE 0

(* Mutant: a node starts when the first of its predecessors is done.       *)
CriticalPath_Earliest(S) ==
  LET complete[n \in DOMAIN S.kind] ==
        Duration(S, n) + (IF Preds(S, n) = {} THEN 0 ELSE Min({complete[p] : p \in Preds(S, n)}))
  IN Max({complete[n] : n \in DOMAIN S.kind})

(* _critical_path_seconds: the longest way through the graph.              *)
CriticalPath(S) ==
  LET complete[n \in DOMAIN S.kind] ==
        Duration(S, n) + Max({0} \cup {complete[p] : p \in Preds(S, n)})
  IN Max({complete[n] : n \in DOMAIN S.kind})

(* T1: annotated nodes exist.  T2: the longest way fits the deadline; on a *)
(* cyclic graph there is none, which K3 or K2 reports.                     *)
TimesOK(S) ==
  /\ DOMAIN S.times \subseteq DOMAIN S.kind
  /\ S.deadline # NoDeadline /\ Ordered(S) = DOMAIN S.kind => CriticalPath(S) <= S.deadline

(* _check_forms, _check_connectors, _check_scalar_queries, _check_scalar_  *)
(* writes, _check_resources, _check_integration, _check_temporal.          *)
AttachedOK(S) ==
  /\ ElementsOK(S) /\ FormsOK(S) /\ SourcesOK(S) /\ FiltersBefore(S)
  /\ BoundOK(S) /\ RepositoryOK(S) /\ IntegrationOK(S) /\ TimesOK(S)
=============================================================================
