---- MODULE MCExternalTasks ----
(***************************************************************************)
(* The work queue on a process of one automatic step, or of a step to pull *)
(* and one to push behind it.                                              *)
(***************************************************************************)
EXTENDS ExternalTasks, TLC

CONSTANTS w1, w2, a, c

Nothing == {}
JustA == {a}
JustC == {c}

Single == [s \in {a} |-> {}]
Chain == [s \in {a, c} |-> IF s = c THEN {a} ELSE {}]

\* Nobody works on the step by hand: what completes it is a report.
WorkersOnly == Init /\ [][Next /\ \A t \in Threads : req'[t].pc # "user"]_vars

\* The two workers are interchangeable.
Alike == Permutations(Workers)
====
