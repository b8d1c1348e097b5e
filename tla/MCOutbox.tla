---- MODULE MCOutbox ----
(***************************************************************************)
(* The outbox with one subscription; pushes go to its host as well.        *)
(***************************************************************************)
EXTENDS Outbox

CONSTANTS s1, h1

One == {s1}
OneHost == [s \in {s1} |-> h1]
====
