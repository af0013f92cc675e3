----------------------------- MODULE MCWorkflow -----------------------------
(* Instances of Workflow for TLC. *)
EXTENDS Workflow

CONSTANTS c, p, u

\* c makes what p publishes and u consumes.
Collect == [kind |-> "collect", input |-> "task", outputs |-> {"ready"}]
Pub     == [kind |-> "publish", input |-> "ready", outputs |-> {"published"}]
Consume == [kind |-> "consume", input |-> "published", outputs |-> {}]
\* u makes what p publishes again: a cycle.
Cyclic  == [kind |-> "consume", input |-> "published", outputs |-> {"ready"}]

Shapes   == {Collect, Pub, Consume, Cyclic}
OrderOf  == <<c, p, u>>
FirstOf  == [a \in Action |-> CASE a = c -> Collect [] a = p -> Pub [] OTHER -> Consume]
Changes  == {<<u, Consume>>, <<u, Cyclic>>}
=============================================================================
