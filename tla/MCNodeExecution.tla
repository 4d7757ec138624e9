-------------------------- MODULE MCNodeExecution --------------------------
(***************************************************************************)
(* Small instances of a node for TLC: one unit of CPU per assignment.      *)
(***************************************************************************)
EXTENDS NodeExecution

CONSTANTS a1, a2, b1, t1, t2

\* a1 and a2 are two generations of t1; b1 is a large assignment of t2.
TwoTasks == [a \in Assignments |-> IF a = b1 THEN t2 ELSE t1]
InTurn == [a \in Assignments |-> IF a = a2 THEN 2 ELSE 1]
TwoUnits == [s \in Scopes |-> 2]
LargeLast == [a \in Assignments |-> [s \in Scopes |-> IF a = b1 THEN 2 ELSE 1]]
\* a1 may start one child; the others are single processes.
FirstFamily == [a \in Assignments |-> IF a = a1 THEN 1 ELSE 0]

Node(replayable, offered, boots) ==
    [replayable |-> replayable, offered |-> offered, boots |-> boots]
\* node: a durable one restarts with a family, a2 races a1 on a replayable one,
\* and a crowded durable one has no room for a2 beside b1.
ThreeNodes == {Node(FALSE, {a1}, 2), Node(TRUE, {a1, a2}, 2), Node(FALSE, {a2, b1}, 1)}
\* node_recovery: one family.
OneNode == {Node(FALSE, {a1}, 2)}
=============================================================================
