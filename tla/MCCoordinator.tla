--------------------------- MODULE MCCoordinator ---------------------------
(***************************************************************************)
(* Small instances of the coordinator for TLC.  Tasks, nodes, jobs and     *)
(* results are model values of the configurations; resources are one CPU   *)
(* unit per task, and one GPU for t3 where placement is checked.           *)
(***************************************************************************)
EXTENDS Coordinator

CONSTANTS n1, n2, p1, p2, j1, j2, t1, t2, t3, r1, r2, c1, c2, x1

Cpu(k) == [s \in Scopes |-> k]

Launch(safe, class, attempts, need, controls, inputs) ==
    [replaySafe |-> safe, class |-> class, maxAttempts |-> attempts,
     need |-> Cpu(need), controls |-> controls, inputs |-> inputs]

Capacity(expand, budget, slots) ==
    [expand |-> expand, gpuExpand |-> FALSE, gpuGuaranteed |-> FALSE,
     budget |-> Cpu(budget), slots |-> slots, controls |-> Controls]

Pool(on, min, max, class) ==
    [nodes |-> on, min |-> min, max |-> max, class |-> class]

Zeros(S) == [x \in S |-> 0]

ZeroLag == {0}
\* A report may be two clock steps old, which is past the freshness limit.
Lagging == {0, 2}
FirstSlot == [t \in Tasks |-> 1]
OneJob == [t \in Tasks |-> j1]
OnePool == [j \in Jobs |-> p1]
EqualPriority == Zeros(Jobs)
Measured == {Cpu(1)}
NoArtifacts == [r \in Results |-> {}]
NoCheckpoints == Zeros(Results)
OneSlot == {Capacity(TRUE, 1, 1)}
Anywhere == {Pool(Nodes, 0, 2, "opportunistic")}

\* authority, lease: one replay-safe opportunistic task.
SafeTask == [t \in Tasks |-> Launch(TRUE, "opportunistic", 0, 1, {}, {})]

\* outcome: two attempts at most, a result and two checkpoints.
BudgetedTask == [t \in Tasks |-> Launch(TRUE, "opportunistic", 2, 1, {}, {})]
FinalNeedsArtifact == [r \in Results |-> IF r = r1 THEN {x1} ELSE {}]
TwoCheckpoints == [r \in Results |-> IF r = c1 THEN 1 ELSE IF r = c2 THEN 2 ELSE 0]
SingleTask == [t \in Tasks |-> Launch(TRUE, "opportunistic", 1, 1, {}, {})]

\* replay: t1 is not replay-safe; t2 is, and runs once.
MixedSafety == [t \in Tasks |-> IF t = t1
                 THEN Launch(FALSE, "opportunistic", 0, 1, {}, {})
                 ELSE Launch(TRUE, "opportunistic", 1, 1, {}, {})]

\* placement: t3 outranks t1 and t2; all share a pool that keeps one worker
\* and allows two.  t2 and t3 need the one GPU of a node besides a CPU unit.
TwoJobs == [t \in Tasks |-> IF t = t3 THEN j2 ELSE j1]
InOrder == [t \in Tasks |-> IF t = t2 THEN 2 ELSE 1]
HighSecond == [j \in Jobs |-> IF j = j2 THEN 1 ELSE 0]
FloorOfOne == {Pool(Nodes, 1, 2, "opportunistic")}
OnGpu(k) == [s \in Scopes |-> IF s \in Shared THEN 1 ELSE k]
GpuRest == [t \in Tasks |->
              [Launch(TRUE, "opportunistic", 0, 1, {}, {}) EXCEPT
                 !.need = OnGpu(IF t = t1 THEN 0 ELSE 1)]]
TwoUnitsAndGpu ==
    {[Capacity(TRUE, 2, 2) EXCEPT
        !.gpuExpand = b,
        !.budget = [s \in Scopes |-> IF s \in Shared THEN 2 ELSE 1]] : b \in BOOLEAN}
Idle == {OnGpu(0)}

\* outcome: a node with room for two workers.
TwoUnits == {Capacity(TRUE, 2, 2)}

\* preemption_two_nodes: the outranking task is in a pool of its own.
TwoPools == [j \in Jobs |-> IF j = j2 THEN p2 ELSE p1]
=============================================================================
