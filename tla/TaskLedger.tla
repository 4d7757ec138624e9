----------------------------- MODULE TaskLedger -----------------------------
(***************************************************************************)
(* What the coordinator promises about a task, without nodes, leases,      *)
(* sessions, reports or restarts: the contract of the ledger in state.rs   *)
(* (submit, assign, mark_uncertain, accept_result) together with the       *)
(* attempts that may still hold capacity.                                  *)
(*                                                                         *)
(*   - a new attempt starts only when no earlier one holds anything;       *)
(*   - work that is not replay-safe runs again only after an operator      *)
(*     retry, and that only when nothing is held;                          *)
(*   - a result is accepted once, from the latest attempt, and stays.      *)
(*                                                                         *)
(* One request of the coordinator may step several tasks, so a step of     *)
(* this specification is a step or a stutter of every task.                *)
(***************************************************************************)
EXTENDS Integers

CONSTANTS Tasks, ReplaySafe, Results, None, MaxGen

VARIABLES
    tasks,      \* status, generation and receipt of each task
    holders     \* generations of each task that may still hold capacity

vars == <<tasks, holders>>

Init ==
    /\ tasks = [t \in Tasks |->
                  [status |-> "absent", generation |-> 0, receipt |-> None]]
    /\ holders = [t \in Tasks |-> {}]

\* Each step relates the row and holders of t before (x, h) and after (y, k).
Submit(x, h, y, k) ==
    /\ x.status = "absent"
    /\ y = [x EXCEPT !.status = "queued"] /\ k = h

Assign(x, h, y, k) ==
    /\ x.status = "queued" /\ h = {} /\ x.generation < MaxGen
    /\ y = [x EXCEPT !.status = "assigned", !.generation = @ + 1]
    /\ k = {x.generation + 1}

\* Certainty was lost, the attempt failed or yielded, or attempts ran out.
TakeBack(t, x, h, y, k) ==
    /\ x.status \in {"queued", "assigned", "needs_reconciliation"}
    /\ \/ y = [x EXCEPT !.status = "needs_reconciliation"]
       \/ t \in ReplaySafe /\ y = [x EXCEPT !.status = "queued"]
    /\ k \subseteq h

Release(x, h, y, k) == y = x /\ k \subseteq h

Retry(x, h, y, k) ==
    /\ x.status \in {"queued", "needs_reconciliation"} /\ h = {}
    /\ y = [x EXCEPT !.status = "queued"] /\ k = {}

Accept(t, x, h, y, k) ==
    /\ x.status = "assigned"
    /\ \E r \in Results :
         y = [x EXCEPT !.status = "completed",
                       !.receipt = <<<<t, x.generation>>, r>>]
    /\ k = h

Step(t, x, h, y, k) ==
    \/ Submit(x, h, y, k)
    \/ Assign(x, h, y, k)
    \/ TakeBack(t, x, h, y, k)
    \/ Release(x, h, y, k)
    \/ Retry(x, h, y, k)
    \/ Accept(t, x, h, y, k)

Next == \A t \in Tasks : Step(t, tasks[t], holders[t], tasks'[t], holders'[t])

Spec == Init /\ [][Next]_vars
=============================================================================
