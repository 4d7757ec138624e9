----------------------------- MODULE Resources -----------------------------
(***************************************************************************)
(* Resource vectors of the coordinator.  The code's Resources holds        *)
(* cpu_millicores, ram_mib and a map from GPU UUID to MiB.  A vector here  *)
(* is a function on Scopes: Shared scopes (CPU, RAM) are charged by every  *)
(* allocation, every other scope is one GPU UUID.  A UUID absent from the  *)
(* map is a zero entry: validate_launch_request refuses a zero GPU         *)
(* request, so a zero entry and an absent key mean the same.               *)
(***************************************************************************)
EXTENDS Integers, FiniteSetsExt

CONSTANTS
    Scopes,     \* CPU, RAM and the GPU UUIDs
    Shared      \* the scopes shared by every allocation (CPU and RAM)

ASSUME ScopesAssumption == Shared \subseteq Scopes

Vector == [Scopes -> Nat]

Add(u, v) == [s \in Scopes |-> u[s] + v[s]]

\* saturating_sub on every scope.
Subtract(u, v) == [s \in Scopes |-> IF u[s] >= v[s] THEN u[s] - v[s] ELSE 0]

Maximum(u, v) == [s \in Scopes |-> IF u[s] >= v[s] THEN u[s] ELSE v[s]]

\* The sum over a finite set of the vectors V(x).
Total(V(_), S) == [s \in Scopes |-> MapThenSumSet(LAMBDA x : V(x)[s], S)]

RequestsGpu(need) == \E s \in Scopes \ Shared : need[s] > 0

(***************************************************************************)
(* All charges are kept, but only the scopes the new work would use are    *)
(* compared: CPU and RAM always, a GPU only when the request names it.     *)
(***************************************************************************)
FitsRequested(total, budget, need) ==
    \A s \in Scopes : (s \in Shared \/ need[s] > 0) => total[s] <= budget[s]
=============================================================================
