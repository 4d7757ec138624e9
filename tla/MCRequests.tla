----------------------------- MODULE MCRequests -----------------------------
(***************************************************************************)
(* Two coordinators explored side by side; `about' says which one a        *)
(* behaviour is about.  Both have the same task and attempts, and both are *)
(* subject to the properties of the configuration.                         *)
(*   outcome   two attempts of one task with checkpoints, a result and     *)
(*             failures: the instance of the configuration                 *)
(*   lease     one attempt, two leases, reports of early and late phases,  *)
(*             drains and a cancellation                                   *)
(***************************************************************************)
EXTENDS MCCoordinator

VARIABLE about

Leases == INSTANCE Coordinator WITH
    TaskSpec <- SingleTask, Capacities <- OneSlot,
    Artifacts <- {}, Results <- {}, ResultArtifacts <- <<>>, CheckpointSequence <- <<>>,
    Foreign <- {"stray"},
    ReportPhases <- {"prepared", "draining", "released"}, Truthful <- FALSE,
    Drainable <- Nodes, Cancellable <- Jobs,
    MaxSeq <- 2, MaxClock <- 2

RequestsInit ==
    \/ about = "outcome" /\ Init
    \/ about = "lease" /\ Leases!Init

RequestsNext ==
    \/ about = "outcome" /\ Next /\ UNCHANGED about
    \/ about = "lease" /\ Leases!Next /\ UNCHANGED about

RequestsSpec == RequestsInit /\ [][RequestsNext]_<<vars, about>>
=============================================================================
