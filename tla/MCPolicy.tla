------------------------------ MODULE MCPolicy ------------------------------
(***************************************************************************)
(* Four nodes explored side by side; `node' says which one a behaviour is  *)
(* about.                                                                  *)
(*   gpu        work that needs a whole GPU, which other processes use too *)
(*   occupied   a GPU of an operator who permits one other process         *)
(*   host       opportunistic beside guaranteed work, no GPU; the operator *)
(*              may stop the node                                          *)
(*   yield      CPU work and GPU work that may have to leave again         *)
(***************************************************************************)
EXTENDS Integers, TLC

CONSTANTS g1, p1, p2

VARIABLES node, now, step, snap, allocs, engine, decision, report, grown, alarm, since

vars == <<node, now, step, snap, allocs, engine, decision, report, grown, alarm, since>>

Vector(c, r, m) == [d \in {"cpu", "ram", g1} |-> CASE d = "cpu" -> c [] d = "ram" -> r [] OTHER -> m]
HostVector(c, r) == [d \in {"cpu", "ram"} |-> IF d = "cpu" THEN c ELSE r]
HostReading(c, r) == [used |-> HostVector(c, r), valid |-> TRUE]
Unknown == -1
Absent == [there |-> FALSE, used |-> Unknown, pids |-> {}, listed |-> FALSE,
           activity |-> "unknown", fresh |-> FALSE, evidence |-> "insufficient"]
Sight(used, pids, activity, fresh, evidence) ==
    [there |-> TRUE, used |-> used, pids |-> pids, listed |-> TRUE,
     activity |-> activity, fresh |-> fresh, evidence |-> evidence]

GpuSights ==
    {Absent, Sight(Unknown, {}, "unknown", FALSE, "insufficient"),
     Sight(2, {}, "unknown", FALSE, "activity")}
    \cup {Sight(u, {}, "idle", TRUE, "activity") : u \in {0, 3}}
    \cup {Sight(3, {p1}, v, f, "activity") : v \in {"idle", "active"}, f \in BOOLEAN}
    \cup {Sight(3, {p1}, "idle", TRUE, "memory")}
YieldSights ==
    {Absent, Sight(2, {}, "unknown", FALSE, "activity")}
    \cup {Sight(3, {p1}, v, TRUE, "activity") : v \in {"idle", "active"}}
OccupiedSights ==
    {Absent} \cup {Sight(1, P, v, TRUE, "memory") : P \in SUBSET {p1, p2}, v \in {"idle", "active"}}
CalmHost == HostReading(2, 1)
HostHosts ==
    {HostReading(0, 0), HostReading(2, 2), HostReading(4, Unknown)}
    \cup {[HostReading(2, 2) EXCEPT !.valid = FALSE]}

ActiveShrink == 50
ProtectiveShrink == 20
MaxWorkers == 2
CpuCeiling == 4
TelemetryTtl == 2

Gpu == INSTANCE Policy WITH
    Gpus <- {g1}, Pids <- {p1}, Allocs <- {2}, Guaranteed <- {},
    Request <- [a \in {2} |-> Vector(1, 1, 4)], Uses <- {Vector(1, 1, 3)},
    Total <- Vector(4, 3, 4), Reserve <- Vector(0, 0, 0), Envelope <- Vector(4, 3, 4),
    Mode <- "auto", Permitted <- {}, Cooldown <- 2, Freshness <- 2,
    Hosts <- {CalmHost}, Sights <- GpuSights, Marks <- {"new"}, Stops <- {FALSE},
    MaxTime <- 5, MaxStep <- 2
Occupied == INSTANCE Policy WITH
    Gpus <- {g1}, Pids <- {p1, p2}, Allocs <- {1}, Guaranteed <- {},
    Request <- [a \in {1} |-> Vector(1, 1, 3)], Uses <- {Vector(1, 1, 3)},
    Total <- Vector(4, 3, 4), Reserve <- Vector(0, 0, 0), Envelope <- Vector(4, 3, 4),
    Mode <- "occupied", Permitted <- {p1}, Cooldown <- 2, Freshness <- 2,
    Hosts <- {CalmHost}, Sights <- OccupiedSights, Marks <- {"new"}, Stops <- {FALSE},
    MaxTime <- 6, MaxStep <- 2
CpuRam == INSTANCE Policy WITH
    Gpus <- {}, Pids <- {}, Allocs <- {1, 2}, Guaranteed <- {2},
    Request <- [a \in {1, 2} |-> HostVector(a, a)], Uses <- {HostVector(2, 2)},
    Total <- HostVector(4, 3), Reserve <- HostVector(1, 0), Envelope <- HostVector(3, 3),
    Mode <- "auto", Permitted <- {}, Cooldown <- 1, Freshness <- 1,
    Hosts <- HostHosts, Sights <- {}, Marks <- {"new", "same", "reset"}, Stops <- BOOLEAN,
    MaxTime <- 4, MaxStep <- 1
Yields == INSTANCE Policy WITH
    Gpus <- {g1}, Pids <- {p1}, Allocs <- {1, 2}, Guaranteed <- {},
    Request <- [a \in {1, 2} |-> Vector(1, 1, 4 * (a - 1))], Uses <- {Vector(1, 1, 3)},
    Total <- Vector(4, 3, 4), Reserve <- Vector(0, 0, 0), Envelope <- Vector(4, 3, 4),
    Mode <- "auto", Permitted <- {}, Cooldown <- 1, Freshness <- 2,
    Hosts <- {CalmHost, HostReading(4, 1)}, Sights <- YieldSights, Marks <- {"new"}, Stops <- {FALSE},
    MaxTime <- 4, MaxStep <- 1

ASSUME Gpu!PolicyAssumption /\ Occupied!PolicyAssumption
ASSUME CpuRam!PolicyAssumption /\ Yields!PolicyAssumption

Init ==
    \/ node = "gpu" /\ Gpu!Init
    \/ node = "occupied" /\ Occupied!Init
    \/ node = "host" /\ CpuRam!Init
    \/ node = "yield" /\ Yields!Init

Next ==
    \/ node = "gpu" /\ Gpu!Next /\ UNCHANGED node
    \/ node = "occupied" /\ Occupied!Next /\ UNCHANGED node
    \/ node = "host" /\ CpuRam!Next /\ UNCHANGED node
    \/ node = "yield" /\ Yields!Next /\ UNCHANGED node

Spec == Init /\ [][Next]_vars

\* No budget, charge or cap leaves the naturals.
TypeOK ==
    CASE node = "gpu" -> Gpu!TypeOK
      [] node = "occupied" -> Occupied!TypeOK
      [] node = "host" -> CpuRam!TypeOK
      [] node = "yield" -> Yields!TypeOK

(* Nothing is offered or first authorized unless a whole cooldown of       *)
(* undisturbed samples of the host and of the requested device preceded    *)
(* the report it rests on (evaluate, schedulable_budget, authorize).       *)
AdmissionIsCalm ==
    [][/\ node = "gpu" => Gpu!AdmitsCalmly
       /\ node = "occupied" => Occupied!AdmitsCalmly
       /\ node = "host" => CpuRam!AdmitsCalmly]_vars

(* Protection does not oscillate: a cap stays until the device was         *)
(* undisturbed for a whole cooldown, and work that one decision admitted   *)
(* is no victim of the next one while the node looks the same.             *)
ProtectionHolds ==
    [][/\ node = "gpu" => Gpu!HoldsCap
       /\ node = "yield" => Yields!DrainsNoneAdmitted]_vars

(* Yielding is enough: in a dimension that the work which stays still      *)
(* overcharges, nothing that may be drained is left (would_drain).         *)
DrainSuffices ==
    /\ node = "host" => CpuRam!DrainSuffices
    /\ node = "yield" => Yields!DrainSuffices
=============================================================================
