------------------------------- MODULE Policy -------------------------------
(***************************************************************************)
(* Capacity policy (policy.rs): from one snapshot of the node after the    *)
(* other the engine derives a budget, the allocations to drain and whether *)
(* new work may start; around it the agent's report, the offers made from  *)
(* it, the launch and the first authorization (agent.rs, coordinator.rs).  *)
(*                                                                         *)
(* CPU, RAM and each GPU are dimensions of one resource vector.  A reading *)
(* that could not be taken is Unknown.  Sample identities and collector    *)
(* clocks are given by how they compare with the last ones.                *)
(***************************************************************************)
EXTENDS Integers, FiniteSets, SequencesExt

CONSTANTS
    Gpus, Pids,
    Allocs,                 \* allocation ids, numbers: they are ordered
    Guaranteed,             \* the allocations of that class
    Request,                \* Allocs -> [Dims -> Nat]
    Uses,                   \* what an allocation may be seen to use
    Total, Reserve, Envelope, \* [Dims -> Nat]: capacity, reserve, operator's envelope
    CpuCeiling,             \* the bandwidth ceiling of the visible ancestors
    Mode, Permitted,        \* gpu.execution_mode, external processes occupied mode permits
    Cooldown, Freshness,    \* scale_up_cooldown_ms, freshness_limit_ms
    TelemetryTtl,           \* telemetry_ttl_ms of the coordinator
    ActiveShrink, ProtectiveShrink, \* percent
    MaxWorkers,
    Hosts, Sights,          \* readings of the host and of one GPU
    Marks,                  \* how the collector's sample marker may compare with the last
    Stops,                  \* whether the agent may ask for a full drain
    MaxTime, MaxStep        \* bounds: time, time between two samples

Host == {"cpu", "ram"}
Dims == Host \cup Gpus
Unknown == -1
Zero == [d \in Dims |-> 0]

PolicyAssumption ==
    /\ Allocs \subseteq Nat /\ Guaranteed \subseteq Allocs
    /\ Request \in [Allocs -> [Dims -> Nat]] /\ \A u \in Uses : u \in [Dims -> Nat]
    /\ Total \in [Dims -> Nat] /\ Reserve \in [Dims -> Nat] /\ Envelope \in [Dims -> Nat]
    /\ Mode \in {"auto", "contention_aware", "non_sharing", "occupied"}
    /\ Marks \subseteq {"new", "same", "reset"} /\ Stops \subseteq BOOLEAN
    /\ {CpuCeiling, Cooldown, Freshness, TelemetryTtl, MaxWorkers} \subseteq Nat
    \* validate: a snapshot that contradicts itself is refused.
    /\ \A h \in Hosts : \A d \in Host : h.used[d] \in 0..Total[d] \cup {Unknown}
    /\ \A s \in Sights, g \in Gpus : s.used \in 0..Total[g] \cup {Unknown}

VARIABLES
    now,
    step,      \* the agent's loop: "idle", "sampled", "decided", "beat" (a reply came)
    snap,      \* the last snapshot
    allocs,    \* each allocation: phase, observed use, room its preparation was given
    engine,    \* PolicyEngine
    decision,  \* the last Decision
    report,    \* the last NodeReport the coordinator has
    grown,     \* admitted_parallelism and last_growth
    \* For the properties: the last disturbance of each device and of the host,
    \* and what happened to the allocations since the last evaluation.
    alarm, since

vars == <<now, step, snap, allocs, engine, decision, report, grown, alarm, since>>

\* Faulty: a plain subtraction.
SatSubPlain(a, b) == a - b
SatSub(a, b) == IF a > b THEN a - b ELSE 0
Least(a, b) == IF a < b THEN a ELSE b
Most(a, b) == IF a > b THEN a ELSE b
CeilPercent(n, p) == (n * p + 99) \div 100

NoGpu == [pids |-> {}, external |-> Unknown, cap |-> Unknown, stable |-> Unknown]
NoSight == [there |-> FALSE, used |-> Unknown, pids |-> {}, listed |-> FALSE,
            activity |-> "unknown", fresh |-> FALSE, evidence |-> "insufficient"]
Idle == [phase |-> "none", use |-> Zero, seen |-> FALSE, room |-> Zero]

Init ==
    /\ now = 0 /\ step = "idle"
    /\ snap = [host |-> [used |-> [d \in Host |-> Unknown], valid |-> FALSE], mark |-> "new",
               stop |-> FALSE, gpus |-> [g \in Gpus |-> NoSight]]
    /\ allocs = [a \in Allocs |-> Idle]
    /\ engine = [gpus |-> [g \in Gpus |-> NoGpu], stable |-> Unknown, host |-> Unknown,
                 received |-> Unknown]
    /\ decision = [budget |-> Zero, gpus |-> {}, expansion |-> FALSE, cpuRam |-> FALSE, drain |-> {}]
    /\ report = [budget |-> Zero, expansion |-> FALSE, gpu |-> FALSE, slots |-> 0, at |-> 0,
                 charge |-> Request, quiet |-> {}]
    /\ grown = [admitted |-> 0, at |-> 0]
    /\ alarm = [d \in {"host", "mark"} \cup Gpus |-> 0]
    /\ since = [admitted |-> {}, moved |-> FALSE, same |-> FALSE]

-----------------------------------------------------------------------------
(* Charges: the larger of what was reserved and what is observed. *)
InPhase(p) == {a \in Allocs : allocs[a].phase \in p}
Charged == InPhase({"pending", "running", "draining"})
Workers == InPhase({"preparing"}) \cup Charged
Observable == {a \in InPhase({"running", "draining"}) : allocs[a].seen}
Charge(a, d) == IF a \in Observable THEN Most(Request[a][d], allocs[a].use[d]) ELSE Request[a][d]
TotalCharge(d) == LET c(a) == Charge(a, d) IN MapThenSumSet(c, Charged)
Observed(d) == LET u(a) == allocs[a].use[d] IN MapThenSumSet(u, Observable)
Missing(d) == \E a \in InPhase({"running", "draining"}) : ~allocs[a].seen /\ Request[a][d] > 0

-----------------------------------------------------------------------------
(* evaluate: the host. *)
\* The policy time at which the collector's last new reading arrived.
Received == IF snap.mark = "same" /\ engine.received # Unknown THEN engine.received ELSE now

CpuValid ==
    /\ snap.host.valid
    /\ engine.received # Unknown => snap.mark # "reset" /\ (snap.mark = "same" => now - Received <= Freshness)

HostUnknown(d) ==
    \/ Missing(d) \/ snap.host.used[d] = Unknown \/ Observed(d) > snap.host.used[d]
    \/ d = "cpu" /\ ~CpuValid

Free(d, used) == SatSub(SatSub(Total[d], Reserve[d]), SatSub(used, Observed(d)))
HostBudget(d) ==
    IF HostUnknown(d) THEN 0
    ELSE Least(Free(d, snap.host.used[d]), IF d = "cpu" THEN CpuCeiling ELSE Total[d])

HostSafe ==
    /\ ~snap.stop
    /\ \A d \in Host : ~HostUnknown(d) /\ Total[d] > 0 /\ TotalCharge(d) <= HostBudget(d)

-----------------------------------------------------------------------------
(* evaluate: one GPU. *)
\* effective_gpu_capability, from the evidence: "activity" of processes, "memory"
\* and process list only, "insufficient"; "none" is a recording without diagnostics.
Capability(v) ==
    CASE v.used = Unknown \/ ~v.listed \/ v.evidence = "insufficient" -> "insufficient"
      [] Mode = "auto" -> IF v.evidence = "none" THEN "none"
                          ELSE IF v.evidence = "activity" THEN "contention_aware" ELSE "non_sharing"
      [] Mode = "contention_aware" -> IF v.evidence = "activity" THEN "contention_aware" ELSE "insufficient"
      [] Mode = "non_sharing" -> "non_sharing"
      [] OTHER -> IF v.evidence # "none" /\ Permitted # {} /\ v.pids \subseteq Permitted
                  THEN "occupied" ELSE "insufficient"

ExternalOf(g, v) == IF v.used = Unknown THEN Unknown ELSE SatSub(v.used, Observed(g))
MemoryBudget(g, v) == IF v.used = Unknown THEN 0 ELSE Free(g, v.used)
NewExternal(g, v) ==
    \/ v.pids \ engine.gpus[g].pids # {}
    \/ ExternalOf(g, v) > Most(engine.gpus[g].external, 0)
ActivityUnknown(v) ==
    Capability(v) # "occupied" /\ (v.activity = "unknown" \/ (v.pids # {} /\ ~v.fresh))
TelemetryUnknown(g, v) ==
    \/ Capability(v) = "insufficient" \/ Missing(g)
    \/ v.used # Unknown /\ Observed(g) > v.used
NotKnown(g, v) == ActivityUnknown(v) \/ TelemetryUnknown(g, v)
Active(v) == Capability(v) # "occupied" /\ v.activity = "active"
Conflict(v) == Capability(v) = "insufficient" \/ (Capability(v) = "non_sharing" /\ v.pids # {})
Breached(g, v) == TotalCharge(g) > MemoryBudget(g, v)
Blocked(g, v) ==
    IF v.there THEN Conflict(v) \/ NewExternal(g, v) \/ NotKnown(g, v) \/ Active(v) \/ Breached(g, v)
    ELSE TotalCharge(g) > 0

\* The protection cap: repeated uncertain or active samples hold it, new
\* evidence tightens it.
CapOf(g, v) ==
    LET old == IF Conflict(v) THEN 0 ELSE engine.gpus[g].cap
        tightens == \/ NewExternal(g, v)
                    \/ Active(v) /\ v.fresh
                    \/ (NotKnown(g, v) \/ Active(v)) /\ old = Unknown
        percent == IF Active(v) /\ v.fresh THEN ActiveShrink ELSE ProtectiveShrink
        target == SatSub(TotalCharge(g), CeilPercent(TotalCharge(g), percent)) IN
    IF ~tightens THEN old ELSE IF old = Unknown THEN target ELSE Least(old, target)

\* Faulty: a device that is not in the inventory keeps its clock.
StableAcrossAbsence(g) ==
    IF ~snap.gpus[g].there THEN engine.gpus[g].stable
    ELSE IF Blocked(g, snap.gpus[g]) \/ ~HostSafe THEN Unknown
    ELSE IF engine.gpus[g].stable = Unknown THEN now ELSE engine.gpus[g].stable
StableOf(g) ==
    IF ~snap.gpus[g].there \/ Blocked(g, snap.gpus[g]) \/ ~HostSafe THEN Unknown
    ELSE IF engine.gpus[g].stable = Unknown THEN now ELSE engine.gpus[g].stable

Cooled(stable) == stable # Unknown /\ now - stable >= Cooldown
DeviceCooled(g) == snap.gpus[g].there /\ ~Blocked(g, snap.gpus[g]) /\ Cooled(StableOf(g))

\* Faulty: the cap is dropped with the first sample that is not blocked.
NextCapUncooled(g) ==
    LET v == snap.gpus[g] IN
    IF ~v.there THEN engine.gpus[g].cap ELSE IF ~Blocked(g, v) THEN Unknown ELSE CapOf(g, v)
\* An absent device keeps its cap; a full stable interval lifts it.
NextCap(g) ==
    LET v == snap.gpus[g] IN
    IF ~v.there THEN engine.gpus[g].cap ELSE IF DeviceCooled(g) THEN Unknown ELSE CapOf(g, v)

GpuBudget(g) ==
    LET v == snap.gpus[g] IN
    IF ~v.there THEN 0
    ELSE IF NextCap(g) = Unknown THEN MemoryBudget(g, v)
    ELSE Least(MemoryBudget(g, v), NextCap(g))

-----------------------------------------------------------------------------
(* evaluate: the decision. *)
Budget == [d \in Dims |-> IF snap.stop THEN 0 ELSE IF d \in Host THEN HostBudget(d) ELSE GpuBudget(d)]

UnsafeNow ==
    \/ snap.stop
    \/ \E d \in Host : HostUnknown(d) \/ TotalCharge(d) > HostBudget(d)
    \/ \E g \in Gpus : Blocked(g, snap.gpus[g])

\* Faulty: a victim must help in every dimension that is short.
ContributesEverywhere(left, a) ==
    LET short == {d \in Dims : left[d] > Budget[d]} IN short # {} /\ \A d \in short : Charge(a, d) > 0
Contributes(left, a) == \E d \in Dims : left[d] > Budget[d] /\ Charge(a, d) > 0

\* Drains under way are planned releases; then pending work goes first, and
\* guaranteed work only when everything must go.
WouldDrain ==
    LET eligible == {a \in InPhase({"pending", "running"}) : snap.stop \/ a \notin Guaranteed}
        before(a, b) == \/ allocs[a].phase = "pending" /\ allocs[b].phase # "pending"
                        \/ allocs[a].phase = allocs[b].phase /\ a < b
        less(left, a) == [d \in Dims |-> SatSub(left[d], Charge(a, d))]
        planned == FoldLeft(less, [d \in Dims |-> TotalCharge(d)], SetToSeq(InPhase({"draining"})))
        take(acc, a) == IF snap.stop \/ Contributes(acc.left, a)
                        THEN [left |-> less(acc.left, a), drain |-> acc.drain \cup {a}] ELSE acc IN
    FoldLeft(take, [left |-> planned, drain |-> {}], SetToSortSeq(eligible, before)).drain

\* The decision, narrowed to the operator's envelope by the agent.
Decide(stable, host) ==
    LET budget == Budget
        drain == WouldDrain
        gpus == {g \in Gpus : ~snap.stop /\ DeviceCooled(g)}
        expansion == \/ ~UnsafeNow /\ Cooled(stable) /\ drain = {}
                     \/ Cooled(host) /\ \E g \in gpus : budget[g] > TotalCharge(g)
        exceeded == \E d \in Dims : TotalCharge(d) > Envelope[d] IN
    [budget |-> [d \in Dims |-> Least(budget[d], Envelope[d])], gpus |-> gpus,
     expansion |-> expansion /\ ~exceeded, cpuRam |-> Cooled(host) /\ ~exceeded,
     drain |-> IF exceeded THEN Charged ELSE drain]

\* What a reader of the snapshot s would call a disturbance.
Disturbed(s, g) ==
    LET v == s.gpus[g] IN
    \/ ~v.there \/ v.used = Unknown \/ ~v.listed
    \/ IF Mode = "occupied" THEN ~(v.pids \subseteq Permitted)
       ELSE v.activity # "idle" \/ (v.evidence = "memory" /\ v.pids # {})
    \/ snap.gpus[g].there /\ v.pids \ snap.gpus[g].pids # {}
HostDisturbed(s, t) ==
    \/ s.stop \/ ~s.host.valid \/ \E d \in Host : s.host.used[d] = Unknown
    \/ engine.received # Unknown /\ s.mark = "reset"
    \/ engine.received # Unknown /\ s.mark = "same" /\ t - alarm["mark"] > Freshness
Alarm(s, t, d) ==
    CASE d = "host" -> HostDisturbed(s, t)
      [] d = "mark" -> s.mark # "same" \/ engine.received = Unknown
      [] OTHER -> Disturbed(s, d)

\* Nothing that counts against the allocations differs between two snapshots.
SameWorld(s) ==
    /\ s.host = snap.host /\ s.mark = "new" /\ ~s.stop
    /\ \A g \in Gpus : s.gpus[g] = [snap.gpus[g] EXCEPT !.fresh = TRUE]

\* One sample: the host, the devices, and what is attributed to each process.
Sample ==
    /\ step \in {"idle", "decided"} /\ step' = "sampled"
    /\ \E dt \in 1..MaxStep, h \in Hosts, v \in [Gpus -> Sights], m \in Marks, x \in Stops,
          seen \in [InPhase({"running", "draining"}) -> Uses \cup {Zero}] :
          LET s == [host |-> h, mark |-> m, stop |-> x, gpus |-> v] IN
          /\ now + dt <= MaxTime /\ now' = now + dt /\ snap' = s
          /\ allocs' = [a \in Allocs |->
                IF a \in DOMAIN seen THEN [allocs[a] EXCEPT !.use = seen[a], !.seen = seen[a] # Zero]
                ELSE allocs[a]]
          /\ alarm' = [d \in DOMAIN alarm |-> IF Alarm(s, now', d) THEN now' ELSE alarm[d]]
          /\ since' = [since EXCEPT !.same = SameWorld(s) /\ allocs' = allocs]
    /\ UNCHANGED <<engine, decision, report, grown>>

Evaluate ==
    LET stable == IF UnsafeNow THEN Unknown ELSE IF engine.stable = Unknown THEN now ELSE engine.stable
        host == IF ~HostSafe THEN Unknown ELSE IF engine.host = Unknown THEN now ELSE engine.host IN
    /\ step = "sampled" /\ step' = "decided"
    /\ engine' = [stable |-> stable, host |-> host, received |-> Received,
                  gpus |-> [g \in Gpus |->
                     LET v == snap.gpus[g] IN
                     [pids |-> IF v.there THEN v.pids ELSE engine.gpus[g].pids,
                      external |-> IF v.there THEN ExternalOf(g, v) ELSE engine.gpus[g].external,
                      cap |-> NextCap(g), stable |-> StableOf(g)]]]
    /\ decision' = Decide(stable, host)
    /\ since' = [admitted |-> {}, moved |-> FALSE, same |-> FALSE]
    /\ UNCHANGED <<now, snap, allocs, report, grown, alarm>>

-----------------------------------------------------------------------------
(* The agent's report, the offers, launches and first authorizations. *)
\* schedulable_budget: a device without admission has none.
Schedulable == [d \in Dims |-> IF d \in Gpus \ decision.gpus THEN 0 ELSE decision.budget[d]]

\* A drain lowers the admitted parallelism, and the next worker waits again.
Grown ==
    IF decision.drain \cap Charged = {} THEN grown
    ELSE [admitted |-> Least(grown.admitted, SatSub(Cardinality(Workers), Cardinality(decision.drain \cap Charged))),
          at |-> now]

LaunchSlots ==
    LET active == Cardinality(Workers)
        may == IF now - Grown.at >= Cooldown THEN 1 ELSE 0 IN
    IF (decision.expansion \/ decision.cpuRam) /\ ~snap.stop
      THEN Least(SatSub(MaxWorkers, active), SatSub(Grown.admitted, active) + may) ELSE 0

NodeReport ==
    [budget |-> Schedulable, expansion |-> (decision.expansion \/ decision.cpuRam) /\ ~snap.stop,
     gpu |-> decision.expansion /\ ~snap.stop, slots |-> LaunchSlots, at |-> now,
     charge |-> [a \in Allocs |-> [d \in Dims |-> Charge(a, d)]],
     quiet |-> {d \in {"host"} \cup Gpus : now - alarm[d] >= Cooldown}]

Asks(a) == {g \in Gpus : Request[a][g] > 0}
\* gpu_request_allowed and fits_requested: the coordinator charges every
\* allocation it has not seen released.
Admissible(r, held, a) ==
    LET total(d) == LET c(b) == r.charge[b][d] IN MapThenSumSet(c, held) IN
    /\ r.expansion
    /\ Asks(a) # {} => r.gpu /\ (a \in Guaranteed => Mode = "contention_aware")
    /\ \A g \in Asks(a) : r.budget[g] > 0 /\ total(g) <= r.budget[g]
    /\ \A d \in Host : total(d) <= r.budget[d]

\* One heartbeat, lost or received: the coordinator frees what is reported
\* released and reserves one offer after the other.
Heartbeat ==
    /\ step = "decided" /\ step' = "beat" /\ grown' = Grown
    /\ \/ UNCHANGED <<report, allocs, since>>
       \/ LET held == Allocs \ InPhase({"none", "gone"}) IN
          /\ report' = NodeReport
          /\ \E A \in SUBSET (Allocs \ held) :
                /\ \A a \in A : Admissible(NodeReport, held \cup A, a)
                /\ Cardinality(A) <= SatSub(LaunchSlots, Cardinality(InPhase({"offered"})))
                /\ allocs' = [a \in Allocs |-> IF a \in A THEN [Idle EXCEPT !.phase = "offered"]
                                               ELSE IF a \in held THEN allocs[a] ELSE Idle]
                /\ since' = [since EXCEPT !.admitted = A]
    /\ UNCHANGED <<now, snap, engine, decision, alarm>>

\* validate_gpu_launch_contract.
LaunchContract(a) ==
    \A g \in Asks(a) :
        LET v == snap.gpus[g] IN
        /\ a \in Guaranteed => Mode = "contention_aware"
        /\ v.there /\ Capability(v) # "insufficient"
        /\ Capability(v) = "non_sharing" => v.pids = {}
        /\ Capability(v) = "occupied" \/ v.activity = "idle"

\* The reply brings an offer: its preparation starts with the snapshot and the
\* budget of this moment, and is refused when they do not allow it.
Launch(a) ==
    LET active == Cardinality(Workers) IN
    /\ step = "beat" /\ allocs[a].phase = "offered"
    /\ active < MaxWorkers /\ ~snap.stop
    /\ allocs' = [allocs EXCEPT ![a].phase = IF LaunchContract(a) THEN "preparing" ELSE "gone",
                                ![a].room = IF LaunchContract(a) THEN Schedulable ELSE Zero]
    /\ grown' = IF active >= grown.admitted THEN [admitted |-> active + 1, at |-> now] ELSE grown
    /\ UNCHANGED <<now, step, snap, engine, decision, report, alarm, since>>

\* The reply has been handled, or was lost.
Replied ==
    /\ step = "beat" /\ step' = "idle"
    /\ UNCHANGED <<now, snap, allocs, engine, decision, report, grown, alarm, since>>

Moves(a, new) ==
    /\ step # "sampled"
    /\ allocs' = [allocs EXCEPT ![a] = new]
    /\ UNCHANGED <<now, step, snap, engine, decision, report, grown, alarm>>

\* reserve_generation: the node's journal counts reservations, not observed use.
Fits(a) ==
    LET reserved(d) == LET c(b) == Request[b][d] IN MapThenSumSet(c, Charged \cup {a}) IN
    \A d \in Host \cup Asks(a) : reserved(d) <= allocs[a].room[d]

\* The preparation runs beside the loop, which may sample again meanwhile.
Prepare(a) ==
    /\ allocs[a].phase = "preparing"
    /\ Moves(a, [Idle EXCEPT !.phase = IF Fits(a) THEN "pending" ELSE "gone"])
    /\ since' = [since EXCEPT !.moved = @ \/ a \notin since.admitted]

Shifts(a, new) == Moves(a, new) /\ since' = [since EXCEPT !.moved = TRUE]

\* The first grant, from the last report the coordinator has.
Authorize(a) ==
    /\ allocs[a].phase = "pending"
    /\ now - report.at <= TelemetryTtl
    /\ Admissible(report, Allocs \ InPhase({"none"}), a)
    /\ Shifts(a, [allocs[a] EXCEPT !.phase = "running"])

Yield(a) ==
    /\ a \in decision.drain /\ allocs[a].phase \in {"pending", "running"}
    /\ Shifts(a, [allocs[a] EXCEPT !.phase = "draining"])

Release(a) ==
    /\ allocs[a].phase \in {"pending", "running", "draining"}
    /\ Shifts(a, [Idle EXCEPT !.phase = "gone"])

Next ==
    \/ Sample \/ Evaluate \/ Heartbeat \/ Replied
    \/ \E a \in Allocs : Launch(a) \/ Prepare(a) \/ Authorize(a) \/ Yield(a) \/ Release(a)

Spec == Init /\ [][Next]_vars

-----------------------------------------------------------------------------
Amounts == [Dims -> Nat]
TypeOK ==
    /\ now \in 0..MaxTime /\ step \in {"idle", "sampled", "decided", "beat"}
    /\ \A a \in Allocs : /\ allocs[a].phase \in {"none", "offered", "preparing", "pending", "running", "draining", "gone"}
                         /\ allocs[a].use \in Amounts /\ allocs[a].room \in Amounts
    /\ decision.budget \in Amounts /\ decision.gpus \subseteq Gpus /\ decision.drain \subseteq Allocs
    /\ \A g \in Gpus : engine.gpus[g].cap \in Nat \cup {Unknown} /\ engine.gpus[g].stable \in (0..now) \cup {Unknown}
    /\ report.budget \in Amounts /\ report.slots \in 0..MaxWorkers
    /\ grown.admitted \in Nat

\* Yielding is enough: in a dimension that the work which stays still overcharges,
\* nothing that may be drained is left (would_drain, allocations_fit).
DrainSuffices ==
    step = "decided" /\ ~since.moved =>
        LET stays == InPhase({"pending", "running"}) \ (decision.drain \cup since.admitted)
            kept(d) == LET c(a) == Charge(a, d) IN MapThenSumSet(c, stays) IN
        \A d \in Dims : kept(d) > decision.budget[d] => \A a \in stays \ Guaranteed : Charge(a, d) = 0

\* Nothing is offered or first authorized on a device, or at all, unless the
\* report it rests on came after a whole cooldown in which every sample of the
\* device and of the host was undisturbed: no vanished device, unknown reading,
\* stuck or reset collector, external activity, external process that is new, not
\* permitted or, where activity cannot be told, there at all.
AdmitsCalmly ==
    \A a \in Allocs :
        (\/ allocs[a].phase \in {"none", "gone"} /\ allocs'[a].phase = "offered"
         \/ allocs[a].phase = "pending" /\ allocs'[a].phase = "running")
        => {"host"} \cup Asks(a) \subseteq report'.quiet

\* A protection cap is held, through repeated, missing and uncertain samples,
\* until the device was undisturbed for a whole cooldown (protection_cap).
HoldsCap ==
    \A g \in Gpus :
        engine.gpus[g].cap # Unknown /\ decision'.budget[g] > engine.gpus[g].cap
        => now - alarm[g] >= Cooldown

\* Work offered from one decision is no victim of the next one while the node
\* looks the same: admission and yielding count the same charges
\* (schedulable_budget, would_drain).
DrainsNoneAdmitted ==
    step = "sampled" /\ since.same /\ ~since.moved
    => since.admitted \cap decision'.drain = {}
=============================================================================
