---------------------------- MODULE Coordinator ----------------------------
(***************************************************************************)
(* The CedeGrid coordinator (coordinator.rs, with the task ledger of       *)
(* state.rs).  One variable per durable SQLite table, one action per       *)
(* request, plus restart and the crash points between the transactions of  *)
(* one request.                                                            *)
(*                                                                         *)
(* Every request runs under the coordinator mutex: the node session is     *)
(* checked, the durable clock watermark advances, lapsed leases expire,    *)
(* then the handler runs.  A refused request keeps the first two effects,  *)
(* which is exactly what Status does, so the actions below are the         *)
(* accepted requests.                                                      *)
(*                                                                         *)
(* An attempt <<t, g>> stands for the assignment row of generation g of    *)
(* task t; the code's fresh UUID identifies the same pair.  A row that     *)
(* does not exist has phase "none".                                        *)
(***************************************************************************)
EXTENDS Resources

CONSTANTS
    Nodes,          \* node identities bound to certificates
    ReplayNodes,    \* nodes with replayable storage, which open sessions
    Operator,       \* the operator principal
    Principals,     \* who sends attempt requests: Nodes, or Operator too
    Pools, Jobs, Tasks,
    PoolSpecs,      \* pool contents an operator may put
    JobOf, Slot,    \* the job of a task and its index in the job
    JobPool, JobPriority,
    TaskSpec,       \* the LaunchRequest of each task
    Capacities,     \* capacity part of a node report
    Usages,         \* observed usage a node may report, None if unmeasured
    Foreign,        \* allocation identities unknown to the ledger
    Boots, Pids,    \* boot identities and process identities
    Controls,       \* runtime controls a launch may require
    DurableLocal,   \* the control "storage.durable_local"
    Artifacts,      \* published content
    Results,        \* result payloads
    ResultArtifacts,    \* the artifacts a result references
    CheckpointSequence, \* checkpoint_sequence of a result, 0 if absent
    Lease, TTL,     \* lease_ms, telemetry_ttl_ms
    RetryLimit, RetryBackoff, RetryBackoffMax, YieldBackoff, YieldBackoffMax,
    Lags,           \* age of an observation when its report arrives
    ReportPhases,   \* phases a node report may contain
    Truthful,       \* TRUE: no report contradicts a recorded release
    None,           \* an absent optional value
    Drainable, Cancellable, \* nodes and jobs the operator drains or cancels
    MaxGen, MaxSeq, MaxClock, MaxEpoch, MaxSession  \* bounds

Classes == {"opportunistic", "guaranteed"}
RemotePhases == {"offered", "prepared", "authorized", "running",
                 "draining", "uncertain", "released"}
Statuses == {"absent", "queued", "assigned", "needs_reconciliation",
             "completed"}

ASSUME PrincipalsAssumption ==
    /\ None \notin Nodes /\ Operator \notin Nodes
    /\ Principals \subseteq Nodes \cup {Operator}
    /\ ReplayNodes \subseteq Nodes /\ Drainable \subseteq Nodes

ASSUME CatalogAssumption ==
    /\ IsFiniteSet(Tasks)
    /\ JobOf \in [Tasks -> Jobs] /\ Slot \in [Tasks -> Nat \ {0}]
    /\ JobPool \in [Jobs -> Pools] /\ JobPriority \in [Jobs -> Int]
    /\ Cancellable \subseteq Jobs
    /\ PoolSpecs \subseteq [nodes : SUBSET Nodes, min : Nat, max : Nat,
                            class : Classes]
    /\ None \notin PoolSpecs
    /\ \A p \in PoolSpecs : p.min <= p.max /\ p.nodes # {}

ASSUME LaunchAssumption ==
    /\ TaskSpec \in [Tasks -> [replaySafe : BOOLEAN, class : Classes,
                               maxAttempts : Nat, need : Vector,
                               controls : SUBSET Controls,
                               inputs : SUBSET Artifacts]]
    /\ Capacities \subseteq [expand : BOOLEAN, gpuExpand : BOOLEAN,
                             gpuGuaranteed : BOOLEAN, budget : Vector,
                             slots : Nat, controls : SUBSET Controls]
    /\ Usages \subseteq Vector \cup {None}
    /\ ResultArtifacts \in [Results -> SUBSET Artifacts]
    /\ CheckpointSequence \in [Results -> Nat]
    /\ ReportPhases \subseteq RemotePhases /\ Truthful \in BOOLEAN

ASSUME TimingAssumption ==
    /\ Lease \in Nat \ {0} /\ TTL \in Nat \ {0} /\ Lags \subseteq Int
    /\ RetryLimit \in Nat \ {0}
    /\ RetryBackoff \in Nat \ {0} /\ RetryBackoffMax \in Nat
    /\ YieldBackoff \in Nat \ {0} /\ YieldBackoffMax \in Nat
    /\ RetryBackoffMax >= RetryBackoff /\ YieldBackoffMax >= YieldBackoff

ASSUME BoundsAssumption ==
    /\ MaxGen \in Nat \ {0} /\ MaxSeq \in Nat /\ MaxClock \in Nat
    /\ MaxEpoch \in Nat /\ MaxSession \in Nat

Attempts == Tasks \X (1..MaxGen)
Identities == [boot : Boots, pid : Pids]

ASSUME AbsenceAssumption ==
    None \notin Identities /\ None \notin Attempts \X Results

VARIABLES
    jobs,           \* "absent", "active" or "cancelled"
    pools,          \* the pool's spec, or None
    sequence,       \* task_specs.sequence, 0 when not submitted
    tasks,          \* status, generation and receipt of each task
    res,            \* reservations
    fences,         \* allocation_fences
    drains,         \* drain_requests
    preparations,   \* recorded process identity of each attempt, or None
    nodes,          \* the last report of each node, or None
    drained,        \* nodes the operator drains
    unrecognized,   \* unrecognized_allocations of each node
    sessions,       \* replay_node_sessions: id 0 when not registered
    retired,        \* replay_retired_sessions
    retry,          \* retry_state; an absent row counts as zeros
    failureReceipts,
    publications,   \* <<attempt, artifact>> pairs
    checkpoints,    \* latest accepted <<attempt, result>>, or None
    epoch, lastClock

catalog   == <<jobs, pools, sequence>>
evidence  == <<nodes, drained, unrecognized>>
replay    == <<sessions, retired>>
outcomes  == <<publications, checkpoints>>
failures  == <<retry, failureReceipts>>
vars == <<catalog, tasks, res, fences, drains, preparations, evidence,
          replay, failures, outcomes, epoch, lastClock>>

NoReservation == [node |-> None, phase |-> "none", observed |-> None,
                  seq |-> 0, deadline |-> 0]
NoRetry == [failures |-> 0, yields |-> 0, notBefore |-> 0]

Init ==
    /\ jobs = [j \in Jobs |-> "absent"]
    /\ pools = [p \in Pools |-> None]
    /\ sequence = [t \in Tasks |-> 0]
    /\ tasks = [t \in Tasks |->
                  [status |-> "absent", generation |-> 0, receipt |-> None]]
    /\ res = [a \in Attempts |-> NoReservation]
    /\ fences = {} /\ drains = {}
    /\ preparations = [a \in Attempts |-> None]
    /\ nodes = [n \in Nodes |-> None]
    /\ drained = {}
    /\ unrecognized = [n \in Nodes |-> {}]
    /\ sessions = [n \in Nodes |-> [id |-> 0, boot |-> None, ready |-> FALSE]]
    /\ retired = [n \in Nodes |-> {}]
    /\ retry = [t \in Tasks |-> NoRetry]
    /\ failureReceipts = {} /\ publications = {}
    /\ checkpoints = [t \in Tasks |-> None]
    /\ epoch = 1 /\ lastClock = 0

-----------------------------------------------------------------------------
(* What the handlers read.  Tables that change inside one request are      *)
(* parameters: R reservations, T tasks, F fences, D drain requests.        *)

\* An UPDATE statement: the rows in f replace those of the table g.
Override(f, g) ==
    IF DOMAIN f = {} THEN g
    ELSE [x \in DOMAIN g |-> IF x \in DOMAIN f THEN f[x] ELSE g[x]]

TaskOf(a) == a[1]
PoolOf(t) == JobPool[JobOf[t]]
Opportunistic(t) == TaskSpec[t].class = "opportunistic"

Unreleased(R, a) == R[a].phase \notin {"none", "released"}
Live(R, a) == R[a].phase \notin {"none", "released", "uncertain"}
IsLatest(T, a) == T[a[1]].generation = a[2]

\* current_attempt
CurrentAttempt(T, a) ==
    IsLatest(T, a) /\ T[a[1]].status \in {"assigned", "completed"}

\* The count(*) of unreleased reservations of one task is not zero.
Held(R, t) == \E a \in Attempts : TaskOf(a) = t /\ Unreleased(R, a)

PoolRows(R, p) == {a \in Attempts : PoolOf(TaskOf(a)) = p /\ Unreleased(R, a)}

\* The larger of the reserved and the observed usage.
ChargeOf(R, a) ==
    IF R[a].observed = None THEN TaskSpec[TaskOf(a)].need
    ELSE Maximum(TaskSpec[TaskOf(a)].need, R[a].observed)

\* Released rows alone stop charging their node.
NodeCharge(R, n) ==
    Total(LAMBDA a : ChargeOf(R, a),
          {a \in Attempts : R[a].node = n /\ Unreleased(R, a)})

GpuRequestAllowed(t, cap) ==
    LET spec == TaskSpec[t] IN
    RequestsGpu(spec.need) =>
        /\ cap.gpuExpand
        /\ spec.class = "guaranteed" => cap.gpuGuaranteed
        /\ \A s \in Scopes \ Shared : spec.need[s] > 0 => cap.budget[s] > 0

Registered(n) == sessions[n].id # 0

ReplayNodeCanAdmit(R, n, ready, strangers) ==
    Registered(n) =>
        /\ ready /\ strangers = {}
        /\ \A a \in Attempts : R[a].node = n => R[a].phase # "uncertain"

ReplayRequestAllowed(n, t) ==
    Registered(n) =>
        /\ TaskSpec[t].replaySafe /\ Opportunistic(t)
        /\ DurableLocal \notin TaskSpec[t].controls

\* should_drain: the rank of a counts older work of its pool.
ShouldDrain(R, D, a) ==
    LET t == TaskOf(a)
        pool == pools[PoolOf(t)]
        ahead == {b \in PoolRows(R, PoolOf(t)) :
                    b = a \/ sequence[TaskOf(b)] < sequence[t]}
    IN \/ jobs[JobOf[t]] = "cancelled"
       \/ R[a].node \in drained
       \/ a \in D
       \/ R[a].phase = "draining"
       \/ R[a].node \notin pool.nodes
       \/ Cardinality(ahead) > pool.max

Fresh(then, now) == now - then <= TTL

-----------------------------------------------------------------------------
(* Sessions, the clock and lease expiry: the preamble of every request.    *)

\* validate_node_session: s = 0 is a request without a session wrapper.
SessionAccepts(n, s, isHeartbeat) ==
    /\ s = sessions[n].id
    /\ s # 0 => sessions[n].ready \/ isHeartbeat

\* authorize_assignment, after the session check of a node principal.
Authorized(p, s, a) ==
    /\ res[a].phase # "none"
    /\ \/ p = Operator
       \/ p = res[a].node /\ SessionAccepts(p, s, FALSE)

Lapsed(now) == {a \in Attempts : /\ Live(res, a) /\ res[a].deadline <= now
                                 /\ Opportunistic(TaskOf(a))}

\* Faulty: unsafe work is queued again without an operator.
UnsettledAnyway(t) == "queued"

\* Faulty: the reservation's phase is written as the task's status.
UnsettledAsPhase(t) == "uncertain"

\* Where a task goes when its attempt's execution is no longer certain.
Unsettled(t) ==
    IF TaskSpec[t].replaySafe THEN "queued" ELSE "needs_reconciliation"

MakeUncertain(R, S) ==
    Override([a \in S |-> [R[a] EXCEPT !.phase = "uncertain"]], R)

TasksOf(S) == {TaskOf(a) : a \in S}

MarkUncertain(T, S) ==
    Override([t \in {u \in TasksOf(S) : T[u].status = "assigned"} |->
                [T[t] EXCEPT !.status = Unsettled(t)]], T)

\* The tables once every lapsed lease has expired.
ResAt(now) == MakeUncertain(res, Lapsed(now))
TasksAt(now) == MarkUncertain(tasks, Lapsed(now))
\* Faulty: expiry forgets the fence.
FencesAtUnfenced(now) == fences
FencesAt(now) == fences \cup Lapsed(now)

(***************************************************************************)
(* advance_clock.  A clock behind the watermark refuses the request, and   *)
(* mark_uncertain refuses a generation that is not the latest.             *)
(***************************************************************************)
ClockAccepts(now) ==
    /\ now \in lastClock..MaxClock
    /\ \A a \in Lapsed(now) : IsLatest(tasks, a)

\* The preamble is the only change to these tables.
Settle(now) ==
    /\ lastClock' = now
    /\ res' = ResAt(now) /\ tasks' = TasksAt(now) /\ fences' = FencesAt(now)

-----------------------------------------------------------------------------
(* Operator requests.                                                      *)

\* Status, reads, idempotent repeats and refused requests.
Status(now) ==
    /\ ClockAccepts(now)
    /\ Settle(now)
    /\ UNCHANGED <<catalog, drains, preparations, evidence, replay,
                   failures, outcomes, epoch>>

\* The class of a pool is immutable once a job was submitted to it.
PutPool(p, spec, now) ==
    /\ ClockAccepts(now)
    /\ pools[p] # None /\ pools[p].class # spec.class =>
         \A j \in Jobs : JobPool[j] = p => jobs[j] = "absent"
    /\ pools' = [pools EXCEPT ![p] = spec]
    /\ Settle(now)
    /\ UNCHANGED <<jobs, sequence, drains, preparations, evidence, replay,
                   failures, outcomes, epoch>>

JobTasks(j) == {t \in Tasks : JobOf[t] = j}

Submit(j, now) ==
    /\ ClockAccepts(now)
    /\ jobs[j] = "absent" /\ pools[JobPool[j]] # None /\ JobTasks(j) # {}
    /\ \A t \in JobTasks(j) :
         /\ TaskSpec[t].class = pools[JobPool[j]].class
         /\ \A x \in TaskSpec[t].inputs : \E a \in Attempts :
              <<a, x>> \in publications
    /\ jobs' = [jobs EXCEPT ![j] = "active"]
    /\ LET last == Cardinality({t \in Tasks : sequence[t] > 0}) IN
       sequence' = Override([t \in JobTasks(j) |-> last + Slot[t]], sequence)
    /\ tasks' = Override([t \in JobTasks(j) |->
                            [tasks[t] EXCEPT !.status = "queued"]], TasksAt(now))
    /\ lastClock' = now /\ res' = ResAt(now) /\ fences' = FencesAt(now)
    /\ UNCHANGED <<pools, drains, preparations, evidence, replay, failures,
                   outcomes, epoch>>

AttemptsLeft(t, generation) ==
    TaskSpec[t].maxAttempts = 0 \/ generation < TaskSpec[t].maxAttempts

Retry(t, confirmed, now) ==
    /\ ClockAccepts(now)
    /\ TasksAt(now)[t].status \in {"queued", "needs_reconciliation"}
    /\ TaskSpec[t].replaySafe \/ confirmed
    /\ AttemptsLeft(t, tasks[t].generation)
    /\ ~Held(res, t)
    /\ tasks' = [TasksAt(now) EXCEPT ![t].status = "queued"]
    /\ retry' = [retry EXCEPT ![t] = NoRetry]
    /\ lastClock' = now /\ res' = ResAt(now) /\ fences' = FencesAt(now)
    /\ UNCHANGED <<catalog, drains, preparations, evidence, replay,
                   failureReceipts, outcomes, epoch>>

Cancel(j, now) ==
    /\ ClockAccepts(now)
    /\ jobs[j] # "absent"
    /\ jobs' = [jobs EXCEPT ![j] = "cancelled"]
    /\ Settle(now)
    /\ UNCHANGED <<pools, sequence, drains, preparations, evidence, replay,
                   failures, outcomes, epoch>>

DrainNode(n, drain, now) ==
    /\ ClockAccepts(now)
    /\ nodes[n] # None
    /\ drained' = IF drain THEN drained \cup {n} ELSE drained \ {n}
    /\ Settle(now)
    /\ UNCHANGED <<catalog, drains, preparations, nodes, unrecognized,
                   replay, failures, outcomes, epoch>>

-----------------------------------------------------------------------------
(* Leases: Prepared and Renew.                                             *)

\* The first authorization needs fresh capacity evidence that still fits.
CapacityEvidence(R, a, now) ==
    LET t == TaskOf(a)
        n == R[a].node
        report == nodes[n]
    IN /\ report.cap.expand
       /\ Fresh(report.received, now) /\ Fresh(report.observedAt, now)
       /\ GpuRequestAllowed(t, report.cap)
       /\ FitsRequested(NodeCharge(R, n), report.cap.budget, TaskSpec[t].need)

\* Faulty: grant accepts an uncertain row.
GrantableUncertain(R, T, a, now) ==
    /\ CurrentAttempt(T, a) /\ Unreleased(R, a)
    /\ R[a].seq = 0 /\ ~ShouldDrain(R, drains, a) => CapacityEvidence(R, a, now)

\* The checks of grant, after expiry.
Grantable(R, T, a, now) ==
    /\ CurrentAttempt(T, a) /\ Live(R, a)
    /\ LET n == R[a].node IN
       ReplayNodeCanAdmit(R, n, sessions[n].ready, unrecognized[n])
    /\ ReplayRequestAllowed(R[a].node, TaskOf(a))
    /\ R[a].seq = 0 /\ ~ShouldDrain(R, drains, a) => CapacityEvidence(R, a, now)
    /\ R[a].seq > 0 /\ Opportunistic(TaskOf(a)) => R[a].deadline > now

Extend(R, a, now) ==
    [R EXCEPT ![a] = [R[a] EXCEPT !.phase = "authorized",
                                  !.seq = R[a].seq + 1,
                                  !.deadline = now + Lease]]

\* The attempt has no recorded process yet, or this one.
SameProcess(a, identity) == preparations[a] \in {None, identity}

(***************************************************************************)
(* The gated process identity is recorded before grant decides, in a       *)
(* transaction of its own: it stays when the authorization is refused.  A  *)
(* repeat of Prepared after the first grant returns the same lease.        *)
(***************************************************************************)
Prepared(p, s, a, e, identity, applied, now) ==
    /\ ClockAccepts(now) /\ Authorized(p, s, a)
    /\ e = epoch
    /\ identity.boot = nodes[res[a].node].boot
    /\ TaskSpec[TaskOf(a)].controls \subseteq applied
    /\ CurrentAttempt(TasksAt(now), a)
    /\ SameProcess(a, identity)
    /\ preparations' = [preparations EXCEPT ![a] = identity]
    /\ LET R == ResAt(now) IN
       res' = IF /\ Grantable(R, TasksAt(now), a, now)
                 /\ R[a].seq = 0 /\ ~ShouldDrain(R, drains, a)
              THEN Extend(R, a, now) ELSE R
    /\ lastClock' = now /\ tasks' = TasksAt(now) /\ fences' = FencesAt(now)
    /\ UNCHANGED <<catalog, drains, evidence, replay, failures, outcomes,
                   epoch>>

\* Faulty: a lease may be renewed before it was granted.
RenewsUnprepared(R, a, previous) ==
    R[a].seq < MaxSeq /\ previous \in {R[a].seq, R[a].seq - 1}

\* A renewal names the sequence it extends; the one before it is a lost reply.
Renews(R, a, previous) ==
    /\ R[a].seq > 0 /\ R[a].seq < MaxSeq
    /\ previous \in {R[a].seq, R[a].seq - 1}

Renew(p, s, a, e, previous, now) ==
    LET R == ResAt(now) IN
    /\ ClockAccepts(now) /\ Authorized(p, s, a)
    /\ e = epoch
    /\ Grantable(R, TasksAt(now), a, now)
    /\ Renews(R, a, previous)
    /\ res' = IF previous = R[a].seq /\ ~ShouldDrain(R, drains, a)
              THEN Extend(R, a, now) ELSE R
    /\ lastClock' = now /\ tasks' = TasksAt(now) /\ fences' = FencesAt(now)
    /\ UNCHANGED <<catalog, drains, preparations, evidence, replay, failures,
                   outcomes, epoch>>

-----------------------------------------------------------------------------
(* Artifacts, checkpoints and results.                                     *)

CommitUpload(p, s, a, x, now) ==
    /\ ClockAccepts(now) /\ Authorized(p, s, a)
    /\ CurrentAttempt(TasksAt(now), a)
    /\ publications' = publications \cup {<<a, x>>}
    /\ Settle(now)
    /\ UNCHANGED <<catalog, drains, preparations, evidence, replay, failures,
                   checkpoints, epoch>>

Published(a, r) == \A x \in ResultArtifacts[r] : <<a, x>> \in publications

\* Faulty: only the stored submission itself is refused.
AdvancesAnyhow(old, a, r) == old # <<a, r>>

\* Within one attempt the checkpoint sequence increases.
Advances(old, a, r) ==
    old # None /\ old[1] = a =>
      CheckpointSequence[r] > CheckpointSequence[old[2]]

(***************************************************************************)
(* A checkpoint moves forward within one attempt; a later attempt may      *)
(* restart the numbering.  The stored submission is acknowledged again     *)
(* without any change (Status).                                            *)
(***************************************************************************)
PublishCheckpoint(p, s, a, r, now) ==
    LET t == TaskOf(a)
        old == checkpoints[t]
    IN
    /\ ClockAccepts(now) /\ Authorized(p, s, a)
    /\ Published(a, r)
    /\ CurrentAttempt(TasksAt(now), a)
    /\ res[a].seq > 0 /\ TasksAt(now)[t].status = "assigned"
    /\ CheckpointSequence[r] > 0
    /\ Advances(old, a, r)
    /\ checkpoints' = [checkpoints EXCEPT ![t] = <<a, r>>]
    /\ Settle(now)
    /\ UNCHANGED <<catalog, drains, preparations, evidence, replay, failures,
                   publications, epoch>>

\* Faulty: no lease was ever authorized.
AcceptsUnstarted(T, a, r) ==
    T[TaskOf(a)].status = "completed" => T[TaskOf(a)].receipt = <<a, r>>

\* A completed task accepts only a repeat: the receipt hash covers the
\* attempt and the payload.  The first result needs an authorized lease.
Accepts(T, a, r) ==
    IF T[TaskOf(a)].status = "completed" THEN T[TaskOf(a)].receipt = <<a, r>>
    ELSE res[a].seq > 0

Complete(p, s, a, r, now) ==
    LET t == TaskOf(a)
        T == TasksAt(now)
    IN
    /\ ClockAccepts(now) /\ Authorized(p, s, a)
    /\ Published(a, r)
    /\ CurrentAttempt(T, a)
    /\ Accepts(T, a, r)
    /\ tasks' = [T EXCEPT ![t].status = "completed", ![t].receipt = <<a, r>>]
    /\ lastClock' = now /\ res' = ResAt(now) /\ fences' = FencesAt(now)
    /\ UNCHANGED <<catalog, drains, preparations, evidence, replay, failures,
                   outcomes, epoch>>

-----------------------------------------------------------------------------
(* Failures: record_failure for a set S of released latest attempts, those *)
(* in Y yielding their capacity rather than failing.                       *)

\* A shift by 64 or more saturates, and the maximum caps every product.
Backoff(base, maximum, exponent) ==
    LET delay == base * 2^(exponent - 1) IN
    IF exponent <= 64 /\ delay \in 1..maximum THEN delay ELSE maximum

FailureCount(t, yielded) == retry[t].failures + (IF yielded THEN 0 ELSE 1)
YieldCount(t, yielded) == IF yielded THEN retry[t].yields + 1 ELSE 0

RetryRow(t, yielded, now) ==
    LET f == FailureCount(t, yielded)
        y == YieldCount(t, yielded)
    IN [failures |-> f, yields |-> y,
        notBefore |-> now + IF yielded
                            THEN Backoff(YieldBackoff, YieldBackoffMax, y)
                            ELSE Backoff(RetryBackoff, RetryBackoffMax, f)]

\* Faulty: one failure too many.
NextStatusOneMore(t, generation, yielded) ==
    IF /\ TaskSpec[t].replaySafe /\ AttemptsLeft(t, generation)
       /\ FailureCount(t, yielded) <= RetryLimit
    THEN "queued" ELSE "needs_reconciliation"

NextStatus(t, generation, yielded) ==
    IF /\ TaskSpec[t].replaySafe
       /\ FailureCount(t, yielded) < RetryLimit
       /\ AttemptsLeft(t, generation)
    THEN "queued" ELSE "needs_reconciliation"

Failing(T, S) == {t \in TasksOf(S) : T[t].status # "completed"}

FailedTasks(T, S, Y) ==
    Override([t \in Failing(T, S) |->
                [T[t] EXCEPT !.status =
                   NextStatus(t, T[t].generation, t \in TasksOf(Y))]], T)

FailedRetry(T, S, Y, now) ==
    Override([t \in Failing(T, S) |-> RetryRow(t, t \in TasksOf(Y), now)],
             retry)

Fail(p, s, a, kind, now) ==
    LET R == ResAt(now)
        T == TasksAt(now)
        Y == IF kind = "yielded" \/ ShouldDrain(R, drains, a) THEN {a} ELSE {}
    IN
    /\ ClockAccepts(now) /\ Authorized(p, s, a)
    /\ a \notin failureReceipts
    /\ R[a].phase = "released" /\ IsLatest(T, a)
    /\ tasks' = FailedTasks(T, {a}, Y)
    /\ retry' = FailedRetry(T, {a}, Y, now)
    /\ failureReceipts' = failureReceipts \cup {a}
    /\ lastClock' = now /\ res' = R /\ fences' = FencesAt(now)
    /\ UNCHANGED <<catalog, drains, preparations, evidence, replay, outcomes,
                   epoch>>

-----------------------------------------------------------------------------
(* Scheduling one node from its report.                                    *)

\* ORDER BY j.priority DESC, s.sequence ASC
Before(u, t) ==
    LET pu == JobPriority[JobOf[u]]
        pt == JobPriority[JobOf[t]]
    IN pu > pt \/ (pu = pt /\ sequence[u] < sequence[t])

\* Queued work that node n's pool membership and storage admit.
Considered(T, Y, n, now) ==
    {t \in Tasks :
       /\ T[t].status = "queued" /\ jobs[JobOf[t]] = "active"
       /\ now >= Y[t].notBefore
       /\ n \in pools[PoolOf(t)].nodes /\ pools[PoolOf(t)].max > 0
       /\ ReplayRequestAllowed(n, t)}

Exhausted(T, t) == ~AttemptsLeft(t, T[t].generation)

\* MaxGen bounds the generations a run explores.
Eligible(R, T, C, cap) ==
    {t \in C : /\ ~Exhausted(T, t) /\ T[t].generation < MaxGen
               /\ GpuRequestAllowed(t, cap)
               /\ TaskSpec[t].controls \subseteq cap.controls
               /\ ~Held(R, t)}

FreeSlots(R, n, cap) ==
    cap.slots - Cardinality({a \in Attempts : /\ R[a].node = n
                                              /\ R[a].phase = "offered"})

PoolCount(R, p, offers) ==
    Cardinality(PoolRows(R, p)) + Cardinality({t \in offers : PoolOf(t) = p})

\* Faulty: offers of the same pass are not charged.
ChargeWithout(R, n, offers) == NodeCharge(R, n)

ChargeWith(R, n, offers) ==
    Add(NodeCharge(R, n), Total(LAMBDA t : TaskSpec[t].need, offers))

HasRoom(R, p, prior) == PoolCount(R, p, prior) < pools[p].max

\* Task t is offered after the offers in prior.
Admitted(R, n, cap, prior, t) ==
    /\ Cardinality(prior) < FreeSlots(R, n, cap)
    /\ HasRoom(R, PoolOf(t), prior)
    /\ FitsRequested(Add(ChargeWith(R, n, prior), TaskSpec[t].need),
                     cap.budget, TaskSpec[t].need)

Prior(offers, t) == {u \in offers : Before(u, t)}

(***************************************************************************)
(* The queue is walked once, so the offers are the one set in which each   *)
(* eligible task is offered exactly when it is admitted after the earlier  *)
(* ones.                                                                   *)
(***************************************************************************)
IsOffering(R, n, cap, E, offers) ==
    offers = {t \in E : Admitted(R, n, cap, Prior(offers, t), t)}

\* ORDER BY j.priority ASC, s.sequence DESC
YieldsBefore(a, b) == Before(TaskOf(b), TaskOf(a))

\* Lower-priority work of the node that may be asked to leave for t.
Preemptible(R, n, t) ==
    {a \in Attempts :
       /\ R[a].node = n /\ Live(R, a)
       /\ JobPriority[JobOf[TaskOf(a)]] < JobPriority[JobOf[t]]
       /\ TaskSpec[TaskOf(a)].replaySafe /\ Opportunistic(TaskOf(a))}

\* Faulty: off by one at the minimum.
AtFloor(R, p, prior, taken) ==
    PoolCount(R, p, prior) - Cardinality(taken) >= pools[p].min

AboveFloor(R, p, prior, taken) ==
    PoolCount(R, p, prior) - Cardinality(taken) > pools[p].min

\* Candidates are taken in order while their pool keeps its minimum, so of
\* each pool the first ones are taken.
Selected(R, n, prior, t) ==
    LET V == Preemptible(R, n, t) IN
    {a \in V :
       LET p == PoolOf(TaskOf(a))
           taken == {b \in V : PoolOf(TaskOf(b)) = p /\ YieldsBefore(b, a)}
       IN AboveFloor(R, p, prior, taken)}

(***************************************************************************)
(* request_preemption: the shortest prefix of the selection that frees a   *)
(* slot of t's pool and room for t drains; if no prefix does, none drains. *)
(***************************************************************************)
Preempted(R, n, cap, prior, t) ==
    LET p == PoolOf(t)
        S == Selected(R, n, prior, t)
        UpTo(a) == {b \in S : b = a \/ YieldsBefore(b, a)}
        Enough(a) ==
            /\ \/ HasRoom(R, p, prior)
               \/ \E b \in UpTo(a) : PoolOf(TaskOf(b)) = p
            /\ FitsRequested(
                 Add(Subtract(ChargeWith(R, n, prior),
                              Total(LAMBDA b : ChargeOf(R, b), UpTo(a))),
                     TaskSpec[t].need),
                 cap.budget, TaskSpec[t].need)
    IN IF /\ FitsRequested(TaskSpec[t].need, cap.budget, TaskSpec[t].need)
          /\ \E a \in S : Enough(a)
       THEN {a \in S : \A b \in S : YieldsBefore(b, a) => ~Enough(b)}
       ELSE {}

AllPreempted(R, n, cap, E, offers) ==
    UNION {Preempted(R, n, cap, Prior(offers, t), t) : t \in E \ offers}

ScheduledTasks(T, C, offers) ==
    Override([t \in offers \cup {u \in C : Exhausted(T, u)} |->
                IF t \in offers
                THEN [T[t] EXCEPT !.status = "assigned", !.generation = @ + 1]
                ELSE [T[t] EXCEPT !.status = "needs_reconciliation"]], T)

NextAttempt(T, t) == <<t, T[t].generation + 1>>

OfferedRes(R, T, n, offers, now) ==
    Override([a \in {NextAttempt(T, t) : t \in offers} |->
                [node |-> n, phase |-> "offered", observed |-> None, seq |-> 0,
                 deadline |-> now + Lease]], R)

-----------------------------------------------------------------------------
(* Heartbeats.  A report r names the boot, the capacity, when it was       *)
(* observed, the phase and usage of the node's own allocations, and the    *)
(* identities foreign to this ledger that it still holds or has freed.     *)

ReportedPhase(R, F, r, newer, a) ==
    LET old == R[a].phase
        said == r.phase[a]
        startedUnauthorized == R[a].seq = 0 /\ said \in {"running", "authorized"}
    IN IF said = "released" THEN "released"
       ELSE IF \/ said = "uncertain" \/ startedUnauthorized
               \/ old = "released" /\ newer
            THEN "uncertain"
       ELSE IF old = "released" THEN "released"
       ELSE IF a \in F THEN "uncertain"
       ELSE IF old = "draining" THEN "draining"
       ELSE IF old = "running" /\ said \in {"offered", "prepared", "authorized"}
            THEN "running"
       ELSE IF old = "authorized" /\ said \in {"offered", "prepared"}
            THEN "authorized"
       ELSE said

Seen(r) == DOMAIN r.phase

\* Owned allocations that the report should have named.
Missing(R, n, r) ==
    {a \in Attempts \ Seen(r) :
       /\ R[a].node = n /\ Unreleased(R, a)
       /\ Registered(n) \/ R[a].seq > 0 \/ R[a].phase = "prepared"}

MergedRes(R, F, n, r, newer) ==
    Override([a \in Seen(r) \cup Missing(R, n, r) |->
                IF a \in Seen(r)
                THEN [R[a] EXCEPT !.phase = ReportedPhase(R, F, r, newer, a),
                                  !.observed = r.usage[a]]
                ELSE [R[a] EXCEPT !.phase = "uncertain", !.observed = None]], R)

\* Faulty: a local drain is not made durable.
MergedDrainsForgotten(M, r) == drains

\* A local drain and every uncertainty leave a durable mark.
MergedDrains(M, r) == drains \cup {a \in Seen(r) : M[a].phase = "draining"}
MergedFences(R, F, M, n, r) ==
    F \cup Missing(R, n, r) \cup {a \in Seen(r) : M[a].phase = "uncertain"}

Strangers(n, r) == (unrecognized[n] \ r.freed) \cup r.foreign

\* unknown_allocations is empty.
NothingUnknown(R, n, r, newer) ==
    /\ Missing(R, n, r) = {} /\ Strangers(n, r) = {}
    /\ \A a \in Seen(r) :
         /\ R[a].phase = "released" /\ newer => r.phase[a] = "released"
         /\ R[a].seq = 0 => r.phase[a] \notin {"running", "authorized"}

ObservedLive(r) ==
    \A a \in Seen(r) :
      r.phase[a] \in {"running", "draining", "authorized", "uncertain"} =>
        r.usage[a] # None

\* Confirmed releases of work the ledger already took back.
Yielding(T, r) ==
    {a \in Seen(r) : /\ r.phase[a] = "released" /\ IsLatest(T, a)
                     /\ T[TaskOf(a)].status \in {"queued", "needs_reconciliation"}
                     /\ a \notin failureReceipts}

Newer(n, r) == nodes[n] = None \/ r.observedAt > nodes[n].observedAt

HeartbeatAccepted(n, s, r, now) ==
    /\ ClockAccepts(now) /\ SessionAccepts(n, s, TRUE)
    /\ Registered(n) => r.boot = sessions[n].boot
    /\ r.observedAt <= now + TTL
    /\ nodes[n] # None => r.observedAt >= nodes[n].observedAt
    /\ Registered(n) /\ ~sessions[n].ready =>
         \A a \in Attempts : res[a].node = n /\ Unreleased(res, a) =>
           a \in Seen(r) /\ r.phase[a] \in {"released", "uncertain"}

\* The node tables the first transaction of a heartbeat writes.
RecordReport(n, r, now) ==
    /\ nodes' = [nodes EXCEPT ![n] = [boot |-> r.boot, cap |-> r.cap,
                                      observedAt |-> r.observedAt,
                                      received |-> now]]
    /\ unrecognized' = [unrecognized EXCEPT ![n] = Strangers(n, r)]
    /\ sessions' = [sessions EXCEPT ![n].ready = Registered(n)]

(***************************************************************************)
(* The whole heartbeat: reconcile the report, charge the yields it         *)
(* confirms, then schedule the node if the report is fresh and complete.   *)
(***************************************************************************)
Heartbeat(n, s, r, now) ==
    LET R == ResAt(now)
        F == FencesAt(now)
        newer == Newer(n, r)
        M == MergedRes(R, F, n, r, newer)
        Y == Yielding(TasksAt(now), r)
        T == FailedTasks(TasksAt(now), Y, Y)
        B == FailedRetry(TasksAt(now), Y, Y, now)
        schedules == /\ Fresh(r.observedAt, now) /\ ObservedLive(r)
                     /\ NothingUnknown(R, n, r, newer) /\ r.cap.expand
                     /\ n \notin drained
                     /\ ReplayNodeCanAdmit(M, n, TRUE, Strangers(n, r))
        C == IF schedules THEN Considered(T, B, n, now) ELSE {}
        E == Eligible(M, T, C, r.cap)
    IN
    /\ HeartbeatAccepted(n, s, r, now)
    /\ RecordReport(n, r, now)
    /\ fences' = MergedFences(R, F, M, n, r)
    /\ retry' = B
    /\ failureReceipts' = failureReceipts \cup Y
    /\ \E offers \in SUBSET E :
         /\ IsOffering(M, n, r.cap, E, offers)
         /\ tasks' = ScheduledTasks(T, C, offers)
         /\ res' = OfferedRes(M, T, n, offers, now)
         /\ drains' = MergedDrains(M, r)
                        \cup AllPreempted(M, n, r.cap, E, offers)
    /\ lastClock' = now
    /\ UNCHANGED <<catalog, preparations, drained, retired, outcomes, epoch>>

-----------------------------------------------------------------------------
(* Replay sessions.                                                        *)

\* Faulty: offers that were never granted survive the session.
LostStarted(R, n) == {a \in Attempts : R[a].node = n /\ R[a].seq > 0
                                       /\ Unreleased(R, a)}

\* The allocations a new session of node n puts in doubt.
Lost(R, n) == {a \in Attempts : R[a].node = n /\ Unreleased(R, a)}

(***************************************************************************)
(* A node without durable storage registers a new session: the old one is  *)
(* retired and every allocation of the node is fenced, with its task.  A   *)
(* repeat of the current session changes nothing (Status).                 *)
(***************************************************************************)
OpenReplaySession(n, boot, s, now) ==
    LET R == ResAt(now)
        lost == Lost(R, n)
    IN
    /\ ClockAccepts(now)
    /\ s # 0 /\ s \notin retired[n] /\ s # sessions[n].id
    /\ retired' = [retired EXCEPT ![n] = @ \cup ({sessions[n].id} \ {0})]
    /\ sessions' = [sessions EXCEPT ![n] =
                      [id |-> s, boot |-> boot, ready |-> FALSE]]
    /\ tasks' = Override(
                  [t \in {u \in TasksOf({a \in lost : IsLatest(tasks, a)}) :
                          tasks[u].status # "completed"} |->
                     [tasks[t] EXCEPT !.status = Unsettled(t)]], TasksAt(now))
    /\ res' = MakeUncertain(R, lost)
    /\ fences' = FencesAt(now) \cup lost
    /\ lastClock' = now
    /\ UNCHANGED <<catalog, drains, preparations, evidence, failures,
                   outcomes, epoch>>

-----------------------------------------------------------------------------
(* Restart, and crashes between the transactions of one request.           *)

\* open: a new epoch, and every unreleased row needs its node's report.
Reopen(R, D) ==
    /\ epoch < MaxEpoch /\ epoch' = epoch + 1
    /\ drains' = D \cup {a \in Attempts : R[a].phase = "draining"}
    /\ res' = MakeUncertain(R, {a \in Attempts : Unreleased(R, a)})

Restart ==
    /\ Reopen(res, drains)
    /\ UNCHANGED <<catalog, tasks, fences, preparations, evidence, replay,
                   failures, outcomes, lastClock>>

(***************************************************************************)
(* Expiry commits its three statements one by one after the clock: W was   *)
(* handled in full, and of at most one more row the fence was written, its *)
(* task not.                                                               *)
(***************************************************************************)
ExpireInterrupted(W, X, now) ==
    /\ ClockAccepts(now)
    /\ W \cup X \subseteq Lapsed(now) /\ W \cap X = {}
    /\ \A a, b \in X : a = b
    /\ lastClock' = now
    /\ tasks' = MarkUncertain(tasks, W)
    /\ fences' = fences \cup W \cup X
    /\ Reopen(res, drains)
    /\ UNCHANGED <<catalog, preparations, evidence, replay, failures, outcomes>>

\* The identity was recorded, the grant was not.
PreparedInterrupted(p, s, a, e, identity, applied, now) ==
    /\ ClockAccepts(now) /\ Authorized(p, s, a)
    /\ e = epoch
    /\ identity.boot = nodes[res[a].node].boot
    /\ TaskSpec[TaskOf(a)].controls \subseteq applied
    /\ CurrentAttempt(TasksAt(now), a)
    /\ preparations[a] = None
    /\ preparations' = [preparations EXCEPT ![a] = identity]
    /\ lastClock' = now /\ tasks' = TasksAt(now) /\ fences' = FencesAt(now)
    /\ Reopen(ResAt(now), drains)
    /\ UNCHANGED <<catalog, evidence, replay, failures, outcomes>>

\* The report was recorded, of its yields only those in K, and no schedule.
HeartbeatInterrupted(n, s, r, K, now) ==
    LET R == ResAt(now)
        F == FencesAt(now)
        M == MergedRes(R, F, n, r, Newer(n, r))
    IN
    /\ HeartbeatAccepted(n, s, r, now)
    /\ RecordReport(n, r, now)
    /\ fences' = MergedFences(R, F, M, n, r)
    /\ tasks' = FailedTasks(TasksAt(now), K, K)
    /\ retry' = FailedRetry(TasksAt(now), K, K, now)
    /\ failureReceipts' = failureReceipts \cup K
    /\ Reopen(M, MergedDrains(M, r))
    /\ lastClock' = now
    /\ UNCHANGED <<catalog, preparations, drained, retired, outcomes>>

-----------------------------------------------------------------------------
(* The requests of a run.                                                  *)

Times == lastClock..MaxClock
Wrappers == 0..MaxSession

\* A report names allocations its node owns, and foreign identities.
Reports(n, now) ==
    UNION {[boot : Boots, cap : Capacities,
            observedAt : {now - lag : lag \in Lags} \cap Nat,
            phase : [seen -> ReportPhases],
            usage : [seen -> Usages],
            foreign : SUBSET Foreign, freed : SUBSET Foreign] :
             seen \in SUBSET {a \in Attempts : res[a].node = n}}

\* What a node with an intact journal may say.
ReportHonest(r) ==
    /\ r.foreign \cap r.freed = {}
    /\ Truthful => \A a \in Seen(r) :
         res[a].phase = "released" => r.phase[a] = "released"

OperatorRequest ==
    \E now \in Times :
       \/ Status(now)
       \/ \E p \in Pools, spec \in PoolSpecs : PutPool(p, spec, now)
       \/ \E j \in Jobs : Submit(j, now)
       \/ \E t \in Tasks, confirmed \in BOOLEAN : Retry(t, confirmed, now)
       \/ \E j \in Cancellable : Cancel(j, now)
       \/ \E n \in Drainable, drain \in BOOLEAN : DrainNode(n, drain, now)

AttemptRequest ==
    \E now \in Times, p \in Principals, s \in Wrappers, a \in Attempts :
       \/ \E e \in 1..MaxEpoch, identity \in Identities,
             applied \in SUBSET Controls :
             \/ Prepared(p, s, a, e, identity, applied, now)
             \/ PreparedInterrupted(p, s, a, e, identity, applied, now)
       \/ \E e \in 1..MaxEpoch, previous \in 0..MaxSeq :
             Renew(p, s, a, e, previous, now)
       \/ \E x \in Artifacts : CommitUpload(p, s, a, x, now)
       \/ \E r \in Results : PublishCheckpoint(p, s, a, r, now)
       \/ \E r \in Results : Complete(p, s, a, r, now)
       \/ \E kind \in {"yielded", "execution"} : Fail(p, s, a, kind, now)

NodeRequest ==
    \E now \in Times :
       \/ \E n \in Nodes, s \in Wrappers : \E r \in Reports(n, now) :
             /\ ReportHonest(r)
             /\ \/ Heartbeat(n, s, r, now)
                \/ \E K \in SUBSET Yielding(TasksAt(now), r) :
                      HeartbeatInterrupted(n, s, r, K, now)
       \/ \E n \in ReplayNodes, boot \in Boots, s \in 1..MaxSession :
             OpenReplaySession(n, boot, s, now)

Interruption ==
    \/ Restart
    \/ \E now \in Times : \E W, X \in SUBSET Lapsed(now) :
         ExpireInterrupted(W, X, now)

Next == OperatorRequest \/ AttemptRequest \/ NodeRequest \/ Interruption

Spec == Init /\ [][Next]_vars

-----------------------------------------------------------------------------
(* What makes the coordinator correct.                                     *)

TaskTable == [Tasks -> [status : Statuses, generation : 0..MaxGen,
                        receipt : {None} \cup (Attempts \X Results)]]

ResTable == [Attempts -> [node : Nodes \cup {None},
                          phase : RemotePhases \cup {"none"},
                          observed : Usages \cup {None},
                          seq : Nat, deadline : Nat]]

RetryTable == [Tasks -> [failures : Nat, yields : Nat, notBefore : Nat]]

\* Every table holds rows of the shape its schema and writers allow.
TypeOK ==
    /\ jobs \in [Jobs -> {"absent", "active", "cancelled"}]
    /\ pools \in [Pools -> PoolSpecs \cup {None}]
    /\ sequence \in [Tasks -> Nat]
    /\ tasks \in TaskTable /\ res \in ResTable
    /\ fences \subseteq Attempts /\ drains \subseteq Attempts
    /\ preparations \in [Attempts -> Identities \cup {None}]
    /\ nodes \in [Nodes -> [boot : Boots, cap : Capacities, observedAt : Nat,
                            received : Nat] \cup {None}]
    /\ drained \subseteq Nodes
    /\ unrecognized \in [Nodes -> SUBSET Foreign]
    /\ sessions \in [Nodes -> [id : Nat, boot : Boots \cup {None},
                               ready : BOOLEAN]]
    /\ retired \in [Nodes -> SUBSET (Nat \ {0})]
    /\ retry \in RetryTable
    /\ failureReceipts \subseteq Attempts
    /\ publications \subseteq Attempts \X Artifacts
    /\ checkpoints \in [Tasks -> {None} \cup (Attempts \X Results)]
    /\ epoch \in Nat /\ lastClock \in Nat

\* A row names its node exactly when it exists.
RowsOf(R) == \A a \in Attempts : R[a].phase = "none" <=> R[a].node = None

\* A task exists with its job, and starts at generation zero.
SubmittedWithJob ==
    \A t \in Tasks :
      /\ jobs[JobOf[t]] = "absent" => tasks[t].status = "absent"
      /\ tasks[t].status = "absent" => tasks[t].generation = 0

\* Attempt a can never execute with authority again.
Inert(R, F, a) ==
    R[a].phase = "released" \/ (R[a].phase = "uncertain" /\ a \in F)

AuthorityOf(R, T, F) ==
    \A a \in Attempts :
      R[a].phase # "none" => CurrentAttempt(T, a) \/ Inert(R, F, a)

(***************************************************************************)
(* Single authority.  A reservation that is not the current attempt of an  *)
(* assigned or completed task is released or fenced: through expiry,       *)
(* session replacement, retry, delayed and contradictory reports, and      *)
(* crashes between their transactions, no superseded attempt is left able  *)
(* to be authorized.                                                       *)
(***************************************************************************)
AttemptAuthority == AuthorityOf(res, tasks, fences)

(***************************************************************************)
(* Rows and generations agree: the attempts of a task are exactly the      *)
(* generations its ledger row has counted, so an assignment never reuses   *)
(* or skips one.                                                           *)
(***************************************************************************)
GenerationsOf(R, T) ==
    \A a \in Attempts : R[a].phase # "none" <=> a[2] <= T[a[1]].generation

GenerationsCounted == GenerationsOf(res, tasks)

(***************************************************************************)
(* Expiry is never refused: whenever leases lapse, mark_uncertain finds    *)
(* each one the latest generation of its task.  A stale one would fail     *)
(* whatever request happened to trigger the expiry.                        *)
(***************************************************************************)
ExpiryNeverRefused == \A now \in Times : \A a \in Lapsed(now) : IsLatest(tasks, a)

(***************************************************************************)
(* A fence is final.  A fenced attempt stays uncertain or released, and    *)
(* its lease is never extended, whatever a later report claims.            *)
(***************************************************************************)
FencedOf(R, F) == \A a \in F : R[a].phase \in {"uncertain", "released"}

FenceHolds == FencedOf(res, fences)

(***************************************************************************)
(* Together these are inductive: a step that keeps single authority needs  *)
(* to know that fences sit on dead rows, that generations count rows, and  *)
(* that work no job submitted has no attempt.                              *)
(***************************************************************************)
SafeTables(R, T, F) ==
    RowsOf(R) /\ GenerationsOf(R, T) /\ FencedOf(R, F) /\ AuthorityOf(R, T, F)

AuthorityInvariant == SafeTables(res, tasks, fences) /\ SubmittedWithJob

FenceIsFinal ==
    [][\A a \in fences : a \in fences' /\ res'[a].seq = res[a].seq]_vars

Draining(a) == a \in drains \/ res[a].phase = "draining"

(***************************************************************************)
(* A drain is irreversible: once an attempt was asked to drain, or its     *)
(* node reported a local drain, no grant extends it, across restarts and   *)
(* reports that name an earlier phase.  (A condition on steps.)            *)
(***************************************************************************)
KeepsDrains ==
    \A a \in Attempts : Draining(a) => Draining(a)' /\ res'[a].seq = res[a].seq

DrainIsFinal == [][KeepsDrains]_vars

(***************************************************************************)
(* Nothing runs unprepared: an attempt with a lease has a recorded gated   *)
(* process.                                                                *)
(***************************************************************************)
PreparedFirst == \A a \in Attempts : res[a].seq > 0 => preparations[a] # None

(***************************************************************************)
(* The accepted result comes from the latest attempt of its task, which    *)
(* held an authorized, prepared lease and published what it references.    *)
(***************************************************************************)
AcceptedResult ==
    \A t \in Tasks : tasks[t].status = "completed" =>
      LET a == tasks[t].receipt[1]
          r == tasks[t].receipt[2]
      IN /\ a = <<t, tasks[t].generation>>
         /\ res[a].seq > 0 /\ Published(a, r)

\* A completed task never changes again: result, generation and status (a
\* condition on steps).
KeepsFinalResults ==
    \A t \in Tasks : tasks[t].status = "completed" => tasks'[t] = tasks[t]

CheckpointRank(c) == IF c = None THEN <<0, 0>>
                     ELSE <<c[1][2], CheckpointSequence[c[2]]>>

AtLeast(x, y) == x[1] > y[1] \/ (x[1] = y[1] /\ x[2] >= y[2])

(***************************************************************************)
(* Progress never rewinds: the stored checkpoint moves forward in          *)
(* (generation, checkpoint_sequence) order, whichever attempt, resend or   *)
(* delayed request delivers the next one.  (A condition on steps.)         *)
(***************************************************************************)
AdvancesCheckpoints ==
    \A t \in Tasks :
      AtLeast(CheckpointRank(checkpoints'[t]), CheckpointRank(checkpoints[t]))

\* What was accepted stays: the final result, and the best checkpoint.
ResultsAreKept == [][KeepsFinalResults /\ AdvancesCheckpoints]_vars

(***************************************************************************)
(* The failure budget bounds automatic retries: work that is queued or     *)
(* assigned has failed fewer than retry_limit times since the operator     *)
(* last reset it, and never starts more attempts than max_attempts.        *)
(***************************************************************************)
RetryBounded ==
    \A t \in Tasks :
      /\ tasks[t].status \in {"queued", "assigned"} =>
           retry[t].failures < RetryLimit
      /\ TaskSpec[t].maxAttempts # 0 =>
           tasks[t].generation <= TaskSpec[t].maxAttempts

(***************************************************************************)
(* A failure receipt is charged once and retires its attempt: the attempt  *)
(* a task is assigned to has no receipt, and every receipt is for a row    *)
(* the node released (which a contradictory report may reopen, fenced).    *)
(***************************************************************************)
ReceiptsRetire ==
    \A a \in failureReceipts :
      /\ Inert(res, fences, a)
      /\ IsLatest(tasks, a) => tasks[TaskOf(a)].status # "assigned"

\* At most one attempt of a task holds capacity, uncertain ones included, when
\* nodes never report a released allocation as alive.
SingleHolder ==
    Truthful => \A a, b \in Attempts :
      TaskOf(a) = TaskOf(b) /\ Unreleased(res, a) /\ Unreleased(res, b) => a = b

(***************************************************************************)
(* A task is retried only within its budget, after its failed attempt was  *)
(* charged once and retired, and after that attempt's capacity came back.  *)
(***************************************************************************)
RetriesAreSound == RetryBounded /\ ReceiptsRetire /\ SingleHolder

(***************************************************************************)
(* A node with replayable storage runs nothing until its recovery report   *)
(* is complete, and then only replay-safe opportunistic work; a retired    *)
(* session is never current again.                                         *)
(***************************************************************************)
ReplayDiscipline ==
    \A n \in Nodes :
      /\ sessions[n].id \notin retired[n]
      /\ \A a \in Attempts : res[a].node = n /\ Live(res, a) =>
           /\ Registered(n) => sessions[n].ready
           /\ ReplayRequestAllowed(n, TaskOf(a))

(***************************************************************************)
(* With one fixed capacity and usage within the request, the charges of a  *)
(* node stay within its budget on every scope.                             *)
(***************************************************************************)
NodeNeverOvercommitted ==
    \A n \in Nodes : nodes[n] # None => \A s \in Scopes :
      NodeCharge(res, n)[s] <= nodes[n].cap.budget[s]

\* A pool whose size is fixed never holds more reservations than its maximum.
PoolWithinMaximum ==
    \A p \in Pools : pools[p] # None =>
      Cardinality(PoolRows(res, p)) <= pools[p].max

\* What is handed out stays within the limits of the node and of the pool.
WithinLimits == NodeNeverOvercommitted /\ PoolWithinMaximum

Asked(p) == {a \in PoolRows(res', p) :
               a \in drains' \ drains /\ res'[a].phase # "draining"}

(***************************************************************************)
(* A scheduling pass asks only replay-safe opportunistic work to leave,    *)
(* for queued work of higher priority that holds nothing itself, and       *)
(* leaves min_workers reservations of the pool that it did not ask.        *)
(***************************************************************************)
PreemptionBounded ==
    [][\A p \in Pools : Asked(p) # {} =>
         /\ Cardinality(PoolRows(res', p) \ Asked(p)) >= pools[p].min
         /\ \A a \in Asked(p) :
              /\ TaskSpec[TaskOf(a)].replaySafe /\ Opportunistic(TaskOf(a))
              /\ \E u \in Tasks :
                   /\ tasks'[u].status = "queued" /\ ~Held(res', u)
                   /\ JobPriority[JobOf[u]] > JobPriority[JobOf[TaskOf(a)]]]_vars

(***************************************************************************)
(* Preemption preserves the pool's floor: a step that asks work of a pool  *)
(* to leave keeps min_workers of the pool's reservations that were never   *)
(* asked to leave.                                                         *)
(***************************************************************************)
PreemptionKeepsFloor ==
    [][\A p \in Pools : Asked(p) # {} =>
         Cardinality(PoolRows(res', p) \ drains') >= pools[p].min]_vars

-----------------------------------------------------------------------------
(***************************************************************************)
(* With truthful reports the coordinator implements the task ledger: the   *)
(* holders of a task are its unreleased reservations.                      *)
(***************************************************************************)
Holders == [t \in Tasks |-> {g \in 1..MaxGen : Unreleased(res, <<t, g>>)}]

Ledger == INSTANCE TaskLedger WITH
    ReplaySafe <- {t \in Tasks : TaskSpec[t].replaySafe}, holders <- Holders

LedgerSpec == Ledger!Spec
=============================================================================
