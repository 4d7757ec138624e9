CONSTANTS
    n1 = n1  n2 = n2  p1 = p1  p2 = p2  j1 = j1  j2 = j2  t1 = t1  t2 = t2
    t3 = t3  r1 = r1  r2 = r2  c1 = c1  c2 = c2  x1 = x1  None = None
    Scopes = {"cpu", "gpu"}
    Shared = {"cpu"}
    Nodes = {n1, n2}
    ReplayNodes = {}
    Operator = operator
    Principals = {}
    Pools = {p1}
    Jobs = {j1, j2}
    Tasks = {t1, t2, t3}
    PoolSpecs <- FloorOfOne
    JobOf <- TwoJobs
    Slot <- InOrder
    JobPool <- OnePool
    JobPriority <- HighSecond
    TaskSpec <- GpuRest
    Capacities <- TwoUnitsAndGpu
    Usages <- Idle
    Foreign = {}
    Boots = {"boot"}
    Pids = {"pid"}
    Controls = {}
    DurableLocal = "storage.durable_local"
    Artifacts = {}
    Results = {}
    ResultArtifacts <- NoArtifacts
    CheckpointSequence <- NoCheckpoints
    Lease = 1
    TTL = 1
    RetryLimit = 2
    RetryBackoff = 1
    RetryBackoffMax = 1
    YieldBackoff = 1
    YieldBackoffMax = 1
    Lags <- ZeroLag
    ReportPhases = {"running", "released"}
    Truthful = TRUE
    Drainable = {}
    Cancellable = {}
    MaxGen = 1
    MaxSeq = 1
    MaxClock = 0
    MaxEpoch = 1
    MaxSession = 0
SPECIFICATION Spec
INVARIANTS WithinLimits
PROPERTIES PreemptionBounded
CHECK_DEADLOCK FALSE
