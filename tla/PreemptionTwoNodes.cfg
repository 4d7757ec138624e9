CONSTANTS
    n1 = n1  n2 = n2  p1 = p1  p2 = p2  j1 = j1  j2 = j2  t1 = t1  t2 = t2
    t3 = t3  r1 = r1  r2 = r2  c1 = c1  c2 = c2  x1 = x1  None = None
    Scopes = {"cpu"}
    Shared = {"cpu"}
    Nodes = {n1, n2}
    ReplayNodes = {}
    Operator = operator
    Principals = {n1, n2}
    Pools = {p1, p2}
    Jobs = {j1, j2}
    Tasks = {t1, t2, t3}
    PoolSpecs <- FloorOfOne
    JobOf <- TwoJobs
    Slot <- InOrder
    JobPool <- TwoPools
    JobPriority <- HighSecond
    TaskSpec <- SafeTask
    Capacities <- OneSlot
    Usages <- Measured
    Foreign = {}
    Boots = {"boot"}
    Pids = {"pid"}
    Controls = {}
    DurableLocal = "storage.durable_local"
    Artifacts = {}
    Results = {}
    ResultArtifacts <- NoArtifacts
    CheckpointSequence <- NoCheckpoints
    Lease = 1
    TTL = 1
    RetryLimit = 2
    RetryBackoff = 1
    RetryBackoffMax = 1
    YieldBackoff = 1
    YieldBackoffMax = 1
    Lags <- ZeroLag
    ReportPhases = {"running", "released"}
    Truthful = TRUE
    Drainable = {}
    Cancellable = {}
    MaxGen = 1
    MaxSeq = 1
    MaxClock = 0
    MaxEpoch = 1
    MaxSession = 0
SPECIFICATION Spec
PROPERTIES PreemptionKeepsFloor
CHECK_DEADLOCK FALSE
