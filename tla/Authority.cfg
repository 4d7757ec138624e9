CONSTANTS
    n1 = n1  n2 = n2  p1 = p1  p2 = p2  j1 = j1  j2 = j2  t1 = t1  t2 = t2
    t3 = t3  r1 = r1  r2 = r2  c1 = c1  c2 = c2  x1 = x1  None = None
    Scopes = {"cpu"}
    Shared = {"cpu"}
    Nodes = {n1}
    ReplayNodes = {}
    Operator = operator
    Principals = {n1}
    Pools = {p1}
    Jobs = {j1}
    Tasks = {t1}
    PoolSpecs <- Anywhere
    JobOf <- OneJob
    Slot <- FirstSlot
    JobPool <- OnePool
    JobPriority <- EqualPriority
    TaskSpec <- SafeTask
    Capacities <- OneSlot
    Usages <- Measured
    Foreign = {}
    Boots = {"boot"}
    Pids = {"pid"}
    Controls = {}
    DurableLocal = "storage.durable_local"
    Artifacts = {}
    Results = {}
    ResultArtifacts <- NoArtifacts
    CheckpointSequence <- NoCheckpoints
    Lease = 1
    TTL = 1
    RetryLimit = 2
    RetryBackoff = 1
    RetryBackoffMax = 1
    YieldBackoff = 1
    YieldBackoffMax = 1
    Lags <- Lagging
    ReportPhases = {"running", "uncertain", "released"}
    Truthful = FALSE
    Drainable = {}
    Cancellable = {}
    MaxGen = 2
    MaxSeq = 1
    MaxClock = 2
    MaxEpoch = 2
    MaxSession = 0
SPECIFICATION Spec
INVARIANTS TypeOK AuthorityInvariant 
PROPERTIES FenceIsFinal
CHECK_DEADLOCK FALSE
