CONSTANTS
    n1 = n1  n2 = n2  p1 = p1  p2 = p2  j1 = j1  j2 = j2  t1 = t1  t2 = t2
    t3 = t3  r1 = r1  r2 = r2  c1 = c1  c2 = c2  x1 = x1  None = None
    Scopes = {"cpu"}
    Shared = {"cpu"}
    Nodes = {n1}
    ReplayNodes = {n1}
    Operator = operator
    Principals = {n1}
    Pools = {p1}
    Jobs = {j1}
    Tasks = {t1, t2}
    PoolSpecs <- Anywhere
    JobOf <- OneJob
    Slot <- InOrder
    JobPool <- OnePool
    JobPriority <- EqualPriority
    TaskSpec <- MixedSafety
    Capacities <- OneSlot
    Usages <- Measured
    Foreign = {}
    Boots = {"boot1"}
    Pids = {"pid"}
    Controls = {}
    DurableLocal = "storage.durable_local"
    Artifacts = {}
    Results = {r1}
    ResultArtifacts <- NoArtifacts
    CheckpointSequence <- NoCheckpoints
    Lease = 1
    TTL = 1
    RetryLimit = 2
    RetryBackoff = 1
    RetryBackoffMax = 1
    YieldBackoff = 1
    YieldBackoffMax = 1
    Lags <- ZeroLag
    ReportPhases = {"uncertain", "released"}
    Truthful = TRUE
    Drainable = {}
    Cancellable = {}
    MaxGen = 1
    MaxSeq = 1
    MaxClock = 1
    MaxEpoch = 1
    MaxSession = 2
SPECIFICATION Spec
INVARIANTS ReplayDiscipline
 
CHECK_DEADLOCK FALSE
