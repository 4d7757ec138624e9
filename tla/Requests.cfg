CONSTANTS
    n1 = n1  n2 = n2  p1 = p1  p2 = p2  j1 = j1  j2 = j2  t1 = t1  t2 = t2
    t3 = t3  r1 = r1  r2 = r2  c1 = c1  c2 = c2  x1 = x1  None = None
    Scopes = {"cpu"}
    Shared = {"cpu"}
    Nodes = {n1}
    ReplayNodes = {}
    Operator = operator
    Principals = {n1}
    Pools = {p1}
    Jobs = {j1}
    Tasks = {t1}
    PoolSpecs <- Anywhere
    JobOf <- OneJob
    Slot <- FirstSlot
    JobPool <- OnePool
    JobPriority <- EqualPriority
    TaskSpec <- BudgetedTask
    Capacities <- TwoUnits
    Usages <- Measured
    Foreign = {}
    Boots = {"boot"}
    Pids = {"pid"}
    Controls = {}
    DurableLocal = "storage.durable_local"
    Artifacts = {x1}
    Results = {r1, c1, c2}
    ResultArtifacts <- FinalNeedsArtifact
    CheckpointSequence <- TwoCheckpoints
    Lease = 1
    TTL = 1
    RetryLimit = 1
    RetryBackoff = 1
    RetryBackoffMax = 1
    YieldBackoff = 1
    YieldBackoffMax = 1
    Lags <- ZeroLag
    ReportPhases = {"running", "released"}
    Truthful = TRUE
    Drainable = {}
    Cancellable = {}
    MaxGen = 2
    MaxSeq = 1
    MaxClock = 1
    MaxEpoch = 1
    MaxSession = 0
SPECIFICATION RequestsSpec
INVARIANTS AcceptedResult  PreparedFirst
PROPERTIES ResultsAreKept 
CHECK_DEADLOCK FALSE
