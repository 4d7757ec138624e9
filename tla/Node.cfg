CONSTANTS
    a1 = a1  a2 = a2  b1 = b1  t1 = t1  t2 = t2
    Scopes = {"cpu"}
    Shared = {"cpu"}
    Assignments = {a1, a2, b1}
    TaskOf <- TwoTasks
    Generation <- InTurn
    Need <- LargeLast
    ReplaySafe = {a1, a2, b1}
    Opportunistic = {a1, a2, b1}
    ChildLimit <- FirstFamily
    Requests = {"r1"}
    Budget <- TwoUnits
    Profiles <- ThreeNodes
    MaxBoot = 2
SPECIFICATION Spec
INVARIANTS TypeOK ReleasedIsGone RunsAreRecorded OneLiveAttempt BudgetKept
PROPERTIES JournalKeeps
CHECK_DEADLOCK FALSE
