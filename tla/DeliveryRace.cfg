\* A leader that exits before its last commit is answered.
CONSTANTS
    Attempt = {a1}
    Upload = {u1}
    Pub = {p1, p2}
    Byte = {0}
    Size = 1
    Quota = 4
    MaxLog = 0
    MaxReopen = 0
    MaxPower = 0
    None = None
    WorkerWaits = FALSE
    MaxCrash = 0
SPECIFICATION Spec
INVARIANT NoPlainFallback
CHECK_DEADLOCK FALSE
