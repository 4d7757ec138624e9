\* One attempt with an artifact and two publications, a death anywhere.
CONSTANTS
    Attempt = {a1}
    Upload = {u1}
    Pub = {p1, p2}
    Byte = {0}
    Size = 1
    Quota = 4
    MaxLog = 0
    MaxReopen = 0
    MaxPower = 0
    None = None
    WorkerWaits = TRUE
    MaxCrash = 1
SPECIFICATION LiveSpec
INVARIANT NoResultLost
PROPERTY ResultDelivered
CHECK_DEADLOCK FALSE
