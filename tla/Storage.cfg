SPECIFICATION Spec
CONSTANTS
    Three = {p1, p2, p3}
    Pair = {d1, d2}
    Source = src
    Attempt = {e1}
    Uploads = {u1}
    Tasks = {t1, t2}
    Writers = {w1}
    Paths = {b1, b2}
    Allocs = {a1, a2}
    Blobs = {x1}
    Byte = {0, 1}
    Length = 2
    Digests <- OneDigest
    Room = 8
    Inodes = {1, 2}
    Deaths = 1
    None = None
SYMMETRY Symmetry
INVARIANTS
    TypeOK OpenIsSound ReplacementIsAlone NoWaitCycle LegacyIsKept
     RecordedIsDurable DiskIsCharged
PROPERTIES NothingOverwritten PublishedIsKept
CHECK_DEADLOCK FALSE
