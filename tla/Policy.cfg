SPECIFICATION Spec
CONSTANTS
    g1 = g1
    p1 = p1
    p2 = p2
INVARIANTS TypeOK DrainSuffices
PROPERTIES AdmissionIsCalm ProtectionHolds
CHECK_DEADLOCK FALSE
