CONSTANTS
    split = split
    whole = whole
    m1 = m1
    m2 = m2
    m3 = m3
    c1 = c1
    c2 = c2
    Batches = {split, whole}
    Containers = {m1, m2, m3}
    BatchOf <- MCBatchOf
    Mixed <- MCMixed
    Filled <- MCFilled
    Rounding = 1
    Clerks = {c1, c2}
    Weights = {2}
    Scales = {4}
    MaxSessions = 1
    MaxRows = 3
    MaxEntries = 1
    MaxLogs = 1
SYMMETRY MCSymmetry
SPECIFICATION Spec
INVARIANTS
    MassBalance
    BatchIsItsContainers
    ContainerQueuedOnce
PROPERTIES
    EndedRowsStay
CHECK_DEADLOCK FALSE
