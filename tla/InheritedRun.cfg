CONSTANTS
    split = split
    whole = whole
    m1 = m1
    m2 = m2
    m3 = m3
    c1 = c1
    c2 = c2
    Batches = {split, whole}
    Containers = {m1, m2, m3}
    BatchOf <- MCBatchOf
    Mixed <- MCMixed
    Filled <- MCFilled
    Rounding = 1
    Clerks = {c1}
    Weights = {1}
    Scales = {0, 2}
    MaxSessions = 2
    MaxRows = 3
    MaxEntries = 1
    MaxLogs = 1
SPECIFICATION Spec
INVARIANTS
    ActiveRunsAreOfTheShift
CHECK_DEADLOCK FALSE
