CONSTANTS
    q1 = q1
    q2 = q2
    c1 = c1
    c2 = c2
    Runs = {q1, q2}
    Cargo <- MCCargo
    Standard <- MCStandard
    Mixture <- MCMixture
    Clerks = {c1, c2}
    Capacities = {1, 2}
    Pieces = {1, 2}
    Scales = {41}
    Units = {0, 25}
    MaxSessions = 2
    MaxRacks = 2
    MaxLoads = 2
    MaxEdits = 1
SYMMETRY MCSymmetry
SPECIFICATION Spec
INVARIANTS
    TypeOK
    PiecesReconcile
    MassReconcile
    CustodyIsTheShift
    SpoolTraceIsRight
CHECK_DEADLOCK FALSE
