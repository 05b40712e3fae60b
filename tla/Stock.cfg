CONSTANTS
    c1 = c1
    c2 = c2
    resin = resin
    ink = ink
    Materials = {resin, ink}
    NumLots = 3
    MaterialOf <- MCMaterialOf
    Received <- MCReceived
    Stored = {1, 3}
    Clerks = {c1, c2}
    MaxRequests = 2
    MaxOpened = 4
    MaxRaced = 3
    MaxQuantity = 2
SYMMETRY MCSymmetry
SPECIFICATION Spec
INVARIANTS
    TakenIsSubtracted
    InventoryIsLots
    FrozenWhilePending
    NeverUnderstated
PROPERTIES
    ResolvedOnce
CHECK_DEADLOCK FALSE
