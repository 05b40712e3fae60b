CONSTANTS
    o1 = o1
    c1 = c1
    c2 = c2
    resin = resin
    ink = ink
    Orders = {o1}
    Materials = {resin, ink}
    RawMaterials = {resin}
    NumLots = 3
    MaterialOf <- MCMaterialOf
    Received <- MCReceived
    CostedLots = {3}
    LegacyOrder = o1
    LegacyLots = {}
    Clerks = {c1, c2}
    StatusRequests = {"PREPARANDO"}
    MaxRequest = 3
    MaxInventory = 1
SYMMETRY MCSymmetry
SPECIFICATION Spec
INVARIANTS
    TypeOK
    NeverOverDelivered
    CompletedIsDelivered
PROPERTIES
    ScanReconciles
    ImplementsLedger
