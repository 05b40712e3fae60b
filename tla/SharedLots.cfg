CONSTANTS
    o1 = o1
    c1 = c1
    c2 = c2
    resin = resin
    ink = ink
    Orders = {o1}
    Materials = {resin}
    RawMaterials = {resin}
    NumLots = 3
    MaterialOf <- MCSharedMaterialOf
    Received <- MCSharedReceived
    CostedLots = {}
    LegacyOrder = o1
    LegacyLots = {1, 2}
    Clerks = {c1, c2}
    StatusRequests = {"PREPARANDO"}
    MaxRequest = 3
    MaxInventory = 0
SYMMETRY MCSymmetry
SPECIFICATION Spec
INVARIANTS
    LabelOwnedOnce
    DeliveredIsInPlant
    TraceMatchesWip
    LiveLabelHasStock
