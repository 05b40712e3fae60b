CONSTANTS
    o1 = o1
    c1 = c1
    c2 = c2
    resin = resin
    ink = ink
    Orders = {o1}
    Materials = {resin}
    RawMaterials = {resin}
    NumLots = 2
    MaterialOf <- MCTwoLotsMaterialOf
    Received <- MCTwoLotsReceived
    CostedLots = {}
    LegacyOrder = o1
    LegacyLots = {}
    Clerks = {c1}
    StatusRequests = {"PREPARANDO"}
    MaxRequest = 2
    MaxInventory = 0
SPECIFICATION Spec
PROPERTIES
    CompletedIsNotCancelled
