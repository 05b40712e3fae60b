CONSTANTS
    c1 = c1
    c2 = c2
    resin = resin
    ink = ink
    Materials = {resin}
    NumLots = 1
    MaterialOf <- MCSingleMaterialOf
    Received <- MCSingleReceived
    Stored = {1}
    Clerks = {c1, c2}
    MaxRequests = 0
    MaxOpened = 2
    MaxRaced = 2
    MaxQuantity = 2
SPECIFICATION Spec
PROPERTIES
    DisposalIsSubtracted
CHECK_DEADLOCK FALSE
