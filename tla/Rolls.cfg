CONSTANTS
    fabric = fabric
    cloth = cloth
    band = band
    resin = resin
    ink = ink
    Rolls = {fabric, cloth, band}
    Kind <- MCKind
    Sheet <- MCSheet
    Spoken <- MCSpoken
    Lengths = {1, 2}
    Materials = {resin, ink}
    Specs <- MCSpecs
    Recipe <- MCRecipe
    Fits <- MCFits
    Deliveries = {1}
    MaxRows = 3
    MaxStock = 2
SPECIFICATION Spec
INVARIANTS
    TypeOK
    CoatingIsCharged
    FollowsItsRoute
PROPERTIES
    OldestFirst
    ImplementsJourney
CHECK_DEADLOCK FALSE
