CONSTANTS
    tablet = tablet
    terminal = terminal
    Devices = {tablet, terminal}
    Lifetime = 3
    Interval = 1
    Inactivity = 2
    MaxLogins = 2
    MaxLosses = 1
SPECIFICATION Spec
INVARIANTS
    TypeOK
    OneDevice
PROPERTIES
    ActiveIsKept
    SupersededEnds
