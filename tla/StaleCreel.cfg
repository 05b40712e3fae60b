CONSTANTS
    l1 = l1
    r1 = r1
    r2 = r2
    tape = tape
    sheet = sheet
    s1 = s1
    s2 = s2
    TheLooms = {l1}
    Racks = {r1, r2}
    Boms = {sheet}
    Ptis = {tape}
    PtiOf <- MCPtiOf
    InRack <- MCInRack
    Carts = {r2}
    Traced = {r1}
    PtisOfBom <- MCPtisOfBom
    Supported <- MCSupported
    InitialMode = "RACK_PARTIAL"
    Capacities = {2000}
    Demands = {500}
    Keys = {1, 2}
    Sessions = {s1, s2}
    Editors = {}
    MaxRuns = 2
SPECIFICATION Spec
INVARIANTS
    CreelMatchesRows
