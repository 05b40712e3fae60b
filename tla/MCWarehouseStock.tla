--------------------------- MODULE MCWarehouseStock --------------------------
EXTENDS WarehouseStock, TLC

CONSTANTS c1, c2, resin, ink

MCMaterialOf == <<resin, resin, ink>>
MCReceived == <<2, 1, 1>>
MCSingleMaterialOf == <<resin>>
MCSingleReceived == <<2>>
MCSymmetry == Permutations(Clerks)
=============================================================================
