------------------------- MODULE MCConsumptionOrders -------------------------
(* order_desk: one order over two lots of a raw material and one of a      *)
(* consumable.  shared_lots: an order older than the child QRs over three  *)
(* lots of a raw material, of which it asks for two.                       *)
EXTENDS ConsumptionOrders, TLC

CONSTANTS o1, c1, c2, resin, ink

MCMaterialOf == <<resin, resin, ink>>
MCReceived == <<2, 1, 1>>
MCSharedMaterialOf == <<resin, resin, resin>>
MCSharedReceived == <<2, 2, 1>>
MCTwoLotsMaterialOf == <<resin, resin>>
MCTwoLotsReceived == <<2, 2>>
MCSymmetry == Permutations(Clerks)
=============================================================================
