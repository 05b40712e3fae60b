---------------------------- MODULE MaterialIssue ----------------------------
(***************************************************************************)
(* What the consumption orders of the warehouse promise, with no lots, no  *)
(* labels and no transactions: an order asks for quantities of materials,  *)
(* the warehouse issues them while the order is being prepared, never more *)
(* than was asked for, and what is issued is stock in process until it is  *)
(* spent.  Consumables are spent as they are issued.                       *)
(***************************************************************************)
EXTENDS Naturals

CONSTANTS Orders, Materials, RawMaterials, MaxRequest

VARIABLES
    phase,      \* the status of each order
    asked,      \* asked[o][m]
    issued,     \* issued[o][m]
    warehouse,  \* what can still be issued, by material
    plant,      \* stock in process, by material
    spent       \* consumed by processes or expensed, by material

ledger == <<phase, asked, issued, warehouse, plant, spent>>

LedgerInit ==
    /\ phase \in [Orders -> {"NONE", "PENDIENTE"}]
    /\ asked \in [Orders -> [Materials -> Nat]]
    /\ issued = [o \in Orders |-> [m \in Materials |-> 0]]
    /\ warehouse \in [Materials -> Nat]
    /\ plant = [m \in Materials |-> 0]
    /\ spent = [m \in Materials |-> 0]

Place(o, want) ==
    /\ phase[o] = "NONE"
    /\ \A m \in Materials : want[m] <= warehouse[m]
    /\ phase' = [phase EXCEPT ![o] = "PENDIENTE"]
    /\ asked' = [asked EXCEPT ![o] = want]
    /\ UNCHANGED <<issued, warehouse, plant, spent>>

(* The desk prepares or cancels an order at any time.                      *)
SetPhase(o, p) ==
    /\ phase[o] # "NONE"
    /\ phase' = [phase EXCEPT ![o] = p]
    /\ UNCHANGED <<asked, issued, warehouse, plant, spent>>

Issue(o, m, q) ==
    /\ phase[o] = "PREPARANDO"
    /\ q \in 1..warehouse[m]
    /\ issued[o][m] + q <= asked[o][m]
    /\ issued' = [issued EXCEPT ![o][m] = @ + q]
    /\ warehouse' = [warehouse EXCEPT ![m] = @ - q]
    /\ IF m \in RawMaterials
       THEN plant' = [plant EXCEPT ![m] = @ + q] /\ spent' = spent
       ELSE spent' = [spent EXCEPT ![m] = @ + q] /\ plant' = plant
    /\ phase' = [phase EXCEPT ![o] =
                     IF issued'[o] = asked[o] THEN "SURTIDA" ELSE @]
    /\ asked' = asked

Spend(m, q) ==
    /\ q \in 1..plant[m]
    /\ plant' = [plant EXCEPT ![m] = @ - q]
    /\ spent' = [spent EXCEPT ![m] = @ + q]
    /\ UNCHANGED <<phase, asked, issued, warehouse>>

LedgerNext ==
    \/ \E o \in Orders, want \in [Materials -> 0..MaxRequest] : Place(o, want)
    \/ \E o \in Orders, p \in {"PREPARANDO", "CANCELADA"} : SetPhase(o, p)
    \/ \E o \in Orders, m \in Materials : \E q \in 1..warehouse[m] : Issue(o, m, q)
    \/ \E m \in Materials : \E q \in 1..plant[m] : Spend(m, q)

LedgerSpec == LedgerInit /\ [][LedgerNext]_ledger

-----------------------------------------------------------------------------
LedgerTypeOK ==
    /\ phase \in [Orders -> {"NONE", "PENDIENTE", "PREPARANDO", "SURTIDA", "CANCELADA"}]
    /\ asked \in [Orders -> [Materials -> Nat]]
    /\ issued \in [Orders -> [Materials -> Nat]]
    /\ warehouse \in [Materials -> Nat]
    /\ plant \in [Materials -> Nat]
    /\ spent \in [Materials -> Nat]

(* Issues stay within what was asked for, and a closed order got it all.   *)
IssuedWithinAsked ==
    \A o \in Orders, m \in Materials :
        /\ issued[o][m] <= asked[o][m]
        /\ phase[o] = "SURTIDA" => issued[o][m] = asked[o][m]

(* Nothing is made or lost between the warehouse, the plant and its uses.  *)
MaterialKept ==
    [][\A m \in Materials : warehouse'[m] + plant'[m] + spent'[m]
                              = warehouse[m] + plant[m] + spent[m]]_ledger
=============================================================================
