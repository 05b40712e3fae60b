------------------------------- MODULE MCLooms -------------------------------
(* One loom, a rack and a cart of the PTI of its sheet.                    *)
EXTENDS Looms, TLC

CONSTANTS l1, r1, r2, tape, sheet, s1, s2

MCPtiOf == (r1 :> tape) @@ (r2 :> tape)
MCInRack == (r1 :> 2) @@ (r2 :> 1)
MCPtisOfBom == (sheet :> {tape})
MCSupported == (l1 :> {sheet})
=============================================================================
