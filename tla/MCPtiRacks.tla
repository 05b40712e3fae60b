------------------------------- MODULE MCPtiRacks -------------------------------
(* Two machines with a product each; a bobbin weighs 19 g in the catalogue *)
(* (20 g when a loom takes it).                                            *)
EXTENDS PtiRacks, TLC

CONSTANTS q1, q2, c1, c2

MCCargo == (q1 :> "white") @@ (q2 :> "black")
MCStandard == ("white" :> 19) @@ ("black" :> 19)
MCSymmetry == Permutations({c1, c2})
MCMixture == (q1 :> 41) @@ (q2 :> 20)
=============================================================================
