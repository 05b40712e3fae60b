---------------------------- MODULE MCExtruderQueue ----------------------------
(* A preparation of two containers, which hold more than was mixed, and    *)
(* one of a single container, which holds less.                            *)
EXTENDS ExtruderQueue

CONSTANTS split, whole, m1, m2, m3, c1, c2

MCBatchOf == (m1 :> split) @@ (m2 :> split) @@ (m3 :> whole)
MCMixed == (split :> 3) @@ (whole :> 3)
MCFilled == (m1 :> 2) @@ (m2 :> 2) @@ (m3 :> 2)
MCSymmetry == Permutations({m1, m2}) \cup Permutations({c1, c2})
===============================================================================
