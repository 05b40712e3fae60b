----------------------------- MODULE RollJourney ------------------------------
(***************************************************************************)
(* What the route of a roll promises: a roll is woven with one path of its *)
(* data sheet, passes the stations of that path one by one, in their       *)
(* order, and each of them once.                                           *)
(***************************************************************************)
EXTENDS Naturals, Sequences

CONSTANTS
    Rolls,
    Paths       \* the paths each roll may be given, none of them empty

VARIABLES
    path,       \* the path of each roll, empty until it is woven
    done        \* the stations it has passed

journey == <<path, done>>

Init == /\ path = [r \in Rolls |-> <<>>]
        /\ done = [r \in Rolls |-> <<>>]

Weave(r) ==
    /\ path[r] = <<>>
    /\ \E p \in Paths[r] :
          /\ path' = [path EXCEPT ![r] = p]
          /\ done' = [done EXCEPT ![r] = <<p[1]>>]

Advance(r) ==
    /\ path[r] # <<>>
    /\ Len(done[r]) < Len(path[r])
    /\ done' = [done EXCEPT ![r] = Append(@, path[r][Len(@) + 1])]
    /\ path' = path

Next == \E r \in Rolls : Weave(r) \/ Advance(r)

JourneySpec == Init /\ [][Next]_journey
=============================================================================
