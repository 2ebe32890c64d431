-------------------------- MODULE MCSlotGeneration --------------------------
(***************************************************************************)
(* SlotGeneration for TLC: one user with three journeys, and two tasks.    *)
(***************************************************************************)
EXTENDS SlotGeneration, TLC

CONSTANTS u1, j1, j2, j3

MCUsers == {u1}
MCJourneys == {j1,j2,j3}
MCOwner == (j1 :> u1) @@ (j2 :> u1) @@ (j3 :> u1)

Symmetry == Permutations(Sessions) \cup Permutations(Journeys)

=============================================================================
