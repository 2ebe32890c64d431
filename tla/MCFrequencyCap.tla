--------------------------- MODULE MCFrequencyCap ---------------------------
(***************************************************************************)
(* Instances of FrequencyCap for TLC: one user with two journeys and one   *)
(* with a single one.                                                      *)
(***************************************************************************)
EXTENDS FrequencyCap, TLC

CONSTANTS u1, u2, j1, j2, j3

MCUsers == {u1, u2}
MCJourneys == {j1, j2, j3}
MCOwner == (j1 :> u1) @@ (j2 :> u1) @@ (j3 :> u2)

Symmetry == Permutations(Sessions) \cup Permutations({j1, j2})

=============================================================================
