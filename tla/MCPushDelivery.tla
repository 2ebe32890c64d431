--------------------------- MODULE MCPushDelivery ---------------------------
(***************************************************************************)
(* Instances of PushDelivery for TLC.  A day of four hours, the last and   *)
(* the first of which are night, has every case of the window.             *)
(***************************************************************************)
EXTENDS PushDelivery, TLC

Symmetry == Permutations(Notifications) \cup Permutations(Runs)

=============================================================================
