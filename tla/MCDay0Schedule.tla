--------------------------- MODULE MCDay0Schedule ---------------------------
(***************************************************************************)
(* Day0Schedule for TLC: the six templates of the code, numbered by their  *)
(* slot, every minute of a day as time of payment, and two executions.     *)
(***************************************************************************)
EXTENDS Day0Schedule, TLC

MCTemplates == DOMAIN Day0Delay
MCPayments == 0 .. 1439

Symmetry == Permutations(Tasks)

=============================================================================
