--------------------------- MODULE MCJourneyEngine ---------------------------
(***************************************************************************)
(* Instances of JourneyEngine for TLC.  Thresholds 1 <= 2 <= 3 stand for   *)
(* the seeded 2, 7 and 30 days: only the order of idle days and thresholds *)
(* is ever compared.                                                       *)
(***************************************************************************)
EXTENDS JourneyEngine

=============================================================================
