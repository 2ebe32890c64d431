--------------------------- MODULE MCPushHistory ---------------------------
(***************************************************************************)
(* An instance of PushHistory for TLC, with the four-hour day of           *)
(* MCPushDelivery.                                                         *)
(***************************************************************************)
EXTENDS PushHistory

=============================================================================
