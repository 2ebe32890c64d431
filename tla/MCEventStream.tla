--------------------------- MODULE MCEventStream ---------------------------
(***************************************************************************)
(* Instances of EventStream for TLC.  One failed attempt is survived and a *)
(* second is not, in place of five and six.  A batch of two entries per    *)
(* stream has an entry in hand, one behind it and a stream behind both.    *)
(***************************************************************************)
EXTENDS EventStream

=============================================================================
