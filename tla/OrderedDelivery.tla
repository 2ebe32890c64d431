--------------------------- MODULE OrderedDelivery ---------------------------
(***************************************************************************)
(* What the event consumer promises about its two streams: the entries of  *)
(* a stream are settled in their order, every entry is applied to the      *)
(* database at most once, and an entry passed over is never come back to.  *)
(* It does not promise that an entry is applied at all.                    *)
(***************************************************************************)
EXTENDS Naturals, Sequences

CONSTANT Streams

VARIABLES
  length,   \* [Streams -> Nat]: entries appended so far
  settled,  \* [Streams -> Nat]: entries that will not be applied any more
  applied   \* the entries applied, as <<stream, position>>, in commit order

Init ==
  /\ length = [s \in Streams |-> 0]
  /\ settled = [s \in Streams |-> 0]
  /\ applied = <<>>

Produce ==
  /\ \A s \in Streams : length'[s] >= length[s]
  /\ UNCHANGED <<settled, applied>>

\* Entries up to a new position are settled; the first of them may be applied.
Settle ==
  /\ \A s \in Streams : settled[s] <= settled'[s] /\ settled'[s] <= length[s]
  /\ \/ applied' = applied
     \/ \E s \in Streams :
          /\ settled[s] < settled'[s]
          /\ applied' = Append(applied, <<s, settled[s] + 1>>)
  /\ UNCHANGED length

Next == Produce \/ Settle

Spec == Init /\ [][Next]_<<length, settled, applied>>

=============================================================================
