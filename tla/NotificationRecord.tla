------------------------- MODULE NotificationRecord -------------------------
(***************************************************************************)
(* What delivery promises of each notification, without its runs: the      *)
(* status in the table and whether CleverTap has accepted a push of the    *)
(* row.  A row may be pushed and recorded while it is pending; once runs   *)
(* overlap, also after it was recorded as sent or as failed.  PushDelivery *)
(* implements this specification.                                          *)
(***************************************************************************)
CONSTANTS
  Notifications,
  Overlap         \* two runs may be open at the same time

VARIABLES
  status,   \* "absent" before the row is committed, "shadow" for a shadow row
  pushed

vars == <<status, pushed>>

Init ==
  /\ status = [n \in Notifications |-> "absent"]
  /\ pushed = [n \in Notifications |-> FALSE]

\* A notification is committed: to be delivered, or in shadow mode never.
Create(n) ==
  /\ status[n] = "absent"
  /\ \E s \in {"pending", "shadow"} : status' = [status EXCEPT ![n] = s]
  /\ UNCHANGED pushed

InDelivery(n) ==
  \/ status[n] = "pending"
  \/ Overlap /\ status[n] \in {"sent", "failed"}

Push(n) ==
  /\ InDelivery(n)
  /\ pushed' = [pushed EXCEPT ![n] = TRUE]
  /\ UNCHANGED status

\* The statuses a row in delivery may be given: sent tells that it was pushed,
\* skipped that it was not; after failed it may have been pushed or not.
Outcomes(n) ==
  {"failed"} \cup (IF pushed[n] THEN {"sent"}
                   ELSE IF status[n] = "pending" THEN {"skipped_dnd"} ELSE {})

\* The statuses of some rows are recorded in one commit.
Record ==
  /\ \E batch \in SUBSET {n \in Notifications : InDelivery(n)} :
       \E outcome \in [batch -> {"sent", "failed", "skipped_dnd"}] :
         /\ \A n \in batch : outcome[n] \in Outcomes(n)
         /\ status' = [n \in Notifications |->
                         IF n \in batch THEN outcome[n] ELSE status[n]]
  /\ UNCHANGED pushed

Next ==
  \/ \E n \in Notifications : Create(n) \/ Push(n)
  \/ Record

Spec == Init /\ [][Next]_vars

=============================================================================
