---------------------------- MODULE PushHistory ----------------------------
(***************************************************************************)
(* PushDelivery with a history variable: the rows of which the worker may  *)
(* have lost what CleverTap did with them.  It restricts no step and no    *)
(* step reads it.                                                          *)
(***************************************************************************)
EXTENDS PushDelivery

VARIABLE doubted

hvars == <<now, row, pushes, run, doubted>>

HistoryInit == Init /\ doubted = {}

\* What is known to a run only, or not even to it: the post it is at, and the pushes
\* it has not committed.
OnlyKnownTo(r) ==
  run[r].current \cup {n \in Notifications : run[r].decided[n] = "sent"}

Doubts(r) ==
  \/ /\ \E n \in Notifications : Retry(r, n)
     /\ doubted' = doubted \cup run[r].current
  \/ /\ Break(r)
     /\ doubted' = doubted \cup OnlyKnownTo(r)

HistoryNext ==
  \/ \E r \in Runs : Doubts(r)
  \/ /\ \/ HourPasses
        \/ \E n \in Notifications, mode \in {"live", "shadow"}, t \in Hours :
             Generate(n, mode, t)
        \/ \E r \in Runs : Fetch(r) \/ Commit(r)
        \/ \E r \in Runs, n \in Notifications :
             Skip(r, n) \/ BeginSend(r, n) \/ Accepted(r, n) \/ Rejected(r, n)
     /\ UNCHANGED doubted

HistorySpec == HistoryInit /\ [][HistoryNext]_hvars

FairHistorySpec == HistorySpec /\ Fairness

-----------------------------------------------------------------------------
(* Properties. *)

KnownAsSent(n) ==
  \/ Status(n) = "sent"
  \/ \E r \in Runs : run[r].decided[n] = "sent"

\* Where runs do not overlap, a row is pushed without being recorded as sent, or
\* pushed more than once, only after a post of it that had no final answer, or
\* after a run that had pushed it and broke off before the commit of its batch.
\* Every other row was pushed once if it is sent, or about to be recorded so, and
\* otherwise never: through nights, retries of other rows, full batches and runs
\* that broke off.
PushesAreRecorded ==
  \A n \in Notifications \ doubted :
    pushes[n] = IF KnownAsSent(n) THEN 1 ELSE 0

=============================================================================
