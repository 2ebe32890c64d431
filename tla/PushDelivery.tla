---------------------------- MODULE PushDelivery ----------------------------
(***************************************************************************)
(* The delivery of pending notifications: process_pending_notifications    *)
(* (workers/notification_worker.py) and CleverTapDeliveryService.send      *)
(* (app/notifications/delivery.py).                                        *)
(*                                                                         *)
(* Every 60 seconds beat enqueues a run, and a run may last longer than    *)
(* that, so several may be open.  A run reads up to ten due rows, decides  *)
(* on each in turn -- skips it, or posts it to CleverTap up to three times *)
(* -- and commits all statuses at its end.  Whatever ends it earlier loses *)
(* the statuses, not the pushes.  Time is counted in hours of IST.         *)
(***************************************************************************)
EXTENDS Naturals, FiniteSets

CONSTANTS
  Notifications,
  Runs,          \* task executions that may be open at the same time
  Limit,         \* rows taken by a run, 10 in the code
  MaxAttempts,   \* posts of one row in a run, 3 in the code
  DayHours,      \* 24 in the code
  DndStartHour,  \* 23 in the code
  DndEndHour,    \* 7 in the code
  Start,         \* bound of the model: the first hour
  End            \* bound of the model: the last hour

ASSUME Bounds ==
  /\ Limit \in Nat \ {0}
  /\ MaxAttempts \in Nat \ {0}
  /\ DayHours \in Nat \ {0}
  /\ DndStartHour \in Nat
  /\ DndEndHour \in Nat
  /\ Start \in Nat
  /\ End \in Nat
  /\ Start <= End

VARIABLES
  now,
  row,     \* the notifications table
  pushes,  \* pushes of a row accepted by CleverTap, counted up to two
  run      \* the open runs

vars == <<now, row, pushes, run>>

Hours == Start .. End

Statuses == {"pending", "sent", "failed", "skipped_dnd"}

Rows ==
  [mode : {"none", "live", "shadow"}, scheduled_for : Hours, status : Statuses]

\* left: rows read and not decided on; current: the row being posted; decided:
\* statuses assigned in memory, "pending" where none was.
OpenRuns ==
  [open : BOOLEAN, left : SUBSET Notifications, current : SUBSET Notifications,
   attempt : 0 .. MaxAttempts, decided : [Notifications -> Statuses]]

TypeOK ==
  /\ now \in Hours
  /\ row \in [Notifications -> Rows]
  /\ pushes \in [Notifications -> 0 .. 2]
  /\ run \in [Runs -> OpenRuns]

Exists(n) == row[n].mode # "none"

Open(r) == run[r].open

NoRow == [mode |-> "none", scheduled_for |-> Start, status |-> "pending"]

Idle ==
  [open |-> FALSE, left |-> {}, current |-> {}, attempt |-> 0,
   decided |-> [n \in Notifications |-> "pending"]]

Init ==
  /\ now = Start
  /\ row = [n \in Notifications |-> NoRow]
  /\ pushes = [n \in Notifications |-> 0]
  /\ run = [r \in Runs |-> Idle]

-----------------------------------------------------------------------------

HourPasses ==
  /\ now < End
  /\ now' = now + 1
  /\ UNCHANGED <<row, pushes, run>>

\* A slot run or an event task commits a notification that it stamped with the
\* time of its generation, then or earlier in the same transaction; or a payment
\* commits one of Day 0, always live, that is planned for later.
Generate(n, mode, t) ==
  /\ ~Exists(n)
  /\ t <= now \/ mode = "live"
  /\ row' = [row EXCEPT ![n] =
               [mode |-> mode, scheduled_for |-> t, status |-> "pending"]]
  /\ UNCHANGED <<now, pushes, run>>

IsDndActive(t) ==
  LET hour == t % DayHours IN hour >= DndStartHour \/ hour < DndEndHour

DueAtAnyTime ==
  {n \in Notifications :
     /\ row[n].mode = "live"
     /\ row[n].status = "pending"}

DueUntilSent ==
  {n \in Notifications :
     /\ row[n].mode = "live"
     /\ row[n].status # "sent"
     /\ row[n].scheduled_for <= now}

DueThisHour ==
  {n \in Notifications :
     /\ row[n].mode = "live"
     /\ row[n].status = "pending"
     /\ row[n].scheduled_for = now}

Due ==
  {n \in Notifications :
     /\ row[n].mode = "live"
     /\ row[n].status = "pending"
     /\ row[n].scheduled_for <= now}

NoEarlier(n, set) ==
  \A k \in set : row[n].scheduled_for <= row[k].scheduled_for

\* ORDER BY scheduled_for LIMIT 10; a run that finds no row ends at once.
Batches ==
  {b \in SUBSET Due :
     /\ b # {}
     /\ Cardinality(b) = IF Cardinality(Due) < Limit THEN Cardinality(Due) ELSE Limit
     /\ \A n \in b : NoEarlier(n, Due \ b)}

Fetch(r) ==
  /\ ~Open(r)
  /\ \E b \in Batches :
       run' = [run EXCEPT ![r] =
                 [Idle EXCEPT !.open = TRUE, !.left = b]]
  /\ UNCHANGED <<now, row, pushes>>

\* The next row of the batch.
IsNext(r, n) ==
  /\ Open(r)
  /\ run[r].current = {}
  /\ n \in run[r].left
  /\ NoEarlier(n, run[r].left)

SkipAndReturn(r, n) ==
  /\ IsNext(r, n)
  /\ IsDndActive(row[n].scheduled_for)
  /\ run' = [run EXCEPT ![r] = Idle]
  /\ UNCHANGED <<now, row, pushes>>

SkipByTheClock(r, n) ==
  /\ IsNext(r, n)
  /\ IsDndActive(now)
  /\ run' = [run EXCEPT ![r].left = @ \ {n},
                        ![r].decided[n] = "skipped_dnd"]
  /\ UNCHANGED <<now, row, pushes>>

\* The hour looked at is the one the row was stamped with.
Skip(r, n) ==
  /\ IsNext(r, n)
  /\ IsDndActive(row[n].scheduled_for)
  /\ run' = [run EXCEPT ![r].left = @ \ {n},
                        ![r].decided[n] = "skipped_dnd"]
  /\ UNCHANGED <<now, row, pushes>>

BeginSend(r, n) ==
  /\ IsNext(r, n)
  /\ ~IsDndActive(row[n].scheduled_for)
  /\ run' = [run EXCEPT ![r].left = @ \ {n},
                        ![r].current = {n},
                        ![r].attempt = 1]
  /\ UNCHANGED <<now, row, pushes>>

Posting(r, n) == Open(r) /\ run[r].current = {n}

Pushed(n) == [pushes EXCEPT ![n] = IF @ < 2 THEN @ + 1 ELSE @]

Decided(r, n, status) ==
  [run EXCEPT ![r].current = {},
              ![r].attempt = 0,
              ![r].decided[n] = status]

\* 200.
Accepted(r, n) ==
  /\ Posting(r, n)
  /\ pushes' = Pushed(n)
  /\ run' = Decided(r, n, "sent")
  /\ UNCHANGED <<now, row>>

\* A status that is neither 200 nor worth a retry.
RejectedAsSent(r, n) ==
  /\ Posting(r, n)
  /\ run' = Decided(r, n, "sent")
  /\ UNCHANGED <<now, row, pushes>>

Rejected(r, n) ==
  /\ Posting(r, n)
  /\ run' = Decided(r, n, "failed")
  /\ UNCHANGED <<now, row, pushes>>

\* 5xx, 429 or a timeout: another attempt, or failed after the last one.  What
\* timed out may have been accepted all the same.
RetryForEver(r, n) ==
  /\ Posting(r, n)
  /\ pushes' \in {pushes, Pushed(n)}
  /\ run' = [run EXCEPT ![r].attempt = @ + 1]
  /\ UNCHANGED <<now, row>>

Retry(r, n) ==
  /\ Posting(r, n)
  /\ pushes' \in {pushes, Pushed(n)}
  /\ run' = IF run[r].attempt < MaxAttempts
              THEN [run EXCEPT ![r].attempt = @ + 1]
              ELSE Decided(r, n, "failed")
  /\ UNCHANGED <<now, row>>

\* The UPDATE of a row names its primary key only.
Commit(r) ==
  /\ Open(r)
  /\ run[r].left = {}
  /\ run[r].current = {}
  /\ row' = [n \in Notifications |->
               IF run[r].decided[n] = "pending" THEN row[n]
               ELSE [row[n] EXCEPT !.status = run[r].decided[n]]]
  /\ run' = [run EXCEPT ![r] = Idle]
  /\ UNCHANGED <<now, pushes>>

\* An error of httpx other than a timeout, of the commit, or the end of the
\* process: nothing is committed; a post under way may have been accepted.
BreakRequeueing(r) ==
  /\ Open(r)
  /\ row' = [n \in Notifications |->
               IF run[r].decided[n] = "pending" THEN row[n]
               ELSE [row[n] EXCEPT !.status = "pending"]]
  /\ run' = [run EXCEPT ![r] = Idle]
  /\ UNCHANGED <<now, pushes>>

Break(r) ==
  /\ Open(r)
  /\ \/ pushes' = pushes
     \/ \E n \in run[r].current : pushes' = Pushed(n)
  /\ run' = [run EXCEPT ![r] = Idle]
  /\ UNCHANGED <<now, row>>

-----------------------------------------------------------------------------

Post(r, n) == Accepted(r, n) \/ Rejected(r, n) \/ Retry(r, n)

Decide(r, n) == Skip(r, n) \/ BeginSend(r, n) \/ Post(r, n)

Next ==
  \/ HourPasses
  \/ \E n \in Notifications, mode \in {"live", "shadow"}, t \in Hours :
       Generate(n, mode, t)
  \/ \E r \in Runs : Fetch(r) \/ Commit(r) \/ Break(r)
  \/ \E r \in Runs, n \in Notifications : Decide(r, n)

Spec == Init /\ [][Next]_vars

\* Time passes, beat starts runs for ever, an open run goes on, and from some
\* time on runs are no longer broken off.
Fairness ==
  /\ WF_vars(HourPasses)
  /\ \A r \in Runs :
       /\ WF_vars(Fetch(r))
       /\ WF_vars(Commit(r))
       /\ WF_vars(\E n \in Notifications : Decide(r, n))
  /\ <>[][\A r \in Runs : ~Break(r)]_vars

-----------------------------------------------------------------------------
(* Properties. *)

Status(n) == row[n].status

Settled(n) == Status(n) # "pending"

\* However runs overlap, retry and start over, nothing is pushed of a shadow
\* row or of a row stamped with a night hour, and nothing before its time.
PushedOnlyWhenAllowed ==
  \A n \in Notifications : pushes[n] > 0 =>
    /\ row[n].mode = "live"
    /\ ~IsDndActive(row[n].scheduled_for)
    /\ row[n].scheduled_for <= now

\* A settled row is never taken up again: overlapping runs may disagree whether
\* it was sent or failed, not on anything else.
SettledStaysSettled ==
  [][\A n \in Notifications : Settled(n) =>
       \/ row'[n] = row[n]
       \/ {Status(n), row'[n].status} = {"sent", "failed"}]_vars

\* The docstring of process_pending_notifications: it picks up rows whose
\* status is pending.  So CleverTap is given a row only while it is pending,
\* and its status, once settled, is final.
OnlyPendingPushed ==
  [][\A n \in Notifications : Settled(n) =>
       pushes'[n] = pushes[n] /\ row'[n] = row[n]]_vars

\* The status of a row in the eyes of who reads the table.
Recorded(n) ==
  IF row[n].mode = "none" THEN "absent"
  ELSE IF row[n].mode = "shadow" THEN "shadow" ELSE Status(n)

Table ==
  INSTANCE NotificationRecord WITH
    Overlap <- \E r, q \in Runs : r # q,
    status <- [n \in Notifications |-> Recorded(n)],
    pushed <- [n \in Notifications |-> pushes[n] > 0]

\* Read without its runs, delivery takes each row from pending to one outcome: as
\* sent after a push, as skipped without one.  Only where runs may overlap are rows
\* recorded as sent or failed pushed and recorded once more.
ImplementsNotificationRecord == Table!Spec

\* Every live row is settled, if from some time on runs are not broken off.
DueIsSettled ==
  \A n \in Notifications :
    (row[n].mode = "live") ~> Settled(n)

=============================================================================
