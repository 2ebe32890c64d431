---------------------------- MODULE Day0Schedule ----------------------------
(***************************************************************************)
(* The notifications of the day of payment: calculate_day0_schedule        *)
(* (app/notifications/day0_scheduler.py, dnd.py) and the Celery task that  *)
(* writes them (handle_payment_trigger, workers/notification_worker.py).   *)
(*                                                                         *)
(* The templates are considered from the most important one on; each is    *)
(* accepted or dropped for good.  All rows are written in one transaction. *)
(* Nothing keeps the task from being triggered twice for one payment.      *)
(* Times are minutes of the IST day of the payment.                        *)
(***************************************************************************)
EXTENDS Integers

CONSTANTS
  Templates,   \* DAY0_TEMPLATES
  Delay,       \* minutes after the payment, or one of the two values below
  Priority,    \* 1 is dropped last
  Payments,    \* minutes at which the learner may pay
  DayMinutes,  \* 1440
  DndStart,    \* 23:00
  DndEnd,      \* 07:00
  Lead,        \* of the reminder before the night, 30 minutes
  MinGap,      \* 20 minutes
  Tasks        \* executions of the task for one payment

AtOnce == 0
BeforeDnd == -1

\* The table of the code, by slot.
Day0Delay == <<AtOnce, 30, 150, 300, 480, BeforeDnd>>
Day0Priority == <<1, 2, 4, 5, 6, 3>>

Immediate(t) == Delay[t] = AtOnce

ASSUME Bounds ==
  /\ DayMinutes \in Nat /\ DndStart \in 0 .. DayMinutes /\ DndEnd \in 0 .. DndStart
  /\ Lead \in Nat \ {0} /\ Lead <= DndStart
  /\ MinGap \in Nat
  /\ Payments \subseteq 0 .. DayMinutes - 1
  /\ Delay \in [Templates -> Nat \cup {BeforeDnd}]
  /\ Priority \in [Templates -> Nat]

\* No two templates have the same priority, and one that is sent at once comes
\* before all others.
ASSUME Ranked ==
  \A s, t \in Templates : s # t =>
    /\ Priority[s] # Priority[t]
    /\ Immediate(s) => Priority[s] < Priority[t]

VARIABLES
  payment,  \* minute of the payment
  task,     \* the executions
  rows      \* <<k, t>>: task k has committed a row for template t

vars == <<payment, task, rows>>

-----------------------------------------------------------------------------

\* Two days' minutes, since a delay may reach past midnight.
IsDndActive(m) == LET minute == m % DayMinutes IN minute >= DndStart \/ minute < DndEnd

SendAt(t) ==
  IF Delay[t] = BeforeDnd THEN DndStart - Lead ELSE payment + Delay[t]

\* A reminder that would be in the past is not sent.
Computable(t) == Delay[t] = BeforeDnd => SendAt(t) > payment

Apart(s, t) == SendAt(s) - SendAt(t) >= MinGap \/ SendAt(t) - SendAt(s) >= MinGap

\* Mutant: no template may be less than the gap after another, but before it.
HasGapBehind(t, others) == \A s \in others : SendAt(t) < SendAt(s) \/ SendAt(t) - SendAt(s) >= MinGap

HasMinimumGap(t, others) == \A s \in others : Apart(s, t)

\* Mutants: up to the first minute of the night; without looking at the night.
FitsInclusive(t) == Computable(t) /\ SendAt(t) <= DndStart
FitsAnyHour(t) == Computable(t)

Fits(t) == Computable(t) /\ SendAt(t) < DndStart

Accepts(t, others) == Immediate(t) \/ (Fits(t) /\ HasMinimumGap(t, others))

-----------------------------------------------------------------------------

\* todo: templates not considered yet; accepted: those of the schedule so far.
TaskType ==
  [phase : {"queued", "planning", "done", "failed"},
   todo : SUBSET Templates, accepted : SUBSET Templates]

TypeOK ==
  /\ payment \in Payments
  /\ task \in [Tasks -> TaskType]
  /\ rows \subseteq Tasks \X Templates
  /\ \A k \in Tasks : \A t \in task[k].accepted : SendAt(t) \in 0 .. DayMinutes - 1

Init ==
  /\ payment \in Payments
  /\ task = [k \in Tasks |-> [phase |-> "queued", todo |-> Templates, accepted |-> {}]]
  /\ rows = {}

Begin(k) ==
  /\ task[k].phase = "queued"
  /\ task' = [task EXCEPT ![k].phase = "planning"]
  /\ UNCHANGED <<payment, rows>>

\* Mutant: the smallest delay first.
EarliestDelay(k, t) == \A s \in task[k].todo : Delay[t] <= Delay[s]

MostImportant(k, t) == \A s \in task[k].todo : Priority[t] <= Priority[s]

Consider(k, t) ==
  /\ task[k].phase = "planning"
  /\ t \in task[k].todo
  /\ MostImportant(k, t)
  /\ task' = [task EXCEPT
       ![k].todo = @ \ {t},
       ![k].accepted = IF Accepts(t, @) THEN @ \cup {t} ELSE @]
  /\ UNCHANGED <<payment, rows>>

Planned(k) == task[k].phase = "planning" /\ task[k].todo = {}

\* Mutant: each row in a transaction of its own, until one fails.
CommitSome(k) ==
  /\ Planned(k)
  /\ \E some \in SUBSET task[k].accepted : rows' = rows \cup ({k} \X some)
  /\ task' = [task EXCEPT ![k].phase = "done"]
  /\ UNCHANGED payment

Commit(k) ==
  /\ Planned(k)
  /\ rows' = rows \cup ({k} \X task[k].accepted)
  /\ task' = [task EXCEPT ![k].phase = "done"]
  /\ UNCHANGED payment

\* The database fails, with or without the commit, or the worker is killed;
\* Celery had acknowledged the task and does not deliver it again.
Fail(k) ==
  /\ task[k].phase \in {"queued", "planning"}
  /\ task' = [task EXCEPT ![k].phase = "failed"]
  /\ \/ rows' = rows
     \/ Planned(k) /\ rows' = rows \cup ({k} \X task[k].accepted)
  /\ UNCHANGED payment

Next ==
  \E k \in Tasks :
    \/ Begin(k)
    \/ \E t \in Templates : Consider(k, t)
    \/ Commit(k)
    \/ Fail(k)

Spec == Init /\ [][Next]_vars

-----------------------------------------------------------------------------
(* Properties. *)

\* Whatever minute the learner pays in, the notifications of a schedule keep the
\* minimum gap, also to the one that is sent at once and to the one that is
\* counted back from the night.
GapKept ==
  \A k \in Tasks : \A s, t \in task[k].accepted : s # t => Apart(s, t)

\* Nothing but the answer to the payment itself is planned for the night: who
\* pays in the day gets all rows at hours at which they are pushed.
NightFree ==
  \A k \in Tasks : \A t \in task[k].accepted :
    ~Immediate(t) /\ payment >= DndEnd => ~IsDndActive(SendAt(t))

\* Reference definition of the schedule: a template is in it if and only if it
\* fits the day and no more important one that is in it is too close.  None is
\* dropped for the sake of a less important one or without a reason.
ImportanceDecides ==
  \A k \in Tasks : task[k].phase # "queued" =>
    \A t \in Templates \ task[k].todo :
      t \in task[k].accepted <=>
        \/ Immediate(t)
        \/ /\ Fits(t)
           /\ \A s \in task[k].accepted : Priority[s] < Priority[t] => Apart(s, t)

\* A learner gets the whole schedule or nothing of it, and two executions for one
\* payment write the same one: failures leave no part of it.
ScheduleIsWhole ==
  \A k, l \in Tasks :
    LET Rows(x) == {t \in Templates : <<x, t>> \in rows} IN
      Rows(k) = {} \/ Rows(l) = {} \/ Rows(k) = Rows(l)

=============================================================================
