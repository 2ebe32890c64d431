---------------------------- MODULE FrequencyCap ----------------------------
(***************************************************************************)
(* The daily cap on notifications (app/notifications/frequency.py) as the  *)
(* two generators of notifications use it (app/notifications/scheduler.py):*)
(* schedule_slot, which walks over all journeys of all users in one        *)
(* transaction, and process_event_notification, one journey in one.        *)
(*                                                                         *)
(* can_send counts the rows the session can see: committed ones and those  *)
(* it flushed itself.  The row that the answer allows is written after the *)
(* text has been generated and seen by others after the commit.            *)
(***************************************************************************)
EXTENDS Naturals, FiniteSets

CONSTANTS
  Users,
  Journeys,    \* rows of user_journey_states
  Owner,       \* the user of each
  Sessions,    \* tasks that may run at the same time
  MaxPerDay    \* the largest value that the setting max_per_day takes

ASSUME Bounds ==
  /\ IsFiniteSet(Journeys)
  /\ IsFiniteSet(Sessions)
  /\ Sessions # {}
  /\ Owner \in [Journeys -> Users]
  /\ MaxPerDay \in Nat

VARIABLES
  counted,  \* [Users -> Nat]: committed rows of today that have not failed
  session   \* the open sessions

vars == <<counted, session>>

\* left: journeys still to be looked at; cleared: the one whose text is being
\* generated; flushed: those with a row in this transaction.  A row is dated by
\* the begin of its transaction, so a session from yesterday writes none of today.
SessionType ==
  [open : BOOLEAN, left : SUBSET Journeys, cleared : SUBSET Journeys,
   flushed : SUBSET Journeys, today : BOOLEAN]

TypeOK ==
  /\ counted \in [Users -> Nat]
  /\ session \in [Sessions -> SessionType]

Closed ==
  [open |-> FALSE, left |-> {}, cleared |-> {}, flushed |-> {}, today |-> TRUE]

Begun(work) == [Closed EXCEPT !.open = TRUE, !.left = work]

Init ==
  /\ counted = [u \in Users |-> 0]
  /\ session = [s \in Sessions |-> Closed]

-----------------------------------------------------------------------------

JourneysOf(u) == {j \in Journeys : Owner[j] = u}

\* What can_send counts in session s.
Visible(s, u) ==
  counted[u] + IF session[s].today
                 THEN Cardinality(session[s].flushed \cap JourneysOf(u))
                 ELSE 0

CanSendUnflushed(s, u, max) == counted[u] < max

CanSend(s, u, max) == Visible(s, u) < max

\* The rows not in completed or churned at the time of the query.
BeginSlot(s) ==
  /\ ~session[s].open
  /\ \E work \in SUBSET Journeys : session' = [session EXCEPT ![s] = Begun(work)]
  /\ UNCHANGED counted

BeginEvent(s, j) ==
  /\ ~session[s].open
  /\ session' = [session EXCEPT ![s] = Begun({j})]
  /\ UNCHANGED counted

Turn(s, j) ==
  /\ session[s].open
  /\ session[s].cleared = {}
  /\ j \in session[s].left

\* The user was active lately, or something before the check raised.
PassOver(s, j) ==
  /\ Turn(s, j)
  /\ session' = [session EXCEPT ![s].left = @ \ {j}]
  /\ UNCHANGED counted

\* max: the value of max_per_day that the session reads or has cached.
Check(s, j, max) ==
  /\ Turn(s, j)
  /\ session' = [session EXCEPT
       ![s].left = @ \ {j},
       ![s].cleared = IF CanSend(s, Owner[j], max) THEN {j} ELSE {}]
  /\ UNCHANGED counted

\* No journey, or the generation raised.
Drop(s) ==
  /\ session[s].cleared # {}
  /\ session' = [session EXCEPT ![s].cleared = {}]
  /\ UNCHANGED counted

Flush(s) ==
  /\ session[s].cleared # {}
  /\ session' = [session EXCEPT ![s].flushed = @ \cup session[s].cleared,
                                ![s].cleared = {}]
  /\ UNCHANGED counted

Commit(s) ==
  /\ session[s].open
  /\ session[s].left = {}
  /\ session[s].cleared = {}
  /\ counted' = [u \in Users |-> Visible(s, u)]
  /\ session' = [session EXCEPT ![s] = Closed]

\* An error of the flush or of the commit, or the end of the process.
Abort(s) ==
  /\ session[s].open
  /\ session' = [session EXCEPT ![s] = Closed]
  /\ UNCHANGED counted

\* The delivery of one of today's notifications fails: it no longer counts.
DeliveryOfAnyDayFails(u) ==
  /\ counted' = [counted EXCEPT ![u] = @ - 1]
  /\ UNCHANGED session

DeliveryFails(u) ==
  /\ counted[u] > 0
  /\ counted' = [counted EXCEPT ![u] = @ - 1]
  /\ UNCHANGED session

\* Midnight UTC.
DayBegins ==
  /\ counted' = [u \in Users |-> 0]
  /\ session' = [s \in Sessions |->
       [session[s] EXCEPT !.today = ~session[s].open]]

-----------------------------------------------------------------------------

Next ==
  \/ \E s \in Sessions :
       \/ BeginSlot(s)
       \/ Drop(s)
       \/ Flush(s)
       \/ Commit(s)
       \/ Abort(s)
       \/ \E j \in Journeys :
            \/ BeginEvent(s, j)
            \/ PassOver(s, j)
            \/ \E max \in 0 .. MaxPerDay : Check(s, j, max)
  \/ \E u \in Users : DeliveryFails(u)
  \/ DayBegins

Spec == Init /\ [][Next]_vars

-----------------------------------------------------------------------------
(* Properties. *)

\* defaults.yaml: max_per_day is the "Maximum notifications per user per day".
CapHolds == \A u \in Users : counted[u] <= MaxPerDay

\* How far concurrent sessions can carry a user over the cap: each further
\* session by one notification for every journey of the user, and no interplay
\* of failures, restarts and midnight by more.
ExcessBounded ==
  \A u \in Users :
    counted[u] <= MaxPerDay + (Cardinality(Sessions) - 1) * Cardinality(JourneysOf(u))

=============================================================================
