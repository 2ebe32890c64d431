---------------------------- MODULE EventStream ----------------------------
(***************************************************************************)
(* The event consumer (app/events/consumer.py, processor.py and            *)
(* workers/event_consumer.py) between Redis, which keeps two streams and   *)
(* the consumer group's cursor and pending-entries list (PEL), the         *)
(* database, and the Celery queue of event notifications.                  *)
(*                                                                         *)
(* XREADGROUP with ">" moves new entries into the PEL and into the hands   *)
(* of the consumer, which handles them one by one: process, enqueue the    *)
(* notification of a transition, commit, XACK.  Redis may fail at every    *)
(* call, before or after it took effect; the database may fail; the        *)
(* process may crash.  Nothing ever reads the PEL.                         *)
(***************************************************************************)
EXTENDS Naturals, Sequences

CONSTANTS
  Users,
  Count,          \* entries per stream and XREADGROUP, 10 in the code
  MaxReconnects,  \* failed attempts in a row that are survived, 5 in the code
  MaxEntries,     \* bound of the model: entries per stream
  MaxTotal        \* bound of the model: entries of both streams together

ASSUME Bounds ==
  /\ Count \in Nat \ {0}
  /\ MaxReconnects \in Nat
  /\ MaxEntries \in Nat

VARIABLES
  log,       \* [Streams -> sequence of entries]
  cursor,    \* [Streams -> Nat]: last entry delivered to the group
  pending,   \* the PEL: delivered entries not acknowledged
  done,      \* [Streams -> Nat]: entries the consumer no longer has in hand
  pc,        \* where the consumer is
  attempts,  \* reconnect_attempts
  running,   \* _running
  rows,      \* users with a committed user_journey_state row
  applied,   \* history: entries whose transaction was committed, in order
  task       \* the notification task of each progress entry

vars == <<log, cursor, pending, done, pc, attempts, running, rows, applied, task>>

redis == <<log, cursor, pending>>

\* In the order in which a reply of XREADGROUP lists them.
Streams == {"progress", "profile"}

\* "moving" entries change the user's state; only a well-formed payload is
\* processed, and only progress events can move.
Kinds(s) ==
  IF s = "progress" THEN {"plain", "moving", "malformed"} ELSE {"plain", "malformed"}

Entries == [kind : Kinds("progress"), user : Users]

Ids == Streams \X (1 .. MaxEntries)

\* connecting, backoff: the loop of start(); reading: at XREADGROUP; handling,
\* committing, acking: in the try of _process_message; excepting: in one of its
\* handlers, at the last XACK; exited: start() returned; down: crashed.
Busy == {"handling", "committing", "acking", "excepting"}

TypeOK ==
  /\ log \in [Streams -> Seq(Entries)]
  /\ \A s \in Streams : Len(log[s]) <= MaxEntries
  /\ cursor \in [Streams -> 0 .. MaxEntries]
  /\ done \in [Streams -> 0 .. MaxEntries]
  /\ pending \subseteq Ids
  /\ pc \in Busy \cup {"connecting", "backoff", "reading", "exited", "down"}
  /\ attempts \in 0 .. MaxReconnects + 1
  /\ running \in BOOLEAN
  /\ rows \subseteq Users
  /\ applied \in Seq(Ids)
  /\ task \in [1 .. MaxEntries -> {"none", "queued", "notified", "missed", "lost"}]

Init ==
  /\ log = [s \in Streams |-> <<>>]
  /\ cursor = [s \in Streams |-> 0]
  /\ pending = {}
  /\ done = [s \in Streams |-> 0]
  /\ pc = "connecting"
  /\ attempts = 0
  /\ running = TRUE
  /\ rows \in SUBSET Users
  /\ applied = <<>>
  /\ task = [n \in 1 .. MaxEntries |-> "none"]

-----------------------------------------------------------------------------
(* The loop of start(). *)

\* Mutant: the number of attempts is never compared with the maximum.
EscapeUnbounded ==
  /\ done' = cursor'
  /\ attempts' = attempts + 1
  /\ pc' = "backoff"
  /\ UNCHANGED <<running, rows, applied, task>>

\* An exception that leaves _consume_loop or _ensure_consumer_groups: whatever
\* of the batch was still in hand is forgotten.
Escape ==
  /\ done' = cursor'
  /\ attempts' = attempts + 1
  /\ pc' = IF attempts + 1 > MaxReconnects THEN "exited" ELSE "backoff"
  /\ UNCHANGED <<running, rows, applied, task>>

\* Mutant: a new connection takes up the entries left in the PEL again.
ConnectRereading ==
  LET left(s) == {n \in 1 .. cursor[s] : <<s, n>> \in pending} IN
    /\ pc = "connecting" /\ running
    /\ attempts' = 0
    /\ done' = [s \in Streams |->
                  IF left(s) = {} THEN cursor[s]
                  ELSE (CHOOSE n \in left(s) : \A m \in left(s) : n <= m) - 1]
    /\ pc' = IF pending = {} THEN "reading" ELSE "handling"
    /\ UNCHANGED <<redis, running, rows, applied, task>>

\* The groups exist or are created at id 0, so that the cursor starts at 0.
Connect ==
  /\ pc = "connecting" /\ running
  /\ pc' = "reading" /\ attempts' = 0
  /\ UNCHANGED <<redis, done, running, rows, applied, task>>

ConnectFails ==
  /\ pc = "connecting" /\ running
  /\ UNCHANGED redis
  /\ Escape

BackoffEnds ==
  /\ pc = "backoff"
  /\ pc' = "connecting"
  /\ UNCHANGED <<redis, done, attempts, running, rows, applied, task>>

\* Both loops test _running at their head only: a batch in hand is finished.
LeaveLoop ==
  /\ pc \in {"connecting", "reading"} /\ ~running
  /\ pc' = "exited"
  /\ UNCHANGED <<redis, done, attempts, running, rows, applied, task>>

-----------------------------------------------------------------------------
(* XREADGROUP *)

\* Mutant: only the progress stream is asked for.
FetchedProgress(s) ==
  IF s = "progress" /\ Len(log[s]) > cursor[s] THEN cursor[s] + 1 ELSE cursor[s]

Fetched(s) ==
  IF Len(log[s]) < cursor[s] + Count THEN Len(log[s]) ELSE cursor[s] + Count

Deliver ==
  /\ \E s \in Streams : Fetched(s) > cursor[s]
  /\ cursor' = [s \in Streams |-> Fetched(s)]
  /\ pending' = pending \cup {id \in Ids : cursor[id[1]] < id[2] /\ id[2] <= Fetched(id[1])}
  /\ UNCHANGED log

Read ==
  /\ pc = "reading" /\ running
  /\ Deliver
  /\ pc' = "handling"
  /\ UNCHANGED <<done, attempts, running, rows, applied, task>>

\* The call fails; Redis may have delivered entries that never arrive.
ReadFails ==
  /\ pc = "reading" /\ running
  /\ Deliver \/ UNCHANGED redis
  /\ Escape

-----------------------------------------------------------------------------
(* _process_message *)

InHand(s) == done[s] < cursor[s]

Current == IF InHand("progress") THEN "progress" ELSE "profile"

Position == done[Current] + 1

Message == <<Current, Position>>

Entry == log[Current][Position]

\* The message is finished with; the rest of the batch follows.
NextMessage ==
  /\ done' = [done EXCEPT ![Current] = Position]
  /\ pc' = IF \E s \in Streams : done'[s] < cursor[s] THEN "handling" ELSE "reading"

\* generate_event_notification.delay, called before the commit.
Announce == task' = [task EXCEPT ![Position] = "queued"]

\* Mutant: the first transition of a user, which created the row, is not announced.
HandleKnownUser ==
  /\ pc = "handling"
  /\ pc' = IF Entry.kind = "malformed" THEN "excepting" ELSE "committing"
  /\ IF Entry.kind = "moving" /\ Entry.user \in rows THEN Announce ELSE UNCHANGED task
  /\ UNCHANGED <<redis, done, attempts, running, rows, applied>>

\* process(): a malformed payload raises, a transition is announced.
Handle ==
  /\ pc = "handling"
  /\ pc' = IF Entry.kind = "malformed" THEN "excepting" ELSE "committing"
  /\ IF Entry.kind = "moving" THEN Announce ELSE UNCHANGED task
  /\ UNCHANGED <<redis, done, attempts, running, rows, applied>>

\* process() raises: the database, or the broker (which may have the task).
HandleFails ==
  /\ pc = "handling" /\ Entry.kind # "malformed"
  /\ pc' = "excepting"
  /\ UNCHANGED task \/ (Entry.kind = "moving" /\ Announce)
  /\ UNCHANGED <<redis, done, attempts, running, rows, applied>>

Apply ==
  /\ applied' = Append(applied, Message)
  /\ rows' = IF Current = "progress" THEN rows \cup {Entry.user} ELSE rows

Commit ==
  /\ pc = "committing"
  /\ pc' = "acking"
  /\ Apply
  /\ UNCHANGED <<redis, done, attempts, running, task>>

\* commit() raises; the transaction may have been committed nevertheless.
CommitFails ==
  /\ pc = "committing"
  /\ pc' = "excepting"
  /\ Apply \/ UNCHANGED <<applied, rows>>
  /\ UNCHANGED <<redis, done, attempts, running, task>>

Ack ==
  /\ pc \in {"acking", "excepting"}
  /\ pending' = pending \ {Message}
  /\ NextMessage
  /\ UNCHANGED <<log, cursor, attempts, running, rows, applied, task>>

\* XACK raises, done or not, inside the try: "except Exception" calls it again.
AckFails ==
  /\ pc = "acking"
  /\ pc' = "excepting"
  /\ pending' \in {pending, pending \ {Message}}
  /\ UNCHANGED <<log, cursor, done, attempts, running, rows, applied, task>>

\* XACK raises inside an exception handler: nothing catches it below start().
LastAckFails ==
  /\ pc = "excepting"
  /\ pending' \in {pending, pending \ {Message}}
  /\ UNCHANGED <<log, cursor>>
  /\ Escape

-----------------------------------------------------------------------------
(* The process, the Celery worker and the producers. *)

\* SIGINT or SIGTERM: stop().
Stop ==
  /\ running /\ pc \notin {"exited", "down"}
  /\ running' = FALSE
  /\ UNCHANGED <<redis, done, pc, attempts, rows, applied, task>>

Crash ==
  /\ pc \notin {"exited", "down"}
  /\ pc' = "down"
  /\ done' = cursor
  /\ UNCHANGED <<redis, attempts, running, rows, applied, task>>

\* Someone starts the process again.
Restart ==
  /\ pc \in {"exited", "down"}
  /\ pc' = "connecting" /\ attempts' = 0 /\ running' = TRUE
  /\ UNCHANGED <<redis, done, rows, applied, task>>

\* process_event_notification: without a committed row there is no notification.
RunTask(n) ==
  /\ task[n] = "queued"
  /\ task' = [task EXCEPT ![n] = IF log["progress"][n].user \in rows
                                 THEN "notified" ELSE "missed"]
  /\ UNCHANGED <<redis, done, pc, attempts, running, rows, applied>>

\* The Celery worker acknowledges a task before it runs it, and may be killed.
LoseTask(n) ==
  /\ task[n] = "queued"
  /\ task' = [task EXCEPT ![n] = "lost"]
  /\ UNCHANGED <<redis, done, pc, attempts, running, rows, applied>>

Produce(s, e) ==
  /\ Len(log[s]) < MaxEntries
  /\ Len(log["progress"]) + Len(log["profile"]) < MaxTotal
  /\ log' = [log EXCEPT ![s] = Append(@, e)]
  /\ UNCHANGED <<cursor, pending, done, pc, attempts, running, rows, applied, task>>

-----------------------------------------------------------------------------

HandleMessage ==
  \/ Handle \/ HandleFails \/ Commit \/ CommitFails
  \/ Ack \/ AckFails \/ LastAckFails

Next ==
  \/ Connect
  \/ ConnectFails
  \/ BackoffEnds
  \/ LeaveLoop
  \/ Read
  \/ ReadFails
  \/ HandleMessage
  \/ Stop
  \/ Crash
  \/ Restart
  \/ \E n \in 1 .. MaxEntries : RunTask(n)
  \/ \E n \in 1 .. MaxEntries : LoseTask(n)
  \/ \E s \in Streams, e \in Entries : e.kind \in Kinds(s) /\ Produce(s, e)

Spec == Init /\ [][Next]_vars

\* The consumer's own steps are taken; Redis is not unreachable for ever; a
\* process that ended is started again.
Fairness ==
  /\ WF_vars(HandleMessage)
  /\ WF_vars(BackoffEnds)
  /\ WF_vars(LeaveLoop)
  /\ WF_vars(Restart)
  /\ SF_vars(Connect)
  /\ SF_vars(Read)

FairSpec == Spec /\ Fairness

-----------------------------------------------------------------------------
(* Properties. *)

\* Whatever fails, crashes or restarts, the entries of a stream are committed
\* in their order and none of them twice: counters are never counted double by
\* the consumer itself.
AppliedInOrder ==
  \A i, j \in DOMAIN applied :
    i < j /\ applied[i][1] = applied[j][1] => applied[i][2] < applied[j][2]

Announced(s, n) ==
  s = "progress" /\ log[s][n].kind = "moving" => task[n] # "none"

\* A committed transition has been announced to the notification worker: no
\* crash can come between the two in the wrong order.
CommittedMovesAnnounced ==
  \A i \in DOMAIN applied : Announced(applied[i][1], applied[i][2])

\* Entries that cannot be applied any more: those no longer in hand, and the one
\* in hand once its transaction has ended.
Settled ==
  [s \in Streams |->
     IF pc \in {"acking", "excepting"} /\ s = Current THEN done[s] + 1 ELSE done[s]]

\* The consumer with all its failures implements ordered at-most-once delivery.
Delivery ==
  INSTANCE OrderedDelivery
    WITH length <- [s \in Streams |-> Len(log[s])], settled <- Settled
ImplementsOrderedDelivery == Delivery!Spec

\* No entry waits for ever: every entry of either stream is read and dealt with,
\* applied or not, through any number of failures that come to an end.
EveryEntrySettled ==
  \A s \in Streams, n \in 1 .. MaxEntries :
    n <= Len(log[s]) ~> n <= done[s]

=============================================================================
