-------------------------- MODULE EventStreamProofs --------------------------
(***************************************************************************)
(* Proofs about EventStream: its type correctness, the order in which      *)
(* entries are applied, that committed transitions were announced, and     *)
(* that the consumer implements OrderedDelivery, for any number of entries *)
(* per stream, any batch size and any number of reconnection attempts.     *)
(***************************************************************************)
EXTENDS EventStream, TLAPS

\* The cursor never passes the end of a log, nor the consumer the cursor.
CursorInv ==
  \A s \in Streams : done[s] <= cursor[s] /\ cursor[s] <= Len(log[s])

\* The consumer has entries in hand exactly while it handles messages.
HandInv == pc \in Busy <=> \E s \in Streams : InHand(s)

\* More failed attempts than are survived end the process.
AttemptsInv == pc # "exited" => attempts <= MaxReconnects

Shape == TypeOK /\ CursorInv /\ HandInv /\ AttemptsInv

\* Everything applied is settled.
AppliedSettled ==
  \A i \in DOMAIN applied : applied[i][2] <= Settled[applied[i][1]]

\* A transition about to be committed has been announced.
CommittingAnnounced ==
  pc = "committing" => Announced(Current, Position)

\* The invariant behind the two properties of the applied entries.
IInv ==
  Shape /\ AppliedSettled /\ AppliedInOrder /\ CommittingAnnounced
        /\ CommittedMovesAnnounced

-----------------------------------------------------------------------------

\* While a message is handled, it is one of the log, after those done with.
LEMMA InHandFacts ==
  ASSUME Shape, pc \in Busy
  PROVE  /\ Current \in Streams
         /\ InHand(Current)
         /\ Position \in 1 .. MaxEntries
         /\ Position = done[Current] + 1
         /\ Position <= cursor[Current]
         /\ Position <= Len(log[Current])
         /\ Message \in Ids
         /\ Entry \in Entries
<1>1. Current \in Streams /\ InHand(Current)
  BY DEF Shape, HandInv, Current, Streams
<1>2. /\ done[Current] \in Nat /\ cursor[Current] \in 0 .. MaxEntries
      /\ log[Current] \in Seq(Entries) /\ Len(log[Current]) \in Nat
      /\ cursor[Current] <= Len(log[Current])
  BY <1>1, Bounds DEF Shape, TypeOK, CursorInv
<1>3. /\ Position \in 1 .. MaxEntries /\ Position <= cursor[Current]
      /\ Position <= Len(log[Current])
  BY <1>1, <1>2, Bounds DEF InHand, Position
<1>4. Message \in Ids
  BY <1>1, <1>3 DEF Message, Ids
<1>5. Entry \in Entries
  BY <1>2, <1>3 DEF Entry
<1> QED
  BY <1>1, <1>3, <1>4, <1>5 DEF Position

\* What XREADGROUP may deliver.
LEMMA FetchedFacts ==
  ASSUME Shape, NEW s \in Streams
  PROVE  /\ Fetched(s) \in 0 .. MaxEntries
         /\ cursor[s] <= Fetched(s)
         /\ Fetched(s) <= Len(log[s])
<1>1. /\ cursor[s] \in Nat /\ Len(log[s]) \in Nat
      /\ cursor[s] <= Len(log[s]) /\ Len(log[s]) <= MaxEntries
  BY Bounds DEF Shape, TypeOK, CursorInv
<1> QED
  BY <1>1, Bounds DEF Fetched

\* Delivery keeps Redis well typed and the cursor within the logs.
LEMMA DeliverShape ==
  ASSUME Shape, Deliver
  PROVE  /\ log' = log
         /\ cursor' \in [Streams -> 0 .. MaxEntries]
         /\ pending' \subseteq Ids
         /\ \A s \in Streams : cursor[s] <= cursor'[s] /\ cursor'[s] <= Len(log'[s])
         /\ \E s \in Streams : cursor[s] < cursor'[s]
<1>1. cursor' = [s \in Streams |-> Fetched(s)] /\ log' = log
  BY DEF Deliver
<1>2. \A s \in Streams : cursor'[s] = Fetched(s)
  BY <1>1
<1>3. pending' \subseteq Ids
  BY DEF Deliver, Shape, TypeOK
<1>4. cursor' \in [Streams -> 0 .. MaxEntries]
  BY <1>1, FetchedFacts
<1>5. \A s \in Streams : cursor[s] <= cursor'[s] /\ cursor'[s] <= Len(log'[s])
  BY <1>1, <1>2, FetchedFacts
<1>6. \E s \in Streams : cursor[s] < cursor'[s]
  <2>1. PICK s \in Streams : Fetched(s) > cursor[s]
    BY DEF Deliver
  <2>2. cursor[s] \in Nat /\ Fetched(s) \in Nat
    BY FetchedFacts, Bounds DEF Shape, TypeOK
  <2> QED
    BY <1>2, <2>1, <2>2
<1> QED
  BY <1>1, <1>3, <1>4, <1>5, <1>6

\* An exception that reaches start() leaves a well-formed state.
LEMMA EscapeShape ==
  ASSUME Shape, Escape, attempts <= MaxReconnects,
         log' = log,
         cursor' \in [Streams -> 0 .. MaxEntries],
         \A s \in Streams : cursor'[s] <= Len(log'[s]),
         pending' \subseteq Ids
  PROVE  Shape'
<1>1. attempts' \in 0 .. MaxReconnects + 1
  BY Bounds DEF Escape, Shape, TypeOK
<1>2. done' = cursor' /\ pc' \in {"exited", "backoff"}
  BY DEF Escape
<1>3. TypeOK'
  BY <1>1, <1>2 DEF Escape, Shape, TypeOK
<1>4. CursorInv'
  BY <1>2, Bounds DEF CursorInv
<1>5. HandInv'
  BY <1>2, Bounds DEF HandInv, InHand, Busy
<1>6. AttemptsInv'
  BY Bounds DEF Escape, AttemptsInv, Shape, TypeOK
<1> QED
  BY <1>3, <1>4, <1>5, <1>6 DEF Shape

-----------------------------------------------------------------------------
(* Every step keeps the shape. *)

LEMMA InitShape == Init => Shape
<1> SUFFICES ASSUME Init PROVE Shape
  OBVIOUS
<1>1. TypeOK
  <2>1. /\ log \in [Streams -> Seq(Entries)]
        /\ \A s \in Streams : Len(log[s]) = 0
    BY DEF Init
  <2> QED
    BY <2>1, Bounds DEF Init, TypeOK
<1>2. CursorInv /\ HandInv /\ AttemptsInv
  BY Bounds DEF Init, CursorInv, HandInv, InHand, AttemptsInv, Busy
<1> QED
  BY <1>1, <1>2 DEF Shape

\* Steps of start() and of the process around it.
LEMMA LoopShape ==
  ASSUME Shape,
         Connect \/ ConnectFails \/ BackoffEnds \/ LeaveLoop \/ Stop \/ Crash \/ Restart
  PROVE  Shape'
<1>1. CASE Connect
  BY <1>1, Bounds DEF Connect, redis, Shape, TypeOK, CursorInv, HandInv, InHand, AttemptsInv, Busy
<1>2. CASE ConnectFails
  <2>1. attempts <= MaxReconnects
    BY <1>2 DEF ConnectFails, Shape, AttemptsInv
  <2>2. /\ log' = log /\ cursor' \in [Streams -> 0 .. MaxEntries] /\ pending' \subseteq Ids
        /\ \A s \in Streams : cursor'[s] <= Len(log'[s])
    BY <1>2 DEF ConnectFails, redis, Shape, TypeOK, CursorInv
  <2> QED
    BY <1>2, <2>1, <2>2, EscapeShape DEF ConnectFails
<1>3. CASE BackoffEnds
  BY <1>3 DEF BackoffEnds, redis, Shape, TypeOK, CursorInv, HandInv, InHand, AttemptsInv, Busy
<1>4. CASE LeaveLoop
  BY <1>4 DEF LeaveLoop, redis, Shape, TypeOK, CursorInv, HandInv, InHand, AttemptsInv, Busy
<1>5. CASE Stop
  BY <1>5 DEF Stop, redis, Shape, TypeOK, CursorInv, HandInv, InHand, AttemptsInv
<1>6. CASE Crash
  <2>1. TypeOK'
    BY <1>6 DEF Crash, redis, Shape, TypeOK
  <2>2. CursorInv' /\ HandInv' /\ AttemptsInv'
    BY <1>6, Bounds DEF Crash, redis, Shape, TypeOK, CursorInv, HandInv, InHand, AttemptsInv, Busy
  <2> QED
    BY <2>1, <2>2 DEF Shape
<1>7. CASE Restart
  BY <1>7, Bounds DEF Restart, redis, Shape, TypeOK, CursorInv, HandInv, InHand, AttemptsInv, Busy
<1> QED
  BY <1>1, <1>2, <1>3, <1>4, <1>5, <1>6, <1>7

\* XREADGROUP.
LEMMA ReadShape ==
  ASSUME Shape, Read \/ ReadFails
  PROVE  Shape'
<1>1. CASE Read
  <2>1. /\ log' = log /\ cursor' \in [Streams -> 0 .. MaxEntries] /\ pending' \subseteq Ids
        /\ \A s \in Streams : cursor[s] <= cursor'[s] /\ cursor'[s] <= Len(log'[s])
        /\ \E s \in Streams : cursor[s] < cursor'[s]
    BY <1>1, DeliverShape DEF Read
  <2>2. TypeOK'
    BY <1>1, <2>1 DEF Read, Shape, TypeOK, Busy
  <2>3. CursorInv'
    BY <1>1, <2>1, Bounds DEF Read, Shape, TypeOK, CursorInv
  <2>4. HandInv'
    <3>1. PICK s \in Streams : cursor[s] < cursor'[s]
      BY <2>1
    <3>2. done'[s] < cursor'[s]
      BY <1>1, <2>1, <3>1, Bounds DEF Read, Shape, TypeOK, CursorInv
    <3> QED
      BY <1>1, <3>2 DEF Read, HandInv, InHand, Busy
  <2>5. AttemptsInv'
    BY <1>1 DEF Read, Shape, AttemptsInv
  <2> QED
    BY <2>2, <2>3, <2>4, <2>5 DEF Shape
<1>2. CASE ReadFails
  <2>1. attempts <= MaxReconnects
    BY <1>2 DEF ReadFails, Shape, AttemptsInv
  <2>2. CASE Deliver
    BY <1>2, <2>1, <2>2, DeliverShape, EscapeShape DEF ReadFails
  <2>3. CASE UNCHANGED redis
    <3>1. /\ log' = log /\ cursor' \in [Streams -> 0 .. MaxEntries] /\ pending' \subseteq Ids
          /\ \A s \in Streams : cursor'[s] <= Len(log'[s])
      BY <2>3 DEF redis, Shape, TypeOK, CursorInv
    <3> QED
      BY <1>2, <2>1, <3>1, EscapeShape DEF ReadFails
  <2> QED
    BY <1>2, <2>2, <2>3 DEF ReadFails
<1> QED
  BY <1>1, <1>2

\* _process_message.
LEMMA MessageShape ==
  ASSUME Shape, HandleMessage
  PROVE  Shape'
<1>1. CASE Handle \/ HandleFails
  <2>1. /\ pc \in Busy /\ pc' \in Busy /\ pc' # "exited" /\ pc # "exited"
        /\ UNCHANGED <<log, cursor, pending, done, attempts, running, rows, applied>>
    BY <1>1 DEF Handle, HandleFails, redis, Busy
  <2>2. task' \in [1 .. MaxEntries -> {"none", "queued", "notified", "missed", "lost"}]
    BY <1>1, <2>1, InHandFacts DEF Handle, HandleFails, Announce, Shape, TypeOK
  <2> QED
    BY <2>1, <2>2 DEF Shape, TypeOK, CursorInv, HandInv, InHand, AttemptsInv
<1>2. CASE Commit \/ CommitFails
  <2>1. /\ pc \in Busy /\ pc' \in Busy /\ pc' # "exited" /\ pc # "exited"
        /\ UNCHANGED <<log, cursor, pending, done, attempts, running, task>>
    BY <1>2 DEF Commit, CommitFails, redis, Busy
  <2>2. Message \in Ids /\ Entry.user \in Users
    BY <2>1, InHandFacts DEF Entries
  <2>3. applied' \in Seq(Ids) /\ rows' \subseteq Users
    <3>1. CASE Apply
      <4>1. applied \in Seq(Ids) /\ rows \subseteq Users
        BY DEF Shape, TypeOK
      <4>2. applied' \in Seq(Ids)
        BY <2>2, <3>1, <4>1 DEF Apply
      <4>3. rows' \subseteq Users
        BY <2>2, <3>1, <4>1 DEF Apply
      <4> QED
        BY <4>2, <4>3
    <3>2. CASE UNCHANGED <<applied, rows>>
      BY <3>2 DEF Shape, TypeOK
    <3> QED
      BY <1>2, <3>1, <3>2 DEF Commit, CommitFails
  <2> QED
    BY <2>1, <2>3 DEF Shape, TypeOK, CursorInv, HandInv, InHand, AttemptsInv
<1>3. CASE Ack
  <2>1. /\ pc \in Busy /\ pending' \subseteq Ids
        /\ UNCHANGED <<log, cursor, attempts, running, rows, applied, task>>
        /\ done' = [done EXCEPT ![Current] = Position]
        /\ pc' = IF \E s \in Streams : done'[s] < cursor[s] THEN "handling" ELSE "reading"
    BY <1>3 DEF Ack, NextMessage, Shape, TypeOK, Busy
  <2>2. Current \in Streams /\ Position \in 1 .. MaxEntries /\ Position <= cursor[Current]
    BY <2>1, InHandFacts
  <2>3. TypeOK'
    <3>1. done' \in [Streams -> 0 .. MaxEntries]
      BY <2>1, <2>2, Bounds DEF Shape, TypeOK
    <3> QED
      BY <2>1, <3>1 DEF Shape, TypeOK, Busy
  <2>4. CursorInv'
    BY <2>1, <2>2 DEF Shape, CursorInv, TypeOK
  <2>5. HandInv' /\ AttemptsInv'
    BY <2>1 DEF Shape, HandInv, InHand, AttemptsInv, Busy
  <2> QED
    BY <2>3, <2>4, <2>5 DEF Shape
<1>4. CASE AckFails
  BY <1>4 DEF AckFails, Shape, TypeOK, CursorInv, HandInv, InHand, AttemptsInv, Busy
<1>5. CASE LastAckFails
  <2>1. attempts <= MaxReconnects
    BY <1>5 DEF LastAckFails, Shape, AttemptsInv
  <2>2. /\ log' = log /\ cursor' \in [Streams -> 0 .. MaxEntries] /\ pending' \subseteq Ids
        /\ \A s \in Streams : cursor'[s] <= Len(log'[s])
    BY <1>5 DEF LastAckFails, Shape, TypeOK, CursorInv
  <2> QED
    BY <1>5, <2>1, <2>2, EscapeShape DEF LastAckFails
<1> QED
  BY <1>1, <1>2, <1>3, <1>4, <1>5 DEF HandleMessage

\* Celery workers and producers.
LEMMA OutsideShape ==
  ASSUME Shape,
         \/ \E n \in 1 .. MaxEntries : RunTask(n) \/ LoseTask(n)
         \/ \E s \in Streams, e \in Entries : e.kind \in Kinds(s) /\ Produce(s, e)
  PROVE  Shape'
<1>1. ASSUME NEW n \in 1 .. MaxEntries, RunTask(n) \/ LoseTask(n)
      PROVE  Shape'
  <2>1. UNCHANGED <<log, cursor, pending, done, pc, attempts, running, rows, applied>>
    BY <1>1 DEF RunTask, LoseTask, redis
  <2>2. task' \in [1 .. MaxEntries -> {"none", "queued", "notified", "missed", "lost"}]
    BY <1>1 DEF RunTask, LoseTask, Shape, TypeOK
  <2> QED
    BY <2>1, <2>2 DEF Shape, TypeOK, CursorInv, HandInv, InHand, AttemptsInv
<1>2. ASSUME NEW s \in Streams, NEW e \in Entries, Produce(s, e)
      PROVE  Shape'
  <2>1. /\ log' = [log EXCEPT ![s] = Append(log[s], e)]
        /\ UNCHANGED <<cursor, pending, done, pc, attempts, running, rows, applied, task>>
        /\ Len(log[s]) < MaxEntries
    BY <1>2 DEF Produce
  <2>2. /\ log[s] \in Seq(Entries)
        /\ Append(log[s], e) \in Seq(Entries)
        /\ Len(Append(log[s], e)) = Len(log[s]) + 1
        /\ Len(log[s]) \in Nat
    BY DEF Shape, TypeOK
  <2>3. /\ log' \in [Streams -> Seq(Entries)]
        /\ \A t \in Streams : Len(log'[t]) <= MaxEntries /\ Len(log[t]) <= Len(log'[t])
    <3>1. log' \in [Streams -> Seq(Entries)]
      BY <2>1, <2>2 DEF Shape, TypeOK
    <3>2. ASSUME NEW t \in Streams
          PROVE  Len(log'[t]) <= MaxEntries /\ Len(log[t]) <= Len(log'[t])
      <4>1. CASE t = s
        BY <2>1, <2>2, <4>1, Bounds DEF Shape, TypeOK
      <4>2. CASE t # s
        <5>1. log'[t] = log[t] /\ Len(log[t]) \in Nat
          BY <2>1, <4>2 DEF Shape, TypeOK
        <5> QED
          BY <5>1 DEF Shape, TypeOK
      <4> QED
        BY <4>1, <4>2
    <3> QED
      BY <3>1, <3>2
  <2>4. TypeOK'
    BY <2>1, <2>3 DEF Shape, TypeOK
  <2>5. CursorInv'
    <3> SUFFICES ASSUME NEW t \in Streams
                 PROVE  done'[t] <= cursor'[t] /\ cursor'[t] <= Len(log'[t])
      BY DEF CursorInv
    <3>1. /\ done[t] <= cursor[t] /\ cursor[t] <= Len(log[t])
          /\ cursor[t] \in Nat /\ Len(log[t]) \in Nat /\ Len(log'[t]) \in Nat
      BY <2>3, Bounds DEF Shape, TypeOK, CursorInv
    <3> QED
      BY <2>1, <2>3, <3>1
  <2>6. HandInv' /\ AttemptsInv'
    BY <2>1 DEF Shape, HandInv, InHand, AttemptsInv
  <2> QED
    BY <2>4, <2>5, <2>6 DEF Shape
<1> QED
  BY <1>1, <1>2

LEMMA StepShape == Shape /\ [Next]_vars => Shape'
<1> SUFFICES ASSUME Shape, [Next]_vars PROVE Shape'
  OBVIOUS
<1>1. CASE Connect \/ ConnectFails \/ BackoffEnds \/ LeaveLoop \/ Stop \/ Crash \/ Restart
  BY <1>1, LoopShape
<1>2. CASE Read \/ ReadFails
  BY <1>2, ReadShape
<1>3. CASE HandleMessage
  BY <1>3, MessageShape
<1>4. CASE \/ \E n \in 1 .. MaxEntries : RunTask(n) \/ LoseTask(n)
           \/ \E s \in Streams, e \in Entries : e.kind \in Kinds(s) /\ Produce(s, e)
  BY <1>4, OutsideShape
<1>5. CASE UNCHANGED vars
  BY <1>5 DEF vars, Shape, TypeOK, CursorInv, HandInv, InHand, AttemptsInv
<1> QED
  BY <1>1, <1>2, <1>3, <1>4, <1>5 DEF Next

\* EventConsumer and its surroundings keep every variable within its type.
THEOREM TypeCorrect == Spec => []TypeOK
<1>1. Shape => TypeOK
  BY DEF Shape
<1> QED
  BY <1>1, InitShape, StepShape, PTL DEF Spec

-----------------------------------------------------------------------------
(* Refinement of OrderedDelivery. *)

\* The settled positions lie between done and cursor.
SettledBounds ==
  \A s \in Streams :
    /\ Settled[s] \in Nat
    /\ done[s] \in Nat /\ cursor[s] \in Nat /\ Len(log[s]) \in Nat
    /\ done[s] <= Settled[s] /\ Settled[s] <= cursor[s]
    /\ cursor[s] <= Len(log[s])
    /\ pc \notin {"acking", "excepting"} => Settled[s] = done[s]
    /\ pc \notin Busy => Settled[s] = cursor[s]

LEMMA SettledFacts == Shape => SettledBounds
<1> SUFFICES ASSUME Shape, NEW s \in Streams
             PROVE  /\ Settled[s] \in Nat
                    /\ done[s] \in Nat /\ cursor[s] \in Nat /\ Len(log[s]) \in Nat
                    /\ done[s] <= Settled[s] /\ Settled[s] <= cursor[s]
                    /\ cursor[s] <= Len(log[s])
                    /\ pc \notin {"acking", "excepting"} => Settled[s] = done[s]
                    /\ pc \notin Busy => Settled[s] = cursor[s]
  BY DEF SettledBounds
<1>1. /\ done[s] \in Nat /\ cursor[s] \in Nat /\ Len(log[s]) \in Nat
      /\ done[s] <= cursor[s] /\ cursor[s] <= Len(log[s])
  BY Bounds DEF Shape, TypeOK, CursorInv
<1>2. Settled[s] = IF pc \in {"acking", "excepting"} /\ s = Current
                   THEN done[s] + 1 ELSE done[s]
  BY DEF Settled
<1>3. pc \in {"acking", "excepting"} /\ s = Current => done[s] + 1 <= cursor[s]
  BY <1>1, InHandFacts DEF InHand, Busy
<1>4. pc \notin Busy => done[s] = cursor[s]
  BY <1>1 DEF Shape, HandInv, InHand
<1> QED
  BY <1>1, <1>2, <1>3, <1>4 DEF Busy

\* Losing hold of the batch settles it, whatever was delivered meanwhile.
LEMMA LetGoSettles ==
  ASSUME Shape, Shape', pc' \notin Busy, log' = log, applied' = applied,
         \A s \in Streams : cursor[s] <= cursor'[s]
  PROVE  Delivery!Next
<1> DEFINE length == [s \in Streams |-> Len(log[s])]
<1>0. SettledBounds /\ SettledBounds'
  <2>1. (Shape => SettledBounds)'
    BY SettledFacts, PTL
  <2> QED
    BY <2>1, SettledFacts
<1>1. ASSUME NEW s \in Streams
      PROVE  Settled[s] <= Settled'[s] /\ Settled'[s] <= Len(log[s])
  <2>1. /\ Settled[s] \in Nat /\ cursor[s] \in Nat /\ Settled[s] <= cursor[s]
    BY <1>0 DEF SettledBounds
  <2>2. /\ Settled'[s] \in Nat /\ cursor'[s] \in Nat /\ Len(log[s]) \in Nat
        /\ Settled'[s] = cursor'[s] /\ cursor'[s] <= Len(log[s])
    BY <1>0 DEF SettledBounds
  <2> QED
    BY <2>1, <2>2
<1>2. \A s \in Streams : length[s] = Len(log[s])
  OBVIOUS
<1>3. UNCHANGED length
  OBVIOUS
<1> QED
  BY <1>1, <1>2, <1>3 DEF Delivery!Next, Delivery!Settle

\* The mapped variables of OrderedDelivery.
Mapped == <<[s \in Streams |-> Len(log[s])], Settled, applied>>

\* A step between phases that leave an entry unsettled changes nothing visible.
LEMMA QuietStutters ==
  ASSUME UNCHANGED <<log, done, cursor, applied>>,
         pc \in {"acking", "excepting"} <=> pc' \in {"acking", "excepting"}
  PROVE  UNCHANGED Mapped
<1>1. Current' = Current
  BY DEF Current, InHand
<1>2. Settled' = Settled
  BY <1>1 DEF Settled
<1> QED
  BY <1>2 DEF Mapped

LEMMA MessageRefines ==
  ASSUME Shape, Shape', HandleMessage
  PROVE  Delivery!Next \/ UNCHANGED Mapped
<1> DEFINE length == [s \in Streams |-> Len(log[s])]
<1>0. SettledBounds /\ SettledBounds'
  <2>1. (Shape => SettledBounds)'
    BY SettledFacts, PTL
  <2> QED
    BY <2>1, SettledFacts
<1>1. CASE Handle \/ HandleFails \/ Commit \/ CommitFails
  <2>1. /\ pc \in {"handling", "committing"} /\ pc \in Busy
        /\ UNCHANGED <<log, cursor, done>>
    BY <1>1 DEF Handle, HandleFails, Commit, CommitFails, redis, Busy
  <2>2. Current' = Current
    BY <2>1 DEF Current, InHand
  <2>3. Current \in Streams /\ Message = <<Current, done[Current] + 1>>
    BY <2>1, InHandFacts DEF Message
  <2>4. ASSUME NEW s \in Streams
        PROVE  /\ Settled[s] = done[s]
               /\ Settled'[s] = IF pc' \in {"acking", "excepting"} /\ s = Current
                                THEN done[s] + 1 ELSE done[s]
               /\ Settled[s] <= Settled'[s]
               /\ Settled'[s] <= Len(log[s])
    <3>1. Settled[s] = done[s]
      BY <2>1 DEF Settled
    <3>2. Settled'[s] = IF pc' \in {"acking", "excepting"} /\ s = Current
                        THEN done[s] + 1 ELSE done[s]
      BY <2>1, <2>2 DEF Settled
    <3>3. /\ done[s] \in Nat /\ Settled'[s] \in Nat /\ cursor[s] \in Nat
          /\ Len(log[s]) \in Nat /\ Settled'[s] <= cursor[s] /\ cursor[s] <= Len(log[s])
      BY <1>0, <2>1 DEF SettledBounds
    <3> QED
      BY <3>1, <3>2, <3>3
  <2>5. /\ \A s \in Streams : length[s] = Len(log[s])
        /\ UNCHANGED length
    BY <2>1
  <2>6. CASE applied' = applied
    BY <2>4, <2>5, <2>6 DEF Delivery!Next, Delivery!Settle
  <2>7. CASE applied' # applied
    <3>1. applied' = Append(applied, <<Current, done[Current] + 1>>)
          /\ pc' \in {"acking", "excepting"}
      BY <1>1, <2>3, <2>7 DEF Handle, HandleFails, Commit, CommitFails, Apply
    <3>2. /\ Settled[Current] = done[Current] /\ Settled'[Current] = done[Current] + 1
          /\ done[Current] \in Nat
      BY <1>0, <2>3, <2>4, <3>1 DEF SettledBounds
    <3>3. /\ Settled[Current] < Settled'[Current]
          /\ applied' = Append(applied, <<Current, Settled[Current] + 1>>)
      BY <3>1, <3>2
    <3> QED
      BY <2>3, <2>4, <2>5, <3>3 DEF Delivery!Next, Delivery!Settle
  <2> QED
    BY <2>6, <2>7
<1>2. CASE Ack
  <2>1. /\ pc \in {"acking", "excepting"} /\ pc \in Busy
        /\ pc' \notin {"acking", "excepting"}
        /\ UNCHANGED <<log, cursor, applied>>
        /\ done' = [done EXCEPT ![Current] = Position]
    BY <1>2 DEF Ack, NextMessage, Busy
  <2>2. Current \in Streams /\ Position = done[Current] + 1
    BY <2>1, InHandFacts
  <2>3. ASSUME NEW s \in Streams
        PROVE  (IF pc' \in {"acking", "excepting"} /\ s = Current'
                  THEN done'[s] + 1 ELSE done'[s])
               = (IF pc \in {"acking", "excepting"} /\ s = Current
                    THEN done[s] + 1 ELSE done[s])
    BY <2>1, <2>2 DEF Shape, TypeOK
  <2>4. Settled' = Settled
    BY <2>3 DEF Settled
  <2> QED
    BY <2>1, <2>4 DEF Mapped
<1>3. CASE AckFails
  BY <1>3, QuietStutters DEF AckFails
<1>4. CASE LastAckFails
  <2>1. /\ pc' \notin Busy /\ log' = log /\ applied' = applied
        /\ cursor' = cursor
    BY <1>4 DEF LastAckFails, Escape, Busy
  <2>2. \A s \in Streams : cursor[s] <= cursor'[s]
    BY <1>0, <2>1 DEF SettledBounds
  <2> QED
    BY <2>1, <2>2, LetGoSettles
<1> QED
  BY <1>1, <1>2, <1>3, <1>4 DEF HandleMessage

LEMMA OtherRefines ==
  ASSUME Shape, Shape', [Next]_vars, ~HandleMessage
  PROVE  Delivery!Next \/ UNCHANGED Mapped
<1>0. SettledBounds
  BY SettledFacts
<1>1. CASE \/ Connect \/ BackoffEnds \/ LeaveLoop \/ Restart \/ Stop
           \/ \E n \in 1 .. MaxEntries : RunTask(n) \/ LoseTask(n)
           \/ UNCHANGED vars
  <2>1. /\ UNCHANGED <<log, done, cursor, applied>>
        /\ pc \in {"acking", "excepting"} <=> pc' \in {"acking", "excepting"}
    BY <1>1 DEF Connect, BackoffEnds, LeaveLoop, Restart, Stop, RunTask, LoseTask, vars, redis
  <2> QED
    BY <2>1, QuietStutters
<1>2. CASE Read
  <2>1. /\ UNCHANGED <<log, done, applied>>
        /\ pc \notin {"acking", "excepting"} /\ pc' \notin {"acking", "excepting"}
    BY <1>2 DEF Read, Deliver
  <2>2. Settled' = Settled
    BY <2>1 DEF Settled
  <2> QED
    BY <2>1, <2>2 DEF Mapped
<1>3. CASE ConnectFails \/ Crash
  <2>1. /\ pc' \notin Busy /\ log' = log /\ applied' = applied /\ cursor' = cursor
    BY <1>3 DEF ConnectFails, Crash, Escape, redis, Busy
  <2>2. \A s \in Streams : cursor[s] <= cursor'[s]
    BY <1>0, <2>1 DEF SettledBounds
  <2> QED
    BY <2>1, <2>2, LetGoSettles
<1>4. CASE ReadFails
  <2>1. /\ pc' \notin Busy /\ log' = log /\ applied' = applied
    BY <1>4 DEF ReadFails, Deliver, Escape, redis, Busy
  <2>2. \A s \in Streams : cursor[s] <= cursor'[s]
    <3>1. CASE Deliver
      BY <3>1, DeliverShape
    <3>2. CASE UNCHANGED redis
      BY <1>0, <3>2 DEF SettledBounds, redis
    <3> QED
      BY <1>4, <3>1, <3>2 DEF ReadFails
  <2> QED
    BY <2>1, <2>2, LetGoSettles
<1>5. ASSUME NEW s \in Streams, NEW e \in Entries, Produce(s, e)
      PROVE  Delivery!Next
  <2>1. /\ log' = [log EXCEPT ![s] = Append(log[s], e)]
        /\ UNCHANGED <<done, cursor, pc, applied>>
    BY <1>5 DEF Produce
  <2>2. Settled' = Settled
    <3>1. Current' = Current
      BY <2>1 DEF Current, InHand
    <3> QED
      BY <2>1, <3>1 DEF Settled
  <2>3. \A t \in Streams : Len(log'[t]) >= Len(log[t])
    <3> SUFFICES ASSUME NEW t \in Streams PROVE Len(log'[t]) >= Len(log[t])
      OBVIOUS
    <3>1. log[t] \in Seq(Entries) /\ Len(log[t]) \in Nat
      BY DEF Shape, TypeOK
    <3>2. log'[t] = IF t = s THEN Append(log[t], e) ELSE log[t]
      BY <2>1 DEF Shape, TypeOK
    <3> QED
      BY <3>1, <3>2
  <2> QED
    BY <2>1, <2>2, <2>3 DEF Delivery!Next, Delivery!Produce
<1> QED
  BY <1>1, <1>2, <1>3, <1>4, <1>5 DEF Next

LEMMA StepRefines ==
  Shape /\ Shape' /\ [Next]_vars => Delivery!Next \/ UNCHANGED Mapped
BY MessageRefines, OtherRefines

LEMMA InitRefines == Init => Delivery!Init
<1> SUFFICES ASSUME Init PROVE Delivery!Init
  OBVIOUS
<1>1. [s \in Streams |-> Len(log[s])] = [s \in Streams |-> 0]
  BY DEF Init
<1>2. Settled = [s \in Streams |-> 0]
  BY DEF Init, Settled
<1> QED
  BY <1>1, <1>2 DEF Init, Delivery!Init

\* Every behaviour of the consumer, failures included, is one of OrderedDelivery.
THEOREM ConsumerImplementsDelivery == Spec => ImplementsOrderedDelivery
<1>1. Shape /\ Shape' /\ [Next]_vars
        => [Delivery!Next]_<<[s \in Streams |-> Len(log[s])], Settled, applied>>
  BY StepRefines DEF Mapped
<1> QED
  BY <1>1, InitShape, StepShape, InitRefines, PTL
  DEF Spec, ImplementsOrderedDelivery, Delivery!Spec

-----------------------------------------------------------------------------
(* The entries applied. *)

LEMMA AppliedAreIds ==
  ASSUME Shape, NEW i \in DOMAIN applied
  PROVE  applied[i][1] \in Streams /\ applied[i][2] \in 1 .. MaxEntries
<1>1. applied[i] \in Ids
  <2>1. applied \in Seq(Ids)
    BY DEF Shape, TypeOK
  <2> QED
    BY <2>1
<1> QED
  BY <1>1 DEF Ids

\* A step of OrderedDelivery applies entries beyond those applied before.
LEMMA OrderKept ==
  ASSUME Shape, Shape', AppliedSettled, AppliedInOrder,
         Delivery!Next \/ UNCHANGED Mapped
  PROVE  AppliedSettled' /\ AppliedInOrder'
<1>0. SettledBounds /\ SettledBounds'
  <2>1. (Shape => SettledBounds)'
    BY SettledFacts, PTL
  <2> QED
    BY <2>1, SettledFacts
<1>1. \A i \in DOMAIN applied : applied[i][1] \in Streams /\ applied[i][2] \in Nat
  BY AppliedAreIds, Bounds
<1>2. \A s \in Streams : Settled[s] <= Settled'[s]
  <2>1. CASE Delivery!Settle
    BY <2>1 DEF Delivery!Settle
  <2>2. CASE Delivery!Produce
    <3>1. Settled' = Settled
      BY <2>2 DEF Delivery!Produce
    <3> QED
      BY <1>0, <3>1 DEF SettledBounds
  <2>3. CASE UNCHANGED Mapped
    <3>1. Settled' = Settled
      BY <2>3 DEF Mapped
    <3> QED
      BY <1>0, <3>1 DEF SettledBounds
  <2> QED
    BY <2>1, <2>2, <2>3 DEF Delivery!Next
<1>3. CASE applied' = applied
  <2>1. AppliedSettled'
    <3> SUFFICES ASSUME NEW i \in DOMAIN applied'
                 PROVE  applied'[i][2] <= Settled'[applied'[i][1]]
      BY DEF AppliedSettled
    <3>1. /\ applied[i][2] <= Settled[applied[i][1]]
          /\ applied[i][2] \in Nat /\ applied[i][1] \in Streams
      BY <1>1, <1>3 DEF AppliedSettled
    <3> QED
      BY <1>0, <1>2, <1>3, <3>1 DEF SettledBounds
  <2> QED
    BY <1>3, <2>1 DEF AppliedInOrder
<1>4. ASSUME NEW s \in Streams, Settled[s] < Settled'[s],
             applied' = Append(applied, <<s, Settled[s] + 1>>)
      PROVE  AppliedSettled' /\ AppliedInOrder'
  <2>1. /\ applied \in Seq(Ids) /\ Len(applied) \in Nat
        /\ DOMAIN applied = 1 .. Len(applied)
    BY DEF Shape, TypeOK
  <2>2. /\ DOMAIN applied' = 1 .. Len(applied) + 1
        /\ applied'[Len(applied) + 1] = <<s, Settled[s] + 1>>
        /\ \A i \in 1 .. Len(applied) : applied'[i] = applied[i]
    BY <1>4, <2>1
  <2>3. /\ Settled[s] \in Nat /\ Settled'[s] \in Nat
    BY <1>0 DEF SettledBounds
  <2>4. ASSUME NEW i \in 1 .. Len(applied)
        PROVE  /\ applied[i][1] \in Streams /\ applied[i][2] \in Nat
               /\ applied[i][2] <= Settled[applied[i][1]]
               /\ applied[i][2] <= Settled'[applied[i][1]]
    <3>1. /\ applied[i][1] \in Streams /\ applied[i][2] \in Nat
          /\ applied[i][2] <= Settled[applied[i][1]]
      BY <1>1, <2>1 DEF AppliedSettled
    <3>2. /\ Settled[applied[i][1]] \in Nat /\ Settled'[applied[i][1]] \in Nat
          /\ Settled[applied[i][1]] <= Settled'[applied[i][1]]
      BY <1>0, <1>2, <3>1 DEF SettledBounds
    <3> QED
      BY <3>1, <3>2
  <2>5. AppliedSettled'
    <3> SUFFICES ASSUME NEW i \in 1 .. Len(applied) + 1
                 PROVE  applied'[i][2] <= Settled'[applied'[i][1]]
      BY <2>2 DEF AppliedSettled
    <3>1. CASE i \in 1 .. Len(applied)
      BY <2>2, <2>4, <3>1
    <3>2. CASE i = Len(applied) + 1
      BY <1>4, <2>2, <2>3, <3>2
    <3> QED
      BY <2>1, <3>1, <3>2
  <2>6. AppliedInOrder'
    <3> SUFFICES ASSUME NEW i \in 1 .. Len(applied) + 1, NEW j \in 1 .. Len(applied) + 1,
                        i < j, applied'[i][1] = applied'[j][1]
                 PROVE  applied'[i][2] < applied'[j][2]
      BY <2>2 DEF AppliedInOrder
    <3>1. i \in 1 .. Len(applied)
      BY <2>1
    <3>2. CASE j \in 1 .. Len(applied)
      BY <2>1, <2>2, <3>1, <3>2 DEF AppliedInOrder
    <3>3. CASE j = Len(applied) + 1
      BY <2>2, <2>3, <2>4, <3>1, <3>3
    <3> QED
      BY <2>1, <3>2, <3>3
  <2> QED
    BY <2>5, <2>6
<1>5. \/ applied' = applied
      \/ \E s \in Streams : /\ Settled[s] < Settled'[s]
                            /\ applied' = Append(applied, <<s, Settled[s] + 1>>)
  <2>1. CASE Delivery!Settle
    BY <2>1 DEF Delivery!Settle
  <2>2. CASE Delivery!Produce
    BY <2>2 DEF Delivery!Produce
  <2>3. CASE UNCHANGED Mapped
    BY <2>3 DEF Mapped
  <2> QED
    BY <2>1, <2>2, <2>3 DEF Delivery!Next
<1> QED
  BY <1>2, <1>3, <1>4, <1>5

\* Logs only grow, and a task once announced stays announced.
LEMMA Growth ==
  ASSUME Shape, [Next]_vars
  PROVE  /\ \A s \in Streams : \A n \in 1 .. Len(log[s]) : log'[s][n] = log[s][n]
         /\ \A n \in 1 .. MaxEntries : task[n] # "none" => task'[n] # "none"
<1>1. CASE UNCHANGED <<log, task>>
  BY <1>1
<1>2. CASE Handle \/ HandleFails
  <2>1. log' = log /\ (UNCHANGED task \/ Announce) /\ pc \in Busy
    BY <1>2 DEF Handle, HandleFails, redis, Busy
  <2>2. Position \in 1 .. MaxEntries
    BY <2>1, InHandFacts
  <2> QED
    BY <2>1, <2>2 DEF Announce, Shape, TypeOK
<1>3. ASSUME NEW n \in 1 .. MaxEntries, RunTask(n) \/ LoseTask(n)
      PROVE  log' = log /\ \A m \in 1 .. MaxEntries : task[m] # "none" => task'[m] # "none"
  BY <1>3 DEF RunTask, LoseTask, redis, Shape, TypeOK
<1>4. ASSUME NEW s \in Streams, NEW e \in Entries, Produce(s, e)
      PROVE  /\ task' = task
             /\ \A t \in Streams : \A n \in 1 .. Len(log[t]) : log'[t][n] = log[t][n]
  <2>1. task' = task /\ log' = [log EXCEPT ![s] = Append(log[s], e)]
    BY <1>4 DEF Produce
  <2>2. ASSUME NEW t \in Streams, NEW n \in 1 .. Len(log[t])
        PROVE  log'[t][n] = log[t][n]
    <3>1. log[t] \in Seq(Entries)
      BY DEF Shape, TypeOK
    <3>2. log'[t] = IF t = s THEN Append(log[t], e) ELSE log[t]
      BY <2>1 DEF Shape, TypeOK
    <3> QED
      BY <3>1, <3>2
  <2> QED
    BY <2>1, <2>2
<1>5. \/ UNCHANGED <<log, task>> \/ Handle \/ HandleFails
      \/ \E n \in 1 .. MaxEntries : RunTask(n) \/ LoseTask(n)
      \/ \E s \in Streams, e \in Entries : Produce(s, e)
  BY DEF Next, vars, Connect, ConnectFails, BackoffEnds, LeaveLoop, Read, ReadFails,
         HandleMessage, Commit, CommitFails, Ack, AckFails, LastAckFails, Stop, Crash,
         Restart, Escape, Deliver, redis
<1> QED
  BY <1>1, <1>2, <1>3, <1>4, <1>5

LEMMA AnnouncedKept ==
  ASSUME IInv, Shape', [Next]_vars
  PROVE  CommittingAnnounced' /\ CommittedMovesAnnounced'
<1>0. Shape
  BY DEF IInv
<1>1. ASSUME NEW s \in Streams, NEW n \in 1 .. MaxEntries,
             n <= Len(log[s]), Announced(s, n)
      PROVE  Announced(s, n)'
  <2>1. Len(log[s]) \in Nat
    BY <1>0 DEF Shape, TypeOK
  <2>2. log'[s][n] = log[s][n]
    BY <1>0, <1>1, <2>1, Growth, Bounds
  <2> QED
    BY <1>0, <1>1, <2>2, Growth DEF Announced
<1>2. CommittingAnnounced'
  <2>1. CASE Handle
    <3>1. /\ UNCHANGED <<log, done, cursor>> /\ pc \in Busy
          /\ Entry.kind = "moving" => Announce
      BY <2>1 DEF Handle, redis, Busy
    <3>2. Current' = Current /\ Position' = Position
      BY <3>1 DEF Current, InHand, Position
    <3>3. Position \in 1 .. MaxEntries
      BY <1>0, <3>1, InHandFacts
    <3>4. Announce => task'[Position] = "queued"
      BY <1>0, <3>3 DEF Announce, Shape, TypeOK
    <3>5. log'[Current][Position] = Entry
      BY <3>1 DEF Entry
    <3> QED
      BY <3>1, <3>2, <3>4, <3>5 DEF CommittingAnnounced, Announced
  <2>2. CASE pc' = "committing" /\ ~Handle
    <3>1. /\ pc = "committing" /\ UNCHANGED <<done, cursor>>
      BY <2>2 DEF Next, vars, Connect, ConnectFails, BackoffEnds, LeaveLoop, Read, ReadFails,
         HandleMessage, HandleFails, Commit, CommitFails, Ack, NextMessage, AckFails,
         LastAckFails, Stop, Crash, Restart, Escape, RunTask, LoseTask, Produce, redis
    <3>2. Current' = Current /\ Position' = Position
      BY <3>1 DEF Current, InHand, Position
    <3>3. /\ Current \in Streams /\ Position \in 1 .. MaxEntries
          /\ Position <= Len(log[Current])
      BY <1>0, <3>1, InHandFacts DEF Busy
    <3>4. Announced(Current, Position)
      BY <3>1 DEF IInv, CommittingAnnounced
    <3>5. \A s \in Streams, n \in 1 .. MaxEntries :
            n <= Len(log[s]) /\ Announced(s, n)
              => (s = "progress" /\ log'[s][n].kind = "moving" => task'[n] # "none")
      BY <1>1 DEF Announced
    <3>6. Current = "progress" /\ log'[Current][Position].kind = "moving"
            => task'[Position] # "none"
      BY <3>3, <3>4, <3>5
    <3> QED
      BY <3>2, <3>6 DEF CommittingAnnounced, Announced
  <2> QED
    BY <2>1, <2>2 DEF CommittingAnnounced
<1>4. ASSUME NEW i \in DOMAIN applied
      PROVE  applied[i][1] = "progress" /\ log'[applied[i][1]][applied[i][2]].kind = "moving"
               => task'[applied[i][2]] # "none"
  <2>1. applied[i][1] \in Streams /\ applied[i][2] \in 1 .. MaxEntries
    BY <1>0, AppliedAreIds
  <2>2. /\ SettledBounds /\ applied[i][2] <= Settled[applied[i][1]]
    BY <1>0, SettledFacts DEF IInv, AppliedSettled
  <2>3. applied[i][2] <= Len(log[applied[i][1]])
    BY <2>1, <2>2, Bounds DEF SettledBounds
  <2>4. Announced(applied[i][1], applied[i][2])
    BY DEF IInv, CommittedMovesAnnounced
  <2> QED
    BY <1>1, <2>1, <2>3, <2>4 DEF Announced
<1>3. (\A i \in DOMAIN applied' :
           applied'[i][1] = "progress" /\ log'[applied'[i][1]][applied'[i][2]].kind = "moving"
             => task'[applied'[i][2]] # "none")
        => CommittedMovesAnnounced'
  BY DEF CommittedMovesAnnounced, Announced
<1>5. CASE applied' = applied
  BY <1>2, <1>3, <1>4, <1>5
<1>6. CASE pc = "committing" /\ applied' = Append(applied, Message)
  <2>1. /\ Current \in Streams /\ Position \in 1 .. MaxEntries
        /\ Position <= Len(log[Current])
    BY <1>0, <1>6, InHandFacts DEF Busy
  <2>2. Announced(Current, Position)
    BY <1>6 DEF IInv, CommittingAnnounced
  <2>3. \A s \in Streams, n \in 1 .. MaxEntries :
          n <= Len(log[s]) /\ Announced(s, n)
            => (s = "progress" /\ log'[s][n].kind = "moving" => task'[n] # "none")
    BY <1>1 DEF Announced
  <2>4. Current = "progress" /\ log'[Current][Position].kind = "moving"
          => task'[Position] # "none"
    BY <2>1, <2>2, <2>3
  <2>5. /\ DOMAIN applied = 1 .. Len(applied) /\ Len(applied) \in Nat
        /\ DOMAIN applied' = 1 .. Len(applied) + 1
        /\ applied'[Len(applied) + 1] = <<Current, Position>>
        /\ \A i \in 1 .. Len(applied) : applied'[i] = applied[i]
    <3>1. applied \in Seq(Ids)
      BY <1>0 DEF Shape, TypeOK
    <3> QED
      BY <1>6, <3>1 DEF Message
  <2>6. ASSUME NEW i \in 1 .. Len(applied) + 1
        PROVE  applied'[i][1] = "progress" /\ log'[applied'[i][1]][applied'[i][2]].kind = "moving"
                 => task'[applied'[i][2]] # "none"
    <3>1. CASE i \in 1 .. Len(applied)
      BY <1>4, <2>5, <3>1
    <3>2. CASE i = Len(applied) + 1
      BY <2>4, <2>5, <3>2
    <3> QED
      BY <2>5, <3>1, <3>2
  <2> QED
    BY <1>2, <1>3, <2>5, <2>6
<1>7. applied' = applied \/ (pc = "committing" /\ applied' = Append(applied, Message))
  BY DEF Next, vars, Connect, ConnectFails, BackoffEnds, LeaveLoop, Read, ReadFails,
         HandleMessage, Handle, HandleFails, Commit, CommitFails, Apply, Ack, AckFails,
         LastAckFails, Stop, Crash, Restart, Escape, RunTask, LoseTask, Produce, redis
<1> QED
  BY <1>2, <1>5, <1>6, <1>7

LEMMA InitIInv == Init => IInv
<1> SUFFICES ASSUME Init PROVE IInv
  OBVIOUS
<1>1. applied = <<>> /\ pc # "committing"
  BY DEF Init
<1>2. AppliedSettled /\ AppliedInOrder /\ CommittingAnnounced /\ CommittedMovesAnnounced
  BY <1>1 DEF AppliedSettled, AppliedInOrder, CommittingAnnounced, CommittedMovesAnnounced
<1> QED
  BY <1>2, InitShape DEF IInv

LEMMA StepIInv == IInv /\ [Next]_vars => IInv'
<1> SUFFICES ASSUME IInv, [Next]_vars PROVE IInv'
  OBVIOUS
<1>1. Shape /\ Shape'
  BY StepShape DEF IInv
<1>2. AppliedSettled' /\ AppliedInOrder'
  BY <1>1, StepRefines, OrderKept DEF IInv
<1>3. CommittingAnnounced' /\ CommittedMovesAnnounced'
  BY <1>1, AnnouncedKept
<1> QED
  BY <1>1, <1>2, <1>3 DEF IInv

\* _process_message and start() together commit the entries of a stream in
\* order and none of them twice.
THEOREM EntriesAppliedInOrder == Spec => []AppliedInOrder
<1>1. IInv => AppliedInOrder
  BY DEF IInv
<1> QED
  BY <1>1, InitIInv, StepIInv, PTL DEF Spec

\* EventProcessor.process calls delay before the consumer commits: no crash can
\* leave a committed transition without a task.
THEOREM CommittedTransitionsAnnounced == Spec => []CommittedMovesAnnounced
<1>1. IInv => CommittedMovesAnnounced
  BY DEF IInv
<1> QED
  BY <1>1, InitIInv, StepIInv, PTL DEF Spec

=============================================================================
