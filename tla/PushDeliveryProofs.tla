------------------------- MODULE PushDeliveryProofs -------------------------
(***************************************************************************)
(* Proofs about PushDelivery, for any rows, runs, limits and hours.        *)
(*                                                                         *)
(* TypeCorrect stands alone.  The other properties rest on Inv, which says *)
(* of every run that what it holds or has decided is a live row, decided   *)
(* by the hour stamped on it, and recorded as sent only if pushed; and the *)
(* same of the table.  For runs that never overlap, HeldIsPending adds     *)
(* that what a run holds or has decided is still pending in the table, and *)
(* HeldIsUndecided that a run posts a row before it decides on it, once.   *)
(*                                                                         *)
(* Delivery implements NotificationRecord, with and without overlap: only  *)
(* pushes and commits are steps of it.  A commit may carry decisions that  *)
(* another run has overtaken, but since every run decides by the hour on   *)
(* the row, they are still outcomes of the row (DecisionIsOutcome).        *)
(***************************************************************************)
EXTENDS PushHistory, TLAPS

Held(r) == run[r].left \cup run[r].current

Touched(r) ==
  Held(r) \cup {n \in Notifications : run[r].decided[n] # "pending"}

\* A status that agrees with the hour stamped on the row.
Fits(status, n) ==
  status # "pending" =>
    (status = "skipped_dnd" <=> IsDndActive(row[n].scheduled_for))

RunSound(r) ==
  /\ \A n \in Touched(r) : row[n].mode = "live" /\ row[n].scheduled_for <= now
  /\ \A n \in run[r].current : ~IsDndActive(row[n].scheduled_for)
  /\ \A n \in Notifications :
       /\ Fits(run[r].decided[n], n)
       /\ run[r].decided[n] = "sent" => pushes[n] > 0

RunsSound == \A r \in Runs : RunSound(r)

TableSound ==
  \A n \in Notifications :
    /\ Fits(Status(n), n)
    /\ Settled(n) => row[n].mode = "live"

\* A row is recorded as sent only if CleverTap has accepted a push of it,
\* whichever of several runs wrote the status and whatever else was broken off.
SentMeansPushed ==
  \A n \in Notifications : Status(n) = "sent" => pushes[n] > 0

Inv ==
  /\ TypeOK
  /\ RunsSound
  /\ TableSound
  /\ SentMeansPushed
  /\ PushedOnlyWhenAllowed

-----------------------------------------------------------------------------

LEMMA TypeInit == Init => TypeOK
BY Bounds DEF Init, TypeOK, Rows, OpenRuns, NoRow, Idle, Statuses, Hours

LEMMA IdleIsARun == Idle \in OpenRuns
BY Bounds DEF Idle, OpenRuns, Statuses

\* The steps of a run keep its type; one field at a time.
LEMMA RunTypes ==
  ASSUME NEW R \in OpenRuns, NEW n \in Notifications
  PROVE  /\ \A status \in Statuses : [R EXCEPT !.decided[n] = status] \in OpenRuns
         /\ [R EXCEPT !.left = @ \ {n}] \in OpenRuns
         /\ \A c \in SUBSET Notifications : [R EXCEPT !.current = c] \in OpenRuns
         /\ \A a \in 0 .. MaxAttempts : [R EXCEPT !.attempt = a] \in OpenRuns
<1>1. ASSUME NEW status \in Statuses
      PROVE  [R EXCEPT !.decided[n] = status] \in OpenRuns
  <2> DEFINE d == [R.decided EXCEPT ![n] = status]
  <2>1. d \in [Notifications -> Statuses]
    BY DEF OpenRuns
  <2> HIDE DEF d
  <2>2. [R EXCEPT !.decided = d] \in OpenRuns
    BY <2>1 DEF OpenRuns
  <2> QED BY <2>2 DEF d
<1>2. [R EXCEPT !.left = @ \ {n}] \in OpenRuns
  BY DEF OpenRuns
<1>3. ASSUME NEW c \in SUBSET Notifications
      PROVE  [R EXCEPT !.current = c] \in OpenRuns
  BY DEF OpenRuns
<1>4. ASSUME NEW a \in 0 .. MaxAttempts
      PROVE  [R EXCEPT !.attempt = a] \in OpenRuns
  BY DEF OpenRuns
<1> QED BY <1>1, <1>2, <1>3, <1>4

LEMMA RunSteps ==
  ASSUME NEW R \in OpenRuns, NEW n \in Notifications, NEW status \in Statuses
  PROVE  /\ [R EXCEPT !.left = @ \ {n}, !.decided[n] = status] \in OpenRuns
         /\ [R EXCEPT !.left = @ \ {n}, !.current = {n}, !.attempt = 1] \in OpenRuns
         /\ [R EXCEPT !.current = {}, !.attempt = 0, !.decided[n] = status] \in OpenRuns
<1> DEFINE L == [R EXCEPT !.left = @ \ {n}]
           C == [R EXCEPT !.current = {}]
<1>1. L \in OpenRuns /\ C \in OpenRuns
  BY RunTypes
<1> HIDE DEF L, C
<1> DEFINE LC == [L EXCEPT !.current = {n}]
           CA == [C EXCEPT !.attempt = 0]
           LD == [L EXCEPT !.decided[n] = status]
<1>2. 0 \in 0 .. MaxAttempts /\ 1 \in 0 .. MaxAttempts
  BY Bounds
<1>3. LC \in OpenRuns
  BY <1>1, RunTypes
<1>4. CA \in OpenRuns
  BY <1>1, <1>2, RunTypes
<1>5. LD \in OpenRuns
  BY <1>1, RunTypes
<1> HIDE DEF LC, CA
<1>6. [LC EXCEPT !.attempt = 1] \in OpenRuns
  BY <1>2, <1>3, RunTypes
<1>7. [CA EXCEPT !.decided[n] = status] \in OpenRuns
  BY <1>4, RunTypes
<1> QED BY <1>5, <1>6, <1>7 DEF L, C, LC, CA

LEMMA TypeNext == TypeOK /\ [Next]_vars => TypeOK'
<1> SUFFICES ASSUME TypeOK, [Next]_vars PROVE TypeOK'
  OBVIOUS
<1> USE DEF TypeOK
<1>1. CASE HourPasses
  BY <1>1, Bounds DEF HourPasses, Hours
<1>2. ASSUME NEW n \in Notifications, NEW mode \in {"live", "shadow"},
             NEW t \in Hours, Generate(n, mode, t)
      PROVE TypeOK'
  BY <1>2 DEF Generate, Rows, Statuses
<1>3. ASSUME NEW r \in Runs, Fetch(r)
      PROVE TypeOK'
  <2>1. PICK b \in SUBSET Notifications :
          run' = [run EXCEPT ![r] = [Idle EXCEPT !.open = TRUE, !.left = b]]
    BY <1>3 DEF Fetch, Batches, Due
  <2>2. [Idle EXCEPT !.open = TRUE, !.left = b] \in OpenRuns
    BY IdleIsARun DEF OpenRuns
  <2> QED BY <2>1, <2>2, <1>3 DEF Fetch
<1>4. ASSUME NEW r \in Runs, Commit(r)
      PROVE TypeOK'
  <2>1. run[r].decided \in [Notifications -> Statuses]
    BY DEF OpenRuns
  <2>2. row' \in [Notifications -> Rows]
    BY <2>1, <1>4 DEF Commit, Rows
  <2> QED BY <2>2, <1>4, IdleIsARun DEF Commit
<1>5. ASSUME NEW r \in Runs, Break(r)
      PROVE TypeOK'
  <2>1. run[r].current \subseteq Notifications
    BY DEF OpenRuns
  <2>2. pushes' \in [Notifications -> 0 .. 2]
    BY <2>1, <1>5 DEF Break, Pushed
  <2> QED BY <2>2, <1>5, IdleIsARun DEF Break
<1>6. ASSUME NEW r \in Runs, NEW n \in Notifications, Decide(r, n)
      PROVE TypeOK'
  <2> DEFINE R == run[r]
  <2>1. R \in OpenRuns
    OBVIOUS
  <2>2. ASSUME NEW status \in Statuses
        PROVE  Decided(r, n, status) \in [Runs -> OpenRuns]
    BY <2>1, RunSteps DEF Decided
  <2>3. Pushed(n) \in [Notifications -> 0 .. 2]
    BY DEF Pushed
  <2>4. CASE Skip(r, n)
    BY <2>1, <2>4, RunSteps DEF Skip, Statuses
  <2>5. CASE BeginSend(r, n)
    BY <2>1, <2>5, RunSteps DEF BeginSend, Statuses
  <2>6. CASE Accepted(r, n)
    BY <2>6, <2>2, <2>3 DEF Accepted, Statuses
  <2>7. CASE Rejected(r, n)
    BY <2>7, <2>2 DEF Rejected, Statuses
  <2>8. CASE Retry(r, n)
    <3>1. R.attempt < MaxAttempts => [R EXCEPT !.attempt = @ + 1] \in OpenRuns
      BY <2>1, Bounds DEF OpenRuns
    <3>2. pushes' \in [Notifications -> 0 .. 2]
      BY <2>8, <2>3 DEF Retry
    <3> QED BY <3>1, <3>2, <2>8, <2>2 DEF Retry, Statuses
  <2> QED BY <1>6, <2>4, <2>5, <2>6, <2>7, <2>8 DEF Decide, Post
<1>7. CASE UNCHANGED vars
  BY <1>7 DEF vars
<1> QED BY <1>1, <1>2, <1>3, <1>4, <1>5, <1>6, <1>7 DEF Next

\* Every variable keeps its type in every behaviour, for all constants that
\* satisfy Bounds: tables, counters and runs of the delivery worker.
THEOREM TypeCorrect == Spec => []TypeOK
BY TypeInit, TypeNext, PTL DEF Spec

-----------------------------------------------------------------------------

LEMMA InvInit == Init => Inv
<1> SUFFICES ASSUME Init PROVE Inv
  OBVIOUS
<1>1. TypeOK
  BY TypeInit
<1>2. RunsSound
  BY DEF Init, RunsSound, RunSound, Touched, Held, Idle, Fits
<1>3. TableSound /\ SentMeansPushed /\ PushedOnlyWhenAllowed
  BY DEF Init, NoRow, TableSound, Fits, Settled, Status, SentMeansPushed,
         PushedOnlyWhenAllowed
<1> QED BY <1>1, <1>2, <1>3 DEF Inv

\* A run that is not moved stays sound while its rows keep their mode and hour
\* and no push is taken back.
LEMMA OthersStaySound ==
  ASSUME NEW r \in Runs, TypeOK, RunSound(r), run'[r] = run[r], now' = now,
         \A n \in Notifications : pushes'[n] >= pushes[n],
         pushes' \in [Notifications -> 0 .. 2],
         \A n \in Touched(r) :
           /\ row'[n].mode = row[n].mode
           /\ row'[n].scheduled_for = row[n].scheduled_for
  PROVE  RunSound(r)'
<1>1. Touched(r)' = Touched(r)
  BY DEF Touched, Held
<1>2. ASSUME NEW n \in Notifications
      PROVE  /\ Fits(run[r].decided[n], n)'
             /\ run'[r].decided[n] = "sent" => pushes'[n] > 0
  <2>1. CASE run[r].decided[n] = "pending"
    BY <2>1 DEF Fits
  <2>2. CASE n \in Touched(r)
    BY <2>2 DEF RunSound, Fits, IsDndActive, TypeOK
  <2> QED BY <2>1, <2>2 DEF Touched
<1>3. \A n \in run'[r].current : ~IsDndActive(row'[n].scheduled_for)
  BY DEF RunSound, IsDndActive, Touched, Held
<1> QED BY <1>1, <1>2, <1>3 DEF RunSound, Fits

\* A step of one run in memory, with or without a push.
LEMMA MemoryStep ==
  ASSUME Inv, TypeOK', NEW r \in Runs, row' = row, now' = now, RunSound(r)',
         \A q \in Runs \ {r} : run'[q] = run[q],
         \A n \in Notifications :
           \/ pushes'[n] = pushes[n]
           \/ /\ pushes'[n] >= pushes[n]
              /\ row[n].mode = "live"
              /\ ~IsDndActive(row[n].scheduled_for)
              /\ row[n].scheduled_for <= now
  PROVE  Inv'
<1>1. \A n \in Notifications : pushes'[n] >= pushes[n]
  BY DEF Inv, TypeOK
<1>2. RunsSound'
  <2>1. ASSUME NEW q \in Runs, q # r
        PROVE  RunSound(q)'
    BY <2>1, <1>1, OthersStaySound DEF Inv, RunsSound, TypeOK
  <2> QED BY <2>1 DEF RunsSound
<1>3. TableSound'
  BY DEF Inv, TableSound, Fits, Settled, Status, IsDndActive
<1>4. SentMeansPushed'
  BY <1>1 DEF Inv, SentMeansPushed, Status, TypeOK
<1>5. PushedOnlyWhenAllowed'
  BY DEF Inv, PushedOnlyWhenAllowed, IsDndActive
<1> QED BY <1>2, <1>3, <1>4, <1>5 DEF Inv

\* A push of the row a run is posting.
LEMMA PushIsAllowed ==
  ASSUME Inv, NEW r \in Runs, NEW n \in Notifications, n \in run[r].current
  PROVE  /\ row[n].mode = "live"
         /\ ~IsDndActive(row[n].scheduled_for)
         /\ row[n].scheduled_for <= now
         /\ Pushed(n)[n] > 0
         /\ \A k \in Notifications : Pushed(n)[k] >= pushes[k]
         /\ \A k \in Notifications \ {n} : Pushed(n)[k] = pushes[k]
BY DEF Inv, RunsSound, RunSound, Touched, Held, Pushed, TypeOK

\* A run goes back to idle and the table is left alone.
LEMMA IdleIsSound ==
  ASSUME NEW r \in Runs, run'[r] = Idle
  PROVE  RunSound(r)'
BY DEF RunSound, Touched, Held, Idle, Fits

LEMMA DecideInv ==
  ASSUME Inv, TypeOK', NEW r \in Runs, NEW n \in Notifications, Decide(r, n)
  PROVE  Inv'
<1> USE DEF Inv
<1>1. TypeOK /\ run[r] \in OpenRuns
  BY DEF TypeOK
<1>2. RunSound(r)
  BY DEF RunsSound
<1>3. CASE Skip(r, n)
  <2>1. /\ run'[r].left = run[r].left \ {n}
        /\ run'[r].current = run[r].current
        /\ run'[r].decided = [run[r].decided EXCEPT ![n] = "skipped_dnd"]
        /\ \A q \in Runs \ {r} : run'[q] = run[q]
        /\ n \in run[r].left
    BY <1>3, <1>1 DEF Skip, IsNext, TypeOK, OpenRuns
  <2>2. ASSUME NEW k \in Notifications
        PROVE  /\ Fits(run[r].decided[k], k)'
               /\ run'[r].decided[k] = "sent" => pushes'[k] > 0
    <3>1. CASE k = n
      BY <3>1, <2>1, <1>3, <1>1 DEF Skip, Fits, OpenRuns, IsDndActive
    <3>2. CASE k # n
      BY <3>2, <2>1, <1>3, <1>1, <1>2 DEF Skip, RunSound, Fits, OpenRuns, IsDndActive
    <3> QED BY <3>1, <3>2
  <2>3. \A k \in Touched(r)' : row'[k].mode = "live" /\ row'[k].scheduled_for <= now'
    BY <2>1, <1>3, <1>2, <1>1 DEF Skip, RunSound, Touched, Held, OpenRuns
  <2>4. \A k \in run'[r].current : ~IsDndActive(row'[k].scheduled_for)
    BY <2>1, <1>3, <1>2 DEF Skip, RunSound, IsDndActive
  <2>5. RunSound(r)'
    BY <2>2, <2>3, <2>4 DEF RunSound, Fits, IsDndActive
  <2> QED BY <2>1, <2>5, <1>3, MemoryStep DEF Skip
<1>4. CASE BeginSend(r, n)
  <2>1. /\ run'[r].left = run[r].left \ {n}
        /\ run'[r].current = {n}
        /\ run'[r].decided = run[r].decided
        /\ \A q \in Runs \ {r} : run'[q] = run[q]
        /\ n \in run[r].left
    BY <1>4, <1>1 DEF BeginSend, IsNext, TypeOK, OpenRuns
  <2>2. RunSound(r)'
    BY <1>4, <2>1, <1>2 DEF BeginSend, RunSound, Touched, Held, Fits, IsDndActive
  <2> QED BY <2>1, <2>2, <1>4, MemoryStep DEF BeginSend
<1>5. ASSUME NEW status \in {"sent", "failed"}, Posting(r, n), row' = row, now' = now,
             run' = Decided(r, n, status), pushes' \in {pushes, Pushed(n)},
             status = "sent" => pushes' = Pushed(n)
      PROVE  Inv'
  <2>1. /\ run'[r].left = run[r].left
        /\ run'[r].current = {}
        /\ run'[r].decided = [run[r].decided EXCEPT ![n] = status]
        /\ \A q \in Runs \ {r} : run'[q] = run[q]
        /\ n \in run[r].current
    BY <1>5, <1>1 DEF Decided, Posting, TypeOK, OpenRuns
  <2>2. /\ row[n].mode = "live"
        /\ ~IsDndActive(row[n].scheduled_for)
        /\ row[n].scheduled_for <= now
        /\ Pushed(n)[n] > 0
        /\ \A k \in Notifications : Pushed(n)[k] >= pushes[k]
        /\ \A k \in Notifications \ {n} : Pushed(n)[k] = pushes[k]
    BY <2>1, PushIsAllowed
  <2>3. \A k \in Notifications : pushes'[k] >= pushes[k]
    BY <2>2, <1>5 DEF TypeOK
  <2>4. ASSUME NEW k \in Notifications
        PROVE  /\ Fits(run[r].decided[k], k)'
               /\ run'[r].decided[k] = "sent" => pushes'[k] > 0
    <3>1. CASE k = n
      <4>1. run'[r].decided[k] = status
        BY <3>1, <2>1, <1>1 DEF OpenRuns
      <4> QED BY <4>1, <3>1, <2>2, <1>5 DEF Fits
    <3>2. CASE k # n
      <4>1. run'[r].decided[k] = run[r].decided[k]
        BY <3>2, <2>1, <1>1 DEF OpenRuns
      <4>2. Fits(run[r].decided[k], k) /\ (run[r].decided[k] = "sent" => pushes[k] > 0)
        BY <1>2 DEF RunSound
      <4>3. pushes'[k] >= pushes[k] /\ pushes[k] \in Nat /\ pushes'[k] \in Nat
        BY <2>3, <2>2, <1>5 DEF TypeOK
      <4> QED BY <4>1, <4>2, <4>3, <1>5 DEF Fits
    <3> QED BY <3>1, <3>2
  <2>5. \A k \in Touched(r)' : row'[k].mode = "live" /\ row'[k].scheduled_for <= now'
    BY <2>1, <1>5, <1>2, <1>1 DEF RunSound, Touched, Held, OpenRuns
  <2>6. RunSound(r)'
    BY <2>1, <2>4, <2>5 DEF RunSound, Fits
  <2>7. \A k \in Notifications :
          \/ pushes'[k] = pushes[k]
          \/ /\ pushes'[k] >= pushes[k]
             /\ row[k].mode = "live"
             /\ ~IsDndActive(row[k].scheduled_for)
             /\ row[k].scheduled_for <= now
    <3>1. ASSUME NEW k \in Notifications, k # n PROVE pushes'[k] = pushes[k]
      BY <3>1, <2>2, <1>5
    <3>2. n \in Notifications /\ pushes'[n] >= pushes[n]
      BY <2>3
    <3> QED BY <2>2, <3>1, <3>2 DEF IsDndActive
  <2> QED BY <2>1, <2>6, <2>7, <1>5, MemoryStep
<1>6. CASE Accepted(r, n)
  BY <1>6, <1>5 DEF Accepted
<1>7. CASE Rejected(r, n)
  BY <1>7, <1>5 DEF Rejected
<1>8. CASE Retry(r, n)
  <2>1. CASE run[r].attempt < MaxAttempts
    <3>1. /\ run'[r].left = run[r].left
          /\ run'[r].current = run[r].current
          /\ run'[r].decided = run[r].decided
          /\ \A q \in Runs \ {r} : run'[q] = run[q]
          /\ n \in run[r].current
      BY <1>8, <2>1, <1>1 DEF Retry, Posting, TypeOK, OpenRuns
    <3>2. \A k \in Notifications :
            \/ pushes'[k] = pushes[k]
            \/ /\ pushes'[k] >= pushes[k]
               /\ row[k].mode = "live"
               /\ ~IsDndActive(row[k].scheduled_for)
               /\ row[k].scheduled_for <= now
      BY <3>1, <1>8, PushIsAllowed DEF Retry
    <3>3. \A k \in Notifications : pushes'[k] >= pushes[k]
      BY <3>2, <1>1 DEF TypeOK
    <3>4. RunSound(r)'
      BY <3>1, <3>3, <1>8, <1>1, <1>2 DEF Retry, RunSound, Touched, Held, Fits, IsDndActive, TypeOK
    <3> QED BY <3>1, <3>2, <3>4, <1>8, MemoryStep DEF Retry
  <2>2. CASE ~(run[r].attempt < MaxAttempts)
    BY <2>2, <1>8, <1>5 DEF Retry
  <2> QED BY <2>1, <2>2
<1> QED BY <1>3, <1>4, <1>6, <1>7, <1>8 DEF Decide, Post

LEMMA GenerateInv ==
  ASSUME Inv, TypeOK', NEW n \in Notifications, NEW mode \in {"live", "shadow"},
         NEW t \in Hours, Generate(n, mode, t)
  PROVE  Inv'
<1> USE DEF Inv, Generate
<1>1. /\ row[n].mode = "none"
      /\ row'[n].status = "pending"
      /\ \A k \in Notifications \ {n} : row'[k] = row[k]
  BY DEF TypeOK, Exists
<1>2. ASSUME NEW r \in Runs
      PROVE  RunSound(r)'
  <2>1. n \notin Touched(r) /\ RunSound(r)
    BY <1>1 DEF RunsSound, RunSound
  <2>2. \A k \in Touched(r) : row'[k] = row[k]
    BY <1>1, <2>1 DEF Touched, Held, TypeOK, OpenRuns
  <2> QED BY <2>1, <2>2, OthersStaySound DEF TypeOK
<1>3. TableSound'
  BY <1>1 DEF TableSound, Fits, Settled, Status, IsDndActive
<1>4. SentMeansPushed'
  BY <1>1 DEF SentMeansPushed, Status
<1>5. PushedOnlyWhenAllowed'
  BY <1>1 DEF PushedOnlyWhenAllowed, IsDndActive
<1> QED BY <1>2, <1>3, <1>4, <1>5 DEF RunsSound

LEMMA FetchInv ==
  ASSUME Inv, TypeOK', NEW r \in Runs, Fetch(r)
  PROVE  Inv'
<1> USE DEF Inv
<1>1. PICK b \in SUBSET Due :
        run' = [run EXCEPT ![r] = [Idle EXCEPT !.open = TRUE, !.left = b]]
  BY DEF Fetch, Batches
<1>2. /\ run'[r].left = b
      /\ run'[r].current = {}
      /\ run'[r].decided = [n \in Notifications |-> "pending"]
      /\ \A q \in Runs \ {r} : run'[q] = run[q]
  BY <1>1 DEF TypeOK, Idle
<1>3. \A n \in b : row[n].mode = "live" /\ row[n].scheduled_for <= now
  BY DEF Due
<1>4. RunSound(r)'
  BY <1>2, <1>3 DEF RunSound, Touched, Held, Fits, Fetch
<1> QED BY <1>2, <1>4, MemoryStep DEF Fetch

LEMMA BreakInv ==
  ASSUME Inv, TypeOK', NEW r \in Runs, Break(r)
  PROVE  Inv'
<1>1. run'[r] = Idle /\ \A q \in Runs \ {r} : run'[q] = run[q]
  BY DEF Inv, TypeOK, Break
<1>2. RunSound(r)'
  BY <1>1, IdleIsSound
<1>3. run[r].current \subseteq Notifications
  BY DEF Inv, TypeOK, OpenRuns
<1>4. ASSUME NEW n \in Notifications
      PROVE  \/ pushes'[n] = pushes[n]
             \/ /\ pushes'[n] >= pushes[n]
                /\ row[n].mode = "live"
                /\ ~IsDndActive(row[n].scheduled_for)
                /\ row[n].scheduled_for <= now
  BY <1>3, PushIsAllowed DEF Break
<1> QED BY <1>1, <1>2, <1>4, MemoryStep DEF Break

\* What a commit does to a row.
LEMMA CommitEffect ==
  ASSUME Inv, NEW r \in Runs, Commit(r), NEW n \in Notifications
  PROVE  /\ row'[n].mode = row[n].mode
         /\ row'[n].scheduled_for = row[n].scheduled_for
         /\ \/ row'[n] = row[n]
            \/ /\ row'[n].status = run[r].decided[n]
               /\ run[r].decided[n] # "pending"
               /\ row' [n] = [row[n] EXCEPT !.status = run[r].decided[n]]
               /\ n \in Touched(r)
BY DEF Inv, TypeOK, Rows, Commit, Touched

LEMMA CommitInv ==
  ASSUME Inv, TypeOK', NEW r \in Runs, Commit(r)
  PROVE  Inv'
<1> USE DEF Inv
<1>1. /\ run'[r] = Idle /\ \A q \in Runs \ {r} : run'[q] = run[q]
      /\ pushes' = pushes /\ now' = now
  BY DEF Commit, TypeOK
<1>2. ASSUME NEW q \in Runs
      PROVE  RunSound(q)'
  <2>1. CASE q = r
    BY <2>1, <1>1, IdleIsSound
  <2>2. CASE q # r
    <3>1. Touched(q) \subseteq Notifications
      BY DEF Touched, Held, TypeOK, OpenRuns
    <3>2. \A n \in Notifications : pushes'[n] >= pushes[n]
      BY <1>1 DEF TypeOK
    <3> QED BY <2>2, <3>1, <3>2, <1>1, CommitEffect, OthersStaySound DEF RunsSound, TypeOK
  <2> QED BY <2>1, <2>2
<1>3. RunSound(r)
  BY DEF RunsSound
<1>4. ASSUME NEW n \in Notifications
      PROVE  Fits(Status(n), n)' /\ (Settled(n)' => row'[n].mode = "live")
  <2>1. CASE row'[n] = row[n]
    BY <2>1 DEF TableSound, Fits, Settled, Status, IsDndActive
  <2>2. CASE row'[n].status = run[r].decided[n] /\ n \in Touched(r)
    <3>1. Fits(run[r].decided[n], n) /\ row[n].mode = "live"
      BY <2>2, <1>3 DEF RunSound
    <3>2. row'[n].scheduled_for = row[n].scheduled_for /\ row'[n].mode = row[n].mode
      BY CommitEffect
    <3> QED BY <2>2, <3>1, <3>2 DEF Fits, Settled, Status, IsDndActive
  <2> QED BY <2>1, <2>2, CommitEffect
<1>5. SentMeansPushed'
  BY <1>1, <1>3, CommitEffect DEF SentMeansPushed, Status, RunSound
<1>6. PushedOnlyWhenAllowed'
  BY <1>1, CommitEffect DEF PushedOnlyWhenAllowed, IsDndActive
<1> QED BY <1>2, <1>4, <1>5, <1>6 DEF RunsSound, TableSound

LEMMA InvNext == Inv /\ [Next]_vars => Inv'
<1> SUFFICES ASSUME Inv, [Next]_vars PROVE Inv'
  OBVIOUS
<1>1. TypeOK'
  BY TypeNext DEF Inv
<1>2. ASSUME run' = run, row' = row, pushes' = pushes, now' \in Hours, now' >= now
      PROVE  Inv'
  <2>1. \A n \in Notifications : row[n].scheduled_for <= now => row[n].scheduled_for <= now'
    BY <1>2, Bounds DEF Inv, TypeOK, Rows, Hours
  <2>2. RunsSound'
    <3>1. \A r \in Runs : Touched(r)' = Touched(r) /\ Touched(r) \subseteq Notifications
      BY <1>2 DEF Inv, TypeOK, OpenRuns, Touched, Held
    <3> QED BY <2>1, <3>1, <1>2 DEF Inv, RunsSound, RunSound, Fits, IsDndActive
  <2>3. PushedOnlyWhenAllowed'
    BY <2>1, <1>2 DEF Inv, PushedOnlyWhenAllowed, IsDndActive
  <2> QED BY <2>2, <2>3, <1>1, <1>2 DEF Inv, Fits, IsDndActive, TableSound, Settled, Status,
       SentMeansPushed
<1>3. CASE HourPasses
  <2>1. now' \in Hours /\ now' >= now
    BY <1>3, <1>1, Bounds DEF HourPasses, Inv, TypeOK, Hours
  <2> QED BY <1>2, <1>3, <2>1 DEF HourPasses
<1>4. CASE UNCHANGED vars
  BY <1>2, <1>4, Bounds DEF vars, Inv, TypeOK, Hours
<1> QED BY <1>1, <1>3, <1>4, GenerateInv, FetchInv, CommitInv, BreakInv, DecideInv DEF Next

LEMMA Invariance == Spec => []Inv
BY InvInit, InvNext, PTL DEF Spec

\* A row recorded as sent has been accepted by CleverTap: no overlap, retry or
\* broken batch of process_pending_notifications can make it otherwise.
THEOREM SentRowsWerePushed == Spec => []SentMeansPushed
BY Invariance, PTL DEF Inv

\* Shadow rows and rows stamped with a night hour are never pushed.
THEOREM PushesAreAllowed == Spec => []PushedOnlyWhenAllowed
BY Invariance, PTL DEF Inv

-----------------------------------------------------------------------------

\* How a step can change a row: it is inserted, or a run commits its decision.
LEMMA RowChanges ==
  ASSUME Inv, Next, NEW n \in Notifications, row'[n] # row[n]
  PROVE  \/ row[n].mode = "none"
         \/ \E r \in Runs :
              /\ Commit(r)
              /\ run[r].decided[n] # "pending"
              /\ row'[n] = [row[n] EXCEPT !.status = run[r].decided[n]]
<1>1. CASE \E k \in Notifications, mode \in {"live", "shadow"}, t \in Hours :
             Generate(k, mode, t)
  BY <1>1 DEF Generate, Exists, Inv, TypeOK
<1>2. CASE \E r \in Runs : Commit(r)
  BY <1>2, CommitEffect
<1>3. CASE row' = row
  BY <1>3
<1>4. HourPasses \/ (\E r \in Runs : Fetch(r) \/ Break(r)) => row' = row
  BY DEF HourPasses, Fetch, Break
<1>5. (\E r \in Runs, k \in Notifications : Decide(r, k)) => row' = row
  BY DEF Decide, Skip, BeginSend, Post, Accepted, Rejected, Retry
<1> QED BY <1>1, <1>2, <1>3, <1>4, <1>5 DEF Next

LEMMA SettledStep ==
  ASSUME Inv, Next, NEW n \in Notifications, Settled(n)
  PROVE  \/ row'[n] = row[n]
         \/ {Status(n), row'[n].status} = {"sent", "failed"}
<1> SUFFICES ASSUME row'[n] # row[n]
             PROVE  {Status(n), row'[n].status} = {"sent", "failed"}
  OBVIOUS
<1>1. row[n] \in Rows /\ row[n].mode = "live" /\ Fits(Status(n), n)
  BY DEF Inv, TypeOK, TableSound
<1>2. PICK r \in Runs :
        /\ Commit(r)
        /\ run[r].decided[n] # "pending"
        /\ row'[n] = [row[n] EXCEPT !.status = run[r].decided[n]]
  BY <1>1, RowChanges
<1> DEFINE d == run[r].decided[n]
<1>3. d \in Statuses /\ Fits(d, n)
  BY DEF Inv, TypeOK, OpenRuns, RunsSound, RunSound
<1>4. Status(n) = "skipped_dnd" <=> d = "skipped_dnd"
  BY <1>1, <1>2, <1>3 DEF Fits, Settled
<1>5. row'[n].status = d
  BY <1>1, <1>2 DEF Rows
<1>6. d # Status(n)
  BY <1>1, <1>2 DEF Rows, Status
<1>7. Status(n) \in Statuses \ {"pending"} /\ d \in Statuses \ {"pending"}
  BY <1>1, <1>2, <1>3 DEF Settled, Status, Rows
<1> HIDE DEF d
<1> QED BY <1>4, <1>5, <1>6, <1>7 DEF Statuses

\* A settled row is not taken up again; overlapping runs can only disagree
\* whether it was sent or failed.
THEOREM SettlingIsFinalUpToOverlap == Spec => SettledStaysSettled
<1>1. Inv /\ [Next]_vars =>
        [\A n \in Notifications : Settled(n) =>
           \/ row'[n] = row[n]
           \/ {Status(n), row'[n].status} = {"sent", "failed"}]_vars
  BY SettledStep
<1> QED BY <1>1, Invariance, PTL DEF Spec, SettledStaysSettled

-----------------------------------------------------------------------------

\* With runs that do not overlap, what a run holds or has decided is pending.
HeldIsPending ==
  \A r \in Runs : \A n \in Touched(r) : Status(n) = "pending"

Alone == \A r, q \in Runs : r = q

LEMMA AloneNext == Alone /\ Inv /\ HeldIsPending /\ [Next]_vars => HeldIsPending'
<1> SUFFICES ASSUME Alone, Inv, HeldIsPending, [Next]_vars,
                    NEW r \in Runs, NEW n \in Touched(r)'
             PROVE  row'[n].status = "pending"
  BY DEF HeldIsPending, Status
<1>1. n \in Notifications /\ run \in [Runs -> OpenRuns] /\ Inv'
  BY InvNext DEF Inv, TypeOK, Touched, Held, OpenRuns
<1>2. CASE UNCHANGED vars
  BY <1>2 DEF vars, HeldIsPending, Touched, Held, Status
<1>3. CASE HourPasses
  BY <1>3 DEF HourPasses, HeldIsPending, Touched, Held, Status
<1>4. ASSUME NEW k \in Notifications, NEW mode \in {"live", "shadow"},
             NEW t \in Hours, Generate(k, mode, t)
      PROVE  row'[n].status = "pending"
  BY <1>4, <1>1 DEF Generate, HeldIsPending, Touched, Held, Status, Inv, TypeOK
<1>5. ASSUME NEW q \in Runs, Fetch(q)
      PROVE  row'[n].status = "pending"
  <2>1. PICK b \in SUBSET Due :
          run' = [run EXCEPT ![q] = [Idle EXCEPT !.open = TRUE, !.left = b]]
    BY <1>5 DEF Fetch, Batches
  <2>2. n \in b
    BY <2>1, <1>1 DEF Alone, Touched, Held, Idle
  <2> QED BY <2>2, <1>5 DEF Due, Fetch
<1>6. ASSUME NEW q \in Runs, Commit(q) \/ Break(q)
      PROVE  FALSE
  <2>1. run'[r] = Idle
    BY <1>6, <1>1 DEF Alone, Commit, Break
  <2> QED BY <2>1, <1>1 DEF Touched, Held, Idle
<1>7. ASSUME NEW q \in Runs, NEW k \in Notifications, Decide(q, k)
      PROVE  row'[n].status = "pending"
  <2>1. row' = row /\ q = r /\ k \in Held(r)
    BY <1>7 DEF Alone, Decide, Skip, BeginSend, Post, Accepted, Rejected, Retry,
         IsNext, Posting, Held
  <2>2. n = k \/ n \in Touched(r)
    BY <1>1, <1>7, <2>1 DEF Decide, Skip, BeginSend, Post, Accepted, Rejected, Retry,
         Posting, Decided, Touched, Held, OpenRuns
  <2> QED BY <2>1, <2>2 DEF HeldIsPending, Touched, Status
<1> QED BY <1>2, <1>3, <1>4, <1>5, <1>6, <1>7 DEF Next

\* If no two runs are ever open together, only pending rows are pushed and a
\* settled status is final.
THEOREM OneRunPushesPendingRows ==
  ASSUME Alone
  PROVE  Spec => OnlyPendingPushed
<1>1. Init => HeldIsPending
  BY DEF Init, HeldIsPending, Touched, Held, Idle
<1>2. ASSUME Inv, HeldIsPending, Next, NEW n \in Notifications, Settled(n)
      PROVE  pushes'[n] = pushes[n] /\ row'[n] = row[n]
  <2>1. row'[n] = row[n]
    <3>1. row[n].mode # "none"
      BY <1>2 DEF Inv, TableSound
    <3> QED BY <1>2, <3>1, RowChanges DEF HeldIsPending, Touched, Settled
  <2>2. \A r \in Runs : n \notin run[r].current
    BY <1>2 DEF HeldIsPending, Touched, Held, Settled
  <2>3. ASSUME NEW r \in Runs, NEW k \in run[r].current, pushes' \in {pushes, Pushed(k)}
        PROVE  pushes'[n] = pushes[n]
    BY <2>2, <2>3, <1>2 DEF Pushed, Inv, TypeOK
  <2>4. ASSUME NEW r \in Runs, NEW k \in Notifications, Decide(r, k)
        PROVE  pushes'[n] = pushes[n]
    BY <2>3, <2>4 DEF Decide, Skip, BeginSend, Post, Accepted, Rejected, Retry, Posting
  <2>5. ASSUME NEW r \in Runs, Fetch(r) \/ Commit(r) \/ Break(r)
        PROVE  pushes'[n] = pushes[n]
    BY <2>3, <2>5 DEF Fetch, Commit, Break
  <2> QED BY <2>1, <2>4, <2>5, <1>2 DEF Next, HourPasses, Generate
<1>3. Inv /\ HeldIsPending /\ [Next]_vars =>
        [\A n \in Notifications : Settled(n) =>
           pushes'[n] = pushes[n] /\ row'[n] = row[n]]_vars
  BY <1>2
<1>4. Inv /\ HeldIsPending /\ [Next]_vars => HeldIsPending'
  BY AloneNext
<1> QED BY <1>1, <1>3, <1>4, Invariance, PTL DEF Spec, OnlyPendingPushed

-----------------------------------------------------------------------------
(* The history of pushes. *)

\* A row is either left, or in hand, or decided on; a run that is not open has none.
HeldIsUndecided ==
  \A r \in Runs :
    /\ Open(r) \/ run[r] = Idle
    /\ run[r].left \cap run[r].current = {}
    /\ \A n \in Held(r) : run[r].decided[n] = "pending"

RecordInv == Inv /\ HeldIsPending /\ HeldIsUndecided /\ PushesAreRecorded

LEMMA HistoryStep == HistoryNext => Next
BY DEF HistoryNext, Doubts, Next, Decide, Post

LEMMA HeldUndecidedNext ==
  ASSUME TypeOK, HeldIsUndecided, [Next]_vars
  PROVE  HeldIsUndecided'
<1> SUFFICES ASSUME NEW r \in Runs
             PROVE  /\ run'[r].open \/ run'[r] = Idle
                    /\ run'[r].left \cap run'[r].current = {}
                    /\ \A n \in Held(r)' : run'[r].decided[n] = "pending"
  BY DEF HeldIsUndecided, Open
<1>1. /\ run[r] \in OpenRuns
      /\ Open(r) \/ run[r] = Idle
      /\ run[r].left \cap run[r].current = {}
      /\ \A n \in Held(r) : run[r].decided[n] = "pending"
  BY DEF TypeOK, HeldIsUndecided
<1>2. CASE run'[r] = run[r]
  BY <1>1, <1>2 DEF Held, Open
<1>3. CASE run'[r] = Idle
  BY <1>3 DEF Held, Idle
<1>4. ASSUME Fetch(r)
      PROVE  /\ run'[r].open
             /\ run'[r].left \cap run'[r].current = {}
             /\ \A n \in Held(r)' : run'[r].decided[n] = "pending"
  <2>1. PICK b \in SUBSET Notifications :
          run'[r] = [Idle EXCEPT !.open = TRUE, !.left = b]
    BY <1>4 DEF Fetch, Batches, Due, TypeOK
  <2> QED BY <2>1 DEF Held, Idle
<1>5. ASSUME NEW k \in Notifications, Decide(r, k)
      PROVE  /\ run'[r].open
             /\ run'[r].left \cap run'[r].current = {}
             /\ \A n \in Held(r)' : run'[r].decided[n] = "pending"
  <2>1. CASE Skip(r, k)
    <3>1. /\ run'[r].open /\ run'[r].left = run[r].left \ {k} /\ run[r].current = {}
          /\ run'[r].current = {}
          /\ \A n \in Notifications \ {k} : run'[r].decided[n] = run[r].decided[n]
      BY <1>1, <2>1 DEF Skip, IsNext, Open, TypeOK, OpenRuns
    <3> QED BY <1>1, <3>1 DEF Held, OpenRuns
  <2>2. CASE BeginSend(r, k)
    <3>1. /\ run'[r].open /\ run'[r].left = run[r].left \ {k} /\ k \in run[r].left
          /\ run'[r].current = {k} /\ run'[r].decided = run[r].decided
      BY <1>1, <2>2 DEF BeginSend, IsNext, Open, TypeOK, OpenRuns
    <3> QED BY <1>1, <3>1 DEF Held
  <2>3. ASSUME NEW status, Posting(r, k), run' = Decided(r, k, status)
        PROVE  /\ run'[r].open
               /\ run'[r].left \cap run'[r].current = {}
               /\ \A n \in Held(r)' : run'[r].decided[n] = "pending"
    <3>1. /\ run'[r].open /\ run'[r].left = run[r].left /\ run[r].current = {k}
          /\ run'[r].current = {}
          /\ \A n \in Notifications \ {k} : run'[r].decided[n] = run[r].decided[n]
      BY <1>1, <2>3 DEF Posting, Decided, Open, TypeOK, OpenRuns
    <3> QED BY <1>1, <3>1 DEF Held, OpenRuns
  <2>4. CASE Retry(r, k) /\ run[r].attempt < MaxAttempts
    <3>1. /\ run'[r].open /\ run'[r].left = run[r].left /\ run'[r].current = run[r].current
          /\ run'[r].decided = run[r].decided
      BY <1>1, <2>4 DEF Retry, Posting, Open, TypeOK, OpenRuns
    <3> QED BY <1>1, <3>1 DEF Held
  <2> QED BY <1>5, <2>1, <2>2, <2>3, <2>4 DEF Decide, Post, Accepted, Rejected, Retry
<1>6. \/ run'[r] = run[r] \/ run'[r] = Idle \/ Fetch(r)
      \/ \E k \in Notifications : Decide(r, k)
  <2>1. ASSUME NEW q \in Runs, NEW k \in Notifications, Decide(q, k), q # r
        PROVE  run'[r] = run[r]
    BY <2>1 DEF Decide, Skip, BeginSend, Post, Accepted, Rejected, Retry, Decided, TypeOK
  <2>2. ASSUME NEW q \in Runs, Fetch(q) \/ Commit(q) \/ Break(q)
        PROVE  run'[r] = run[r] \/ run'[r] = Idle \/ Fetch(r)
    BY <2>2 DEF Fetch, Commit, Break, TypeOK
  <2> QED BY <2>1, <2>2 DEF Next, HourPasses, Generate, vars
<1> QED BY <1>2, <1>3, <1>4, <1>5, <1>6

LEMMA RecordedNext ==
  ASSUME Alone, RecordInv, Inv', [HistoryNext]_hvars
  PROVE  PushesAreRecorded'
<1> SUFFICES ASSUME NEW n \in Notifications \ doubted'
             PROVE  pushes'[n] = IF KnownAsSent(n)' THEN 1 ELSE 0
  BY DEF PushesAreRecorded
<1> USE DEF RecordInv
<1>1. /\ row \in [Notifications -> Rows] /\ run \in [Runs -> OpenRuns]
      /\ pushes \in [Notifications -> 0 .. 2]
  BY DEF Inv, TypeOK
<1>2. n \notin doubted /\ pushes[n] = IF KnownAsSent(n) THEN 1 ELSE 0
  BY DEF PushesAreRecorded, HistoryNext, Doubts, hvars
<1>3. CASE pushes'[n] = pushes[n] /\ (KnownAsSent(n)' <=> KnownAsSent(n))
  BY <1>2, <1>3
<1>4. ASSUME row'[n].status = Status(n),
             \A r \in Runs : run'[r].decided[n] = "sent" <=> run[r].decided[n] = "sent"
      PROVE  KnownAsSent(n)' <=> KnownAsSent(n)
  BY <1>4 DEF KnownAsSent, Status
<1>5. CASE UNCHANGED hvars \/ HourPasses
  BY <1>3, <1>4, <1>5 DEF hvars, HourPasses, Status
<1>6. ASSUME NEW k \in Notifications, NEW mode \in {"live", "shadow"},
             NEW t \in Hours, Generate(k, mode, t)
      PROVE  pushes'[n] = IF KnownAsSent(n)' THEN 1 ELSE 0
  <2>1. row[k].mode = "none" => Status(k) = "pending"
    BY DEF Inv, TableSound, Settled
  <2>2. row'[n].status = Status(n)
    BY <2>1, <1>1, <1>6 DEF Generate, Exists, Status
  <2> QED BY <2>2, <1>3, <1>4, <1>6 DEF Generate
<1>7. ASSUME NEW r \in Runs, Fetch(r)
      PROVE  pushes'[n] = IF KnownAsSent(n)' THEN 1 ELSE 0
  <2>1. run[r] = Idle /\ run'[r].decided = Idle.decided
    BY <1>1, <1>7 DEF Fetch, HeldIsUndecided, Idle
  <2>2. \A q \in Runs : run'[q].decided[n] = run[q].decided[n]
    BY <2>1 DEF Alone
  <2> QED BY <2>2, <1>3, <1>4, <1>7 DEF Fetch, Status
<1>8. ASSUME NEW r \in Runs, Commit(r)
      PROVE  pushes'[n] = IF KnownAsSent(n)' THEN 1 ELSE 0
  <2>1. run'[r].decided[n] = "pending"
    BY <1>1, <1>8 DEF Commit, Idle
  <2>2. KnownAsSent(n)' <=> row'[n].status = "sent"
    BY <2>1 DEF Alone, KnownAsSent, Status
  <2>3. KnownAsSent(n) <=> Status(n) = "sent" \/ run[r].decided[n] = "sent"
    BY DEF Alone, KnownAsSent
  <2>4. CASE run[r].decided[n] = "pending"
    <3>1. row'[n] = row[n]
      BY <1>8, <2>4 DEF Commit
    <3> QED BY <3>1, <2>2, <2>3, <2>4, <1>3, <1>8 DEF Commit, Status
  <2>5. CASE run[r].decided[n] # "pending"
    <3>1. row'[n].status = run[r].decided[n]
      BY <1>1, <1>8, <2>5 DEF Commit, Rows
    <3>2. Status(n) = "pending"
      BY <2>5 DEF HeldIsPending, Touched
    <3> QED BY <3>1, <3>2, <2>2, <2>3, <1>3, <1>8 DEF Commit
  <2> QED BY <2>4, <2>5
<1>9. ASSUME NEW r \in Runs, NEW k \in Notifications,
             Skip(r, k) \/ BeginSend(r, k) \/ Accepted(r, k) \/ Rejected(r, k)
      PROVE  pushes'[n] = IF KnownAsSent(n)' THEN 1 ELSE 0
  <2>1. k \in Held(r) /\ row' = row
    BY <1>9 DEF Skip, BeginSend, Accepted, Rejected, IsNext, Posting, Held
  <2>2. run[r].decided[k] = "pending" /\ Status(k) = "pending"
    BY <2>1 DEF HeldIsUndecided, HeldIsPending, Touched
  <2>3. \A q \in Runs : run[q].decided \in [Notifications -> Statuses]
    BY <1>1 DEF OpenRuns
  <2>4. CASE n = k /\ Accepted(r, k)
    <3>1. ~KnownAsSent(n)
      BY <2>2, <2>4 DEF KnownAsSent, Alone
    <3>2. pushes'[n] = 1
      BY <3>1, <1>1, <1>2, <2>4 DEF Accepted, Pushed
    <3>3. run'[r].decided[n] = "sent"
      BY <1>1, <2>3, <2>4 DEF Accepted, Decided
    <3> QED BY <3>2, <3>3 DEF KnownAsSent
  <2>5. CASE ~(n = k /\ Accepted(r, k))
    <3>1. pushes'[n] = pushes[n]
      BY <1>1, <1>9, <2>5 DEF Skip, BeginSend, Accepted, Rejected, Pushed
    <3>2. \A q \in Runs : run'[q].decided[n] = "sent" <=> run[q].decided[n] = "sent"
      <4>1. run'[r].decided[n] = "sent" <=> run[r].decided[n] = "sent"
        <5>1. CASE n # k
          <6>1. PICK d \in {"skipped_dnd", "sent", "failed"} :
                  \/ run'[r].decided = run[r].decided
                  \/ run'[r].decided = [run[r].decided EXCEPT ![k] = d]
            <7>1. CASE Skip(r, k)
              BY <7>1, <1>1 DEF Skip, OpenRuns
            <7>2. CASE BeginSend(r, k)
              BY <7>2, <1>1 DEF BeginSend, OpenRuns
            <7>3. CASE Accepted(r, k)
              BY <7>3, <1>1 DEF Accepted, Decided, OpenRuns
            <7>4. CASE Rejected(r, k)
              BY <7>4, <1>1 DEF Rejected, Decided, OpenRuns
            <7> QED BY <7>1, <7>2, <7>3, <7>4, <1>9
          <6> QED BY <5>1, <6>1, <2>3
        <5>2. CASE n = k /\ BeginSend(r, k)
          BY <5>2, <1>1 DEF BeginSend
        <5>3. CASE n = k /\ Skip(r, k)
          BY <5>3, <1>1, <2>2, <2>3 DEF Skip
        <5>4. CASE n = k /\ Rejected(r, k)
          BY <5>4, <1>1, <2>2, <2>3 DEF Rejected, Decided
        <5> QED BY <5>1, <5>2, <5>3, <5>4, <1>9, <2>5
      <4> QED BY <4>1 DEF Alone
    <3> QED BY <3>1, <3>2, <2>1, <1>3, <1>4 DEF Status
  <2> QED BY <2>4, <2>5
<1>10. ASSUME NEW r \in Runs, Doubts(r)
       PROVE  pushes'[n] = IF KnownAsSent(n)' THEN 1 ELSE 0
  <2>1. n \notin run[r].current /\ row' = row
    BY <1>10 DEF Doubts, OnlyKnownTo, Retry, Break
  <2>2. pushes'[n] = pushes[n]
    BY <1>1, <1>10, <2>1 DEF Doubts, Retry, Break, Posting, Pushed
  <2>3. run'[r].decided[n] = "sent" <=> run[r].decided[n] = "sent"
    <3>1. CASE Break(r) /\ doubted' = doubted \cup OnlyKnownTo(r)
      BY <3>1, <1>1 DEF Break, OnlyKnownTo, Idle
    <3>2. ASSUME NEW k \in Notifications, Retry(r, k)
          PROVE  run'[r].decided[n] = run[r].decided[n]
      BY <3>2, <1>1, <2>1 DEF Retry, Posting, Decided, OpenRuns
    <3> QED BY <3>1, <3>2, <1>10 DEF Doubts
  <2> QED BY <2>1, <2>2, <2>3, <1>3, <1>4 DEF Alone, Status
<1> QED BY <1>5, <1>6, <1>7, <1>8, <1>9, <1>10 DEF HistoryNext

\* If no two runs are ever open together, a row was pushed exactly once if it is sent,
\* or about to be recorded as sent, and otherwise never -- but for the rows of which a
\* post had no final answer or whose run broke off after the push.
THEOREM OneRunRecordsItsPushes ==
  ASSUME Alone
  PROVE  HistorySpec => []PushesAreRecorded
<1>1. HistoryInit => RecordInv
  <2> SUFFICES ASSUME HistoryInit PROVE RecordInv
    OBVIOUS
  <2>1. Inv
    BY InvInit DEF HistoryInit
  <2>2. HeldIsPending /\ HeldIsUndecided
    BY DEF HistoryInit, Init, HeldIsPending, HeldIsUndecided, Touched, Held, Idle
  <2>3. PushesAreRecorded
    BY DEF HistoryInit, Init, PushesAreRecorded, KnownAsSent, Status, NoRow, Idle
  <2> QED BY <2>1, <2>2, <2>3 DEF RecordInv
<1>2. RecordInv /\ [HistoryNext]_hvars => RecordInv'
  <2> SUFFICES ASSUME RecordInv, [HistoryNext]_hvars PROVE RecordInv'
    OBVIOUS
  <2>1. [Next]_vars
    BY HistoryStep DEF hvars, vars
  <2>2. Inv' /\ HeldIsPending'
    BY <2>1, InvNext, AloneNext DEF RecordInv
  <2>3. HeldIsUndecided'
    BY <2>1, HeldUndecidedNext DEF RecordInv, Inv
  <2>4. PushesAreRecorded'
    BY <2>2, RecordedNext
  <2> QED BY <2>2, <2>3, <2>4 DEF RecordInv
<1>3. RecordInv => PushesAreRecorded
  BY DEF RecordInv
<1> QED BY <1>1, <1>2, <1>3, PTL DEF HistorySpec

-----------------------------------------------------------------------------
(* Refinement of NotificationRecord. *)

Overlapping == \E r, q \in Runs : r # q

RecordedStatus == [n \in Notifications |-> Recorded(n)]
EverPushed == [n \in Notifications |-> pushes[n] > 0]

\* The invariant of the refinement, with runs that overlap and with runs that do not.
RInv == Inv /\ (Overlapping \/ HeldIsPending)

LEMMA RInvInit == Init => RInv
BY InvInit DEF RInv, Init, HeldIsPending, Touched, Held, Idle

LEMMA RInvNext == RInv /\ [Next]_vars => RInv'
<1> SUFFICES ASSUME RInv, [Next]_vars PROVE RInv'
  OBVIOUS
<1>1. Inv'
  BY InvNext DEF RInv
<1>2. CASE Overlapping
  BY <1>1, <1>2 DEF RInv, Overlapping
<1>3. CASE ~Overlapping
  BY <1>1, <1>3, AloneNext DEF RInv, Overlapping, Alone
<1> QED BY <1>2, <1>3

\* A row of a run, or one it has decided on, shows its status; while the row is not
\* skipped, it is in delivery.
LEMMA TouchedRows ==
  ASSUME RInv, NEW r \in Runs, NEW n \in Touched(r)
  PROVE  /\ n \in Notifications
         /\ Recorded(n) = Status(n)
         /\ Status(n) \in Statuses
         /\ Status(n) # "skipped_dnd" => Table!InDelivery(n)
<1>1. n \in Notifications /\ row[n] \in Rows /\ row[n].mode = "live"
  BY DEF RInv, Inv, TypeOK, OpenRuns, Touched, Held, RunsSound, RunSound
<1>2. Recorded(n) = Status(n) /\ Status(n) \in Statuses
  BY <1>1 DEF Recorded, Status, Rows
<1>3. ASSUME Status(n) # "skipped_dnd"
      PROVE  Table!InDelivery(n)
  <2>1. CASE Overlapping
    BY <2>1, <1>1, <1>2, <1>3 DEF Table!InDelivery, Overlapping, Statuses
  <2>2. CASE HeldIsPending
    BY <2>2, <1>1, <1>2 DEF Table!InDelivery, HeldIsPending
  <2> QED BY <2>1, <2>2 DEF RInv
<1> QED BY <1>1, <1>2, <1>3

LEMMA PushRefines ==
  ASSUME RInv, NEW r \in Runs, NEW n \in run[r].current,
         row' = row, pushes' = Pushed(n)
  PROVE  Table!Push(n)
<1>1. n \in Touched(r) /\ n \in Notifications
  BY TouchedRows DEF Touched, Held
<1>2. Status(n) # "skipped_dnd"
  <2>1. ~IsDndActive(row[n].scheduled_for)
    BY DEF RInv, Inv, RunsSound, RunSound
  <2> QED BY <1>1, <2>1 DEF RInv, Inv, TableSound, Fits
<1>3. Table!InDelivery(n)
  BY <1>1, <1>2, TouchedRows
<1>4. EverPushed' = [EverPushed EXCEPT ![n] = TRUE]
  <2>1. \A k \in Notifications : EverPushed'[k] = (IF k = n THEN TRUE ELSE EverPushed[k])
    BY <1>1, PushIsAllowed DEF EverPushed, RInv
  <2> QED BY <2>1, Zenon DEF EverPushed
<1>5. RecordedStatus' = RecordedStatus
  BY DEF RecordedStatus, Recorded, Status
<1> QED BY <1>3, <1>4, <1>5 DEF Table!Push, EverPushed, RecordedStatus

\* What a run has decided is an outcome of the row, even if another run has pushed
\* it or settled it since.
LEMMA DecisionIsOutcome ==
  ASSUME RInv, NEW r \in Runs, NEW n \in Notifications,
         run[r].decided[n] # "pending", Status(n) # "skipped_dnd"
  PROVE  run[r].decided[n] \in Table!Outcomes(n)
<1> DEFINE d == run[r].decided[n]
<1>1. n \in Touched(r)
  BY DEF Touched
<1>2. /\ d \in {"sent", "failed", "skipped_dnd"}
      /\ Fits(d, n) /\ Fits(Status(n), n)
      /\ d = "sent" => pushes[n] > 0
  BY DEF RInv, Inv, TypeOK, OpenRuns, Statuses, RunsSound, RunSound, TableSound
<1>3. CASE d = "skipped_dnd"
  <2>1. IsDndActive(row[n].scheduled_for)
    BY <1>2, <1>3 DEF Fits
  <2>2. Status(n) = "pending" /\ ~(pushes[n] > 0)
    BY <2>1, <1>2 DEF Fits, RInv, Inv, PushedOnlyWhenAllowed
  <2> QED BY <2>2, <1>1, <1>3, TouchedRows DEF Table!Outcomes
<1> QED BY <1>2, <1>3 DEF Table!Outcomes

LEMMA CommitRefines ==
  ASSUME RInv, NEW r \in Runs, Commit(r)
  PROVE  Table!Record
<1> DEFINE batch == {n \in Notifications :
                       run[r].decided[n] # "pending" /\ Status(n) # "skipped_dnd"}
           outcome == [n \in batch |-> run[r].decided[n]]
<1>1. batch \in SUBSET {n \in Notifications : Table!InDelivery(n)}
  BY TouchedRows DEF Touched
<1>2. \A n \in batch : outcome[n] \in Table!Outcomes(n)
  BY DecisionIsOutcome
<1>3. outcome \in [batch -> {"sent", "failed", "skipped_dnd"}]
  BY DEF RInv, Inv, TypeOK, OpenRuns, Statuses
<1>4. ASSUME NEW n \in Notifications
      PROVE  Recorded(n)' = IF n \in batch THEN outcome[n] ELSE Recorded(n)
  <2>1. row[n] \in Rows /\ Inv
    BY DEF RInv, Inv, TypeOK
  <2>2. CASE run[r].decided[n] = "pending"
    <3>1. row'[n] = row[n]
      BY <2>2 DEF Commit
    <3> QED BY <3>1, <2>2 DEF Recorded, Status
  <2>3. CASE run[r].decided[n] # "pending"
    <3>1. row'[n] = [row[n] EXCEPT !.status = run[r].decided[n]]
      BY <2>3 DEF Commit
    <3>2. n \in Touched(r) /\ row[n].mode = "live"
      BY <2>1, <2>3 DEF Touched, Inv, RunsSound, RunSound
    <3>3. Recorded(n)' = run[r].decided[n]
      BY <3>1, <3>2, <2>1 DEF Recorded, Status, Rows
    <3>4. CASE Status(n) = "skipped_dnd"
      <4>1. run[r].decided[n] = "skipped_dnd"
        BY <2>3, <3>4, <2>1 DEF Inv, TableSound, RunsSound, RunSound, Fits
      <4> QED BY <4>1, <3>2, <3>3, <3>4, TouchedRows
    <3> QED BY <2>3, <3>3, <3>4
  <2> QED BY <2>2, <2>3
<1> HIDE DEF batch, outcome
<1>5. RecordedStatus' =
        [n \in Notifications |-> IF n \in batch THEN outcome[n] ELSE RecordedStatus[n]]
  BY <1>4 DEF RecordedStatus
<1>6. EverPushed' = EverPushed
  BY DEF Commit, EverPushed
<1> QED BY <1>1, <1>2, <1>3, <1>5, <1>6 DEF Table!Record, RecordedStatus, EverPushed

LEMMA StepRefines ==
  RInv /\ [Next]_vars => Table!Next \/ UNCHANGED <<RecordedStatus, EverPushed>>
<1> SUFFICES ASSUME RInv, [Next]_vars
             PROVE  Table!Next \/ UNCHANGED <<RecordedStatus, EverPushed>>
  OBVIOUS
<1>1. ASSUME row' = row, pushes' = pushes
      PROVE  UNCHANGED <<RecordedStatus, EverPushed>>
  BY <1>1 DEF RecordedStatus, Recorded, Status, EverPushed
<1>2. ASSUME NEW n \in Notifications, NEW mode \in {"live", "shadow"},
             NEW t \in Hours, Generate(n, mode, t)
      PROVE  Table!Create(n)
  <2>1. /\ row[n].mode = "none"
        /\ \A k \in Notifications \ {n} : row'[k] = row[k]
        /\ row'[n] = [mode |-> mode, scheduled_for |-> t, status |-> "pending"]
    BY <1>2 DEF Generate, Exists, RInv, Inv, TypeOK
  <2> DEFINE s == IF mode = "shadow" THEN "shadow" ELSE "pending"
  <2>2. Recorded(n) = "absent" /\ Recorded(n)' = s
    BY <2>1 DEF Recorded, Status
  <2>3. \A k \in Notifications \ {n} : Recorded(k)' = Recorded(k)
    BY <2>1 DEF Recorded, Status
  <2>4. s \in {"pending", "shadow"}
    OBVIOUS
  <2> HIDE DEF s
  <2>5. RecordedStatus' = [RecordedStatus EXCEPT ![n] = s]
    BY <2>2, <2>3 DEF RecordedStatus
  <2>6. EverPushed' = EverPushed
    BY <1>2 DEF Generate, EverPushed
  <2> QED BY <2>2, <2>4, <2>5, <2>6 DEF Table!Create, RecordedStatus, EverPushed
<1>3. ASSUME NEW r \in Runs, Break(r)
      PROVE  Table!Next \/ UNCHANGED <<RecordedStatus, EverPushed>>
  <2>1. CASE pushes' = pushes
    BY <2>1, <1>1, <1>3 DEF Break
  <2>2. ASSUME NEW n \in run[r].current, pushes' = Pushed(n)
        PROVE  Table!Next
    <3>1. n \in Notifications /\ Table!Push(n)
      BY <2>2, <1>3, PushRefines, TouchedRows DEF Break, Touched, Held
    <3> QED BY <3>1 DEF Table!Next
  <2> QED BY <2>1, <2>2, <1>3 DEF Break
<1>4. ASSUME NEW r \in Runs, NEW n \in Notifications, Decide(r, n)
      PROVE  Table!Next \/ UNCHANGED <<RecordedStatus, EverPushed>>
  <2>1. row' = row
    BY <1>4 DEF Decide, Skip, BeginSend, Post, Accepted, Rejected, Retry
  <2>2. pushes' = pushes \/ (n \in run[r].current /\ pushes' = Pushed(n))
    BY <1>4 DEF Decide, Skip, BeginSend, Post, Accepted, Rejected, Retry, Posting
  <2> QED BY <2>1, <2>2, <1>1, PushRefines DEF Table!Next
<1>5. ASSUME NEW r \in Runs, Fetch(r)
      PROVE  UNCHANGED <<RecordedStatus, EverPushed>>
  BY <1>5, <1>1 DEF Fetch
<1>6. CASE HourPasses
  BY <1>6, <1>1 DEF HourPasses
<1>7. CASE UNCHANGED vars
  BY <1>7, <1>1 DEF vars
<1>8. ASSUME NEW r \in Runs, Commit(r)
      PROVE  Table!Next
  BY <1>8, CommitRefines DEF Table!Next
<1> QED BY <1>2, <1>3, <1>4, <1>5, <1>6, <1>7, <1>8 DEF Next, Table!Next

\* Every behaviour of the delivery worker is one of NotificationRecord: whatever
\* runs read, push and commit, however they overlap or break off.
THEOREM DeliveryImplementsRecord == Spec => ImplementsNotificationRecord
<1>1. ASSUME Init PROVE Table!Init
  <2>1. \A n \in Notifications : Recorded(n) = "absent" /\ (pushes[n] > 0) = FALSE
    BY <1>1 DEF Init, NoRow, Recorded
  <2>2. [n \in Notifications |-> Recorded(n)] = [n \in Notifications |-> "absent"]
    BY <2>1
  <2>3. [n \in Notifications |-> pushes[n] > 0] = [n \in Notifications |-> FALSE]
    BY <2>1, Zenon
  <2> QED BY <2>2, <2>3 DEF Table!Init
<1>2. RInv /\ [Next]_vars => [Table!Next]_<<RecordedStatus, EverPushed>>
  BY StepRefines
<1>3. RInv /\ [Next]_vars =>
        [Table!Next]_<<[n \in Notifications |-> Recorded(n)],
                       [n \in Notifications |-> pushes[n] > 0]>>
  BY <1>2 DEF RecordedStatus, EverPushed
<1> QED BY <1>1, <1>3, RInvInit, RInvNext, PTL
  DEF Spec, ImplementsNotificationRecord, Table!Spec, Table!vars

=============================================================================
