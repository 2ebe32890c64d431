---------------------------- MODULE JourneyEngine ----------------------------
(***************************************************************************)
(* The state engine at work on the table user_journey_state: the event     *)
(* consumer, which handles one progress event at a time, and the Celery    *)
(* workers that run the dormancy scan and the chapter-transition scan, and *)
(* the demo seeder, which replaces rows under their open transactions.     *)
(* Each of them reads rows in a transaction, decides from what it read and *)
(* commits later; nothing locks a row between the SELECT and the UPDATE,   *)
(* and an UPDATE writes only the columns its transaction changed.          *)
(*                                                                         *)
(* Time is kept per user as the whole days since last_activity_at, which   *)
(* is all the scans compute from it; days past the last threshold are not  *)
(* told apart.  An event transaction is assumed to last less than a day.   *)
(***************************************************************************)
EXTENDS JourneyMachine

CONSTANTS
  Users,      \* users of one journey
  Demo,       \* those of them whose rows the demo seeder writes
  MaxSeeds,   \* bound on the number of re-seedings
  Workers,    \* Celery worker processes that may run a scan
  Short, Long, Churned  \* the dormancy thresholds of the settings, in days

ASSUME Thresholds ==
  /\ Short \in Nat /\ Long \in Nat /\ Churned \in Nat
  /\ 0 < Short /\ Short <= Long /\ Long <= Churned

ASSUME DemoUsers == Demo \subseteq Users /\ MaxSeeds \in Nat

VARIABLES
  state,    \* [Users -> ...]: committed current_state, "absent" without a row
  idle,     \* [Users -> 0..Churned]: whole days since last_activity_at
  chapter,  \* [Users -> ChapterMarks]: oldest chapter_completed mark in chapter_progress
  txn,      \* the consumer's open transaction, or NoTxn
  scan,     \* [Workers -> the worker's open scan, or NoScan]
  raced,    \* history: users some write to whom was based on a stale read
  seeds     \* number of re-seedings so far

vars == <<state, idle, chapter, txn, scan, raced, seeds>>

\* "recent" and "old" are on either side of chapter_transition_inactivity_hours.
ChapterMarks == {"none", "recent", "old"}

NoTxn == [open |-> FALSE]
NoScan == [open |-> FALSE]

Txns ==
  [open  : {TRUE},
   user  : Users,
   next  : AllStates \cup {"none"},  \* the state to write, if it changed
   stale : BOOLEAN]                  \* the row changed after it was read

Targets == {"keep", "dormant_short", "dormant_long", "churned", "chapter_transition"}

Scans ==
  [open  : {TRUE},
   kind  : {"dormancy", "chapter"},
   plan  : [Users -> Targets],       \* what the scan will write to each row
   stale : SUBSET Users]             \* rows to be written that changed after the read

TypeOK ==
  /\ state \in [Users -> AllStates \cup {"absent"}]
  /\ idle \in [Users -> 0 .. Churned]
  /\ chapter \in [Users -> ChapterMarks]
  /\ txn \in Txns \cup {NoTxn}
  /\ scan \in [Workers -> Scans \cup {NoScan}]
  /\ raced \subseteq Users
  /\ seeds \in 0 .. MaxSeeds

-----------------------------------------------------------------------------
(* The rows a run starts from: none, or what the demo seeder leaves. *)

\* The seeder's days_inactive (0, 1, 3, 10 and 35), by the threshold passed.
SeedIdle(s) ==
  CASE s = "dormant_short" -> Short
    [] s = "dormant_long"  -> Long
    [] s = "churned"       -> Churned
    [] OTHER               -> 0

Init ==
  /\ state \in [Users -> AllStates \cup {"absent"}]
  /\ idle = [u \in Users |-> SeedIdle(state[u])]
  /\ chapter = [u \in Users |-> "none"]
  /\ txn = NoTxn
  /\ scan = [w \in Workers |-> NoScan]
  /\ raced = {}
  /\ seeds = 0

-----------------------------------------------------------------------------
(* The event consumer: one message, one transaction. *)

\* What handling some event can make of a row in state s.
Outcomes ==
  [s \in AllStates |->
     {ApplyTransitions(s, e, sig) : e \in Events, sig \in SUBSET Signals}]

\* process_event up to the flush: read the row or insert it as new_unstarted,
\* then decide.
BeginEvent(u) ==
  /\ txn = NoTxn
  /\ \E o \in Outcomes[IF state[u] = "absent" THEN "new_unstarted" ELSE state[u]] :
       txn' = [open |-> TRUE, user |-> u, next |-> o, stale |-> FALSE]
  /\ UNCHANGED <<state, idle, chapter, scan, raced, seeds>>

\* Mutant: the decision is assigned without testing that there is one.
StateUnguarded(u) == txn.next

\* Mutant: without a decision the row keeps the default of an inserted one.
StateDefaulted(u) == IF txn.next # "none" THEN txn.next ELSE "new_unstarted"

\* The current_state column after the consumer's UPDATE.
StateAfterEvent(u) ==
  IF txn.next # "none" THEN txn.next
  ELSE IF state[u] = "absent" THEN "new_unstarted" ELSE state[u]

\* A commit that writes the rows W makes every other open read of them stale.
Outdate(sc, W) ==
  IF sc = NoScan THEN sc
  ELSE [sc EXCEPT !.stale = @ \cup {v \in W : sc.plan[v] # "keep"}]

CommitEvent ==
  /\ txn # NoTxn
  /\ LET u == txn.user IN
       /\ state' = [state EXCEPT ![u] = StateAfterEvent(u)]
       /\ idle' = [idle EXCEPT ![u] = 0]
       /\ scan' = [w \in Workers |-> Outdate(scan[w], {u})]
       /\ raced' = IF txn.stale THEN raced \cup {u} ELSE raced
  /\ txn' = NoTxn
  /\ UNCHANGED <<chapter, seeds>>

\* An exception before the commit, or a crash: the session is rolled back.
AbortEvent ==
  /\ txn # NoTxn
  /\ txn' = NoTxn
  /\ UNCHANGED <<state, idle, chapter, scan, raced, seeds>>

-----------------------------------------------------------------------------
(* The temporal scans: SELECT, decide for every row, flush and commit once. *)

\* Mutant: the tier is chosen from the days alone, skipping tiers.
DormancyTargetByDays(u) ==
  IF state[u] \notin ActiveStates \cup {"dormant_short", "dormant_long"} THEN "keep"
  ELSE CASE idle[u] >= Churned -> "churned"
         [] idle[u] >= Long    -> "dormant_long"
         [] idle[u] >= Short   -> "dormant_short"
         [] OTHER              -> "keep"

\* Mutant: users of the second tier are never churned.
DormancyTargetTwoTiers(u) ==
  CASE state[u] \in ActiveStates /\ idle[u] >= Short        -> "dormant_short"
    [] state[u] = "dormant_short" /\ idle[u] >= Long        -> "dormant_long"
    [] OTHER                                                -> "keep"

DormancyTarget(u) ==
  CASE state[u] \in ActiveStates /\ idle[u] >= Short        -> "dormant_short"
    [] state[u] = "dormant_short" /\ idle[u] >= Long        -> "dormant_long"
    [] state[u] = "dormant_long" /\ idle[u] >= Churned      -> "churned"
    [] OTHER                                                -> "keep"

ChapterTarget(u) ==
  IF /\ state[u] \in ActiveStates \ {"chapter_transition"}
     /\ chapter[u] = "old"
  THEN "chapter_transition"
  ELSE "keep"

BeginScan(w, k, plan) ==
  /\ scan[w] = NoScan
  /\ scan' = [scan EXCEPT ![w] = [open |-> TRUE, kind |-> k, plan |-> plan, stale |-> {}]]
  /\ UNCHANGED <<state, idle, chapter, txn, raced, seeds>>

BeginDormancyScan(w) == BeginScan(w, "dormancy", [u \in Users |-> DormancyTarget(u)])

BeginChapterScan(w) == BeginScan(w, "chapter", [u \in Users |-> ChapterTarget(u)])

Written(w) == {u \in Users : scan[w].plan[u] # "keep"}

CommitScan(w) ==
  /\ scan[w] # NoScan
  /\ state' = [u \in Users |-> IF u \in Written(w) THEN scan[w].plan[u] ELSE state[u]]
  /\ raced' = raced \cup scan[w].stale
  /\ txn' = IF txn # NoTxn /\ txn.user \in Written(w)
            THEN [txn EXCEPT !.stale = TRUE]
            ELSE txn
  /\ scan' = [v \in Workers |-> IF v = w THEN NoScan ELSE Outdate(scan[v], Written(w))]
  /\ UNCHANGED <<idle, chapter, seeds>>

\* An exception or a killed worker: nothing of the scan is written.
AbortScan(w) ==
  /\ scan[w] # NoScan
  /\ scan' = [scan EXCEPT ![w] = NoScan]
  /\ UNCHANGED <<state, idle, chapter, txn, raced, seeds>>

-----------------------------------------------------------------------------
(* Demo seeding again: one commit deletes the rows of all demo users and    *)
(* inserts new ones, with new primary keys.                                 *)

\* Mutant: the rows are overwritten in place, so planned writes still hit them.
RowsKept(sc) == sc

\* A scan's UPDATE by the primary keys it read finds no row that was deleted.
RowsLost(sc) ==
  IF sc = NoScan THEN sc
  ELSE [sc EXCEPT !.plan = [u \in Users |-> IF u \in Demo THEN "keep" ELSE sc.plan[u]],
                  !.stale = @ \ Demo]

\* The event transaction that read such a row, or is about to insert one, can
\* only fail: no row to UPDATE, or the key is taken.  It is ended here.
Reseed ==
  /\ seeds < MaxSeeds
  /\ seeds' = seeds + 1
  /\ \E s \in [Demo -> AllStates] :  \* STATE_DISTRIBUTION, by number of user
       /\ state' = [u \in Users |-> IF u \in Demo THEN s[u] ELSE state[u]]
       /\ idle' = [u \in Users |-> IF u \in Demo THEN SeedIdle(s[u]) ELSE idle[u]]
  /\ chapter' = [u \in Users |-> IF u \in Demo THEN "none" ELSE chapter[u]]
  /\ txn' = IF txn # NoTxn /\ txn.user \in Demo THEN NoTxn ELSE txn
  /\ scan' = [w \in Workers |-> RowsLost(scan[w])]
  /\ raced' = raced \ Demo

-----------------------------------------------------------------------------
(* The environment. *)

\* Another day has passed since the user's last activity.
DayPasses(u) ==
  /\ state[u] # "absent" /\ idle[u] < Churned
  /\ idle' = [idle EXCEPT ![u] = @ + 1]
  /\ UNCHANGED <<state, chapter, txn, scan, raced, seeds>>

\* Whoever maintains chapter_progress marks a chapter as completed now: no code
\* under src/ writes the keys the chapter scan reads.  Marks are never removed.
MarkChapterCompleted(u) ==
  /\ state[u] # "absent"
  /\ chapter' = [chapter EXCEPT ![u] = IF @ = "none" THEN "recent" ELSE @]
  /\ UNCHANGED <<state, idle, txn, scan, raced, seeds>>

\* The inactivity window of the oldest mark has passed.
MarkAges(u) ==
  /\ chapter[u] = "recent"
  /\ chapter' = [chapter EXCEPT ![u] = "old"]
  /\ UNCHANGED <<state, idle, txn, scan, raced, seeds>>

-----------------------------------------------------------------------------

Next ==
  \/ \E u \in Users : BeginEvent(u)
  \/ CommitEvent
  \/ AbortEvent
  \/ \E w \in Workers : BeginDormancyScan(w)
  \/ \E w \in Workers : BeginChapterScan(w)
  \/ \E w \in Workers : CommitScan(w)
  \/ \E w \in Workers : AbortScan(w)
  \/ Reseed
  \/ \E u \in Users : DayPasses(u)
  \/ \E u \in Users : MarkChapterCompleted(u)
  \/ \E u \in Users : MarkAges(u)

Spec == Init /\ [][Next]_vars

\* Celery beat starts the dormancy scan every hour and days do pass.  A scan may
\* fail, but not every one of them for ever; events need not arrive.
CommitDormancyScan(w) == scan[w] # NoScan /\ scan[w].kind = "dormancy" /\ CommitScan(w)

Fairness ==
  /\ \A u \in Users : WF_vars(DayPasses(u))
  /\ \A w \in Workers :
       /\ WF_vars(CommitScan(w) \/ AbortScan(w))
       /\ SF_vars(BeginDormancyScan(w))
       /\ SF_vars(CommitDormancyScan(w))
  /\ WF_vars(CommitEvent \/ AbortEvent)

FairSpec == Spec /\ Fairness

-----------------------------------------------------------------------------
(* Properties. *)

\* A user whose writes never raced is dormant only if inactive for that tier's
\* days: scan_dormancy and process_event agree on what dormancy means.
DormancyMatchesInactivity ==
  \A u \in Users \ raced :
    /\ state[u] = "dormant_short" => idle[u] >= Short
    /\ state[u] = "dormant_long" => idle[u] >= Long
    /\ state[u] = "churned" => idle[u] >= Churned

\* Why that holds.  An event transaction whose read is still current carries a
\* move of the machine out of the present state, wakes a dormant user, and never
\* carries a dormancy; a stale one starts no journey.
TxnInv ==
  txn # NoTxn =>
    LET s == state[txn.user] IN
      /\ txn.next \notin DormantStates \cup {"new_unstarted"}
      /\ txn.stale => s # "absent" /\ txn.next # "onboarding"
      /\ ~txn.stale =>
           /\ txn.next # "none" =>
                <<IF s = "absent" THEN "new_unstarted" ELSE s, txn.next>> \in Edges
           /\ txn.next = "onboarding" => s \in {"absent", "new_unstarted"}
           /\ s \in DormantStates => txn.next = "progressing_active"

\* A planned write that is still current moves the row along a permitted edge
\* and is due; planned rows belong to journeys that have started.
PlanFits(w, u) ==
  /\ state[u] \notin {"absent", "new_unstarted"}
  /\ u \notin scan[w].stale =>
       /\ <<state[u], scan[w].plan[u]>> \in Edges \cup {<<"onboarding", "chapter_transition">>}
       /\ scan[w].plan[u] = "dormant_short" => idle[u] >= Short
       /\ scan[w].plan[u] = "dormant_long" => idle[u] >= Long
       /\ scan[w].plan[u] = "churned" => idle[u] >= Churned

ScanInv ==
  \A w \in Workers : scan[w] # NoScan =>
    \A u \in Users : scan[w].plan[u] # "keep" => PlanFits(w, u)

\* Only rows to be written are ever recorded as stale.
StaleIsPlanned ==
  \A w \in Workers : scan[w] # NoScan =>
    \A u \in scan[w].stale : scan[w].plan[u] # "keep"

\* The inductive invariant of the engine: an open transaction is either known
\* to be overtaken or still fits the committed row it will be applied to.
OpenWorkIsCurrentOrStale ==
  DormancyMatchesInactivity /\ TxnInv /\ ScanInv /\ StaleIsPlanned

\* The interleaved transactions implement the abstract lifecycle: consumer and
\* scans together move a journey along the machine until a stale write, and no
\* interleaving at all makes a journey vanish or start again.
Lifecycle == INSTANCE JourneyLifecycle
ImplementsLifecycle == Lifecycle!Spec

\* A journey the scans look at either keeps seeing activity or ends up in a
\* state they no longer look at: dormancy escalates all the way to churned.
InactiveUsersSettle ==
  \A u \in Users :
    \/ []<>(state[u] # "absent" /\ idle[u] = 0)
    \/ <>[](state[u] \in {"absent", "new_unstarted", "churned", "completing", "completed"})

\* What temporal.py says of the dormancy scan, races or not: users are moved to
\* the dormancy tiers based on the days since their last activity.
DormantUsersAreInactive ==
  \A u \in Users : state[u] \in DormantStates => idle[u] >= Short

=============================================================================
