-------------------------- MODULE BehaviorWindows --------------------------
(***************************************************************************)
(* What the engine remembers of a learner's work between two events: the   *)
(* sliding windows of app/state_engine/evaluator.py, kept in the JSON      *)
(* column metadata, the aggregate columns computed from them, the counts   *)
(* in the JSON column chapter_progress, and the state that the signals     *)
(* computed from all of these lead to.                                     *)
(*                                                                         *)
(* Both JSON columns are dictionaries that are changed in place and then   *)
(* assigned to the attribute they came from.  SQLAlchemy compares old and  *)
(* new value at the flush; they are the same object, so nothing is written *)
(* unless the attribute was empty and the dictionary is new.  Every        *)
(* message has a session of its own and loads the row again.               *)
(*                                                                         *)
(* One row, fresh at the start.  Only the event consumer writes these      *)
(* columns, so handling an event and its commit are one step, and a        *)
(* transaction rolled back is none.                                        *)
(***************************************************************************)
EXTENDS JourneyMachine, Integers, SequencesExt

CONSTANTS
  Window,        \* values kept of each metric (5)
  Values,        \* values a producer may report of a metric
  Chapters,      \* chapters by the rank of their key among the sorted keys
  Updates,       \* the events that are produced
  RetryLimit,    \* struggling_retry_rate_threshold times 5, in retries
  ScoreLimit,    \* struggling_avg_score_threshold
  SpeedLimit,    \* bored_speed_threshold_pct of the expected 300 seconds
  BoredPct,      \* bored_completion_rate_threshold, in percent
  NearPct        \* near_completion_progress_pct

\* A value or chapter that an event does not carry.
None == -1

Metrics == {"score", "retry", "speed"}

\* An event: what the machine's rules read of it, and what the evaluator reads.
AllUpdates ==
  [rules : Events, chapter : Chapters \cup {None}, value : [Metrics -> Values \cup {None}]]

ASSUME Parameters ==
  /\ Window \in Nat /\ Window >= 2
  /\ Values \subseteq Nat /\ Chapters \subseteq Nat
  /\ Updates \subseteq AllUpdates
  /\ {RetryLimit, ScoreLimit, SpeedLimit, BoredPct} \subseteq Nat
  /\ NearPct \in Nat \ {0}

VARIABLES
  state,      \* current_state
  metadata,   \* the column: Absent (NULL), or a window for each metric
  progress,   \* chapter_progress: a count for each chapter it has; NULL is <<>>
  used,       \* the windows of which the aggregate columns hold sum or average
  signals,    \* history: the signals of the last event
  first,      \* history: the values of the first event
  latest,     \* history: the values of the last event after the first
  recent      \* history: the last Window values reported of each metric

vars == <<state, metadata, progress, used, signals, first, latest, recent>>

Absent == [empty |-> TRUE]
NoWindows == [m \in Metrics |-> <<>>]

\* Sequences of at most n values.
UpTo(n) == {s \in Seq(Values) : Len(s) <= n}
Windows == [Metrics -> UpTo(Window)]
Counts == [completed : Nat, total : Nat, is_final : BOOLEAN]

\* <<>> is the function without arguments.
TypeOK ==
  /\ state \in AllStates
  /\ metadata \in Windows \cup {Absent}
  /\ DOMAIN progress \subseteq Chapters
  /\ \A c \in DOMAIN progress : progress[c] \in Counts
  /\ used \in Windows /\ recent \in Windows
  /\ first \in [Metrics -> UpTo(1)] \cup {Absent} /\ latest \in [Metrics -> UpTo(1)]
  /\ signals \subseteq Signals

Init ==
  /\ state = "new_unstarted"
  /\ metadata = Absent
  /\ progress = <<>>
  /\ used = NoWindows
  /\ signals = {}
  /\ first = Absent
  /\ latest = NoWindows
  /\ recent = NoWindows

-----------------------------------------------------------------------------
(* The windows. *)

\* list[-Window:]
LastOf(s) == IF Len(s) > Window THEN SubSeq(s, Len(s) - Window + 1, Len(s)) ELSE s

\* The value of a metric in an event, as a sequence.
Reported(e, m) == IF e.value[m] = None THEN <<>> ELSE <<e.value[m]>>

ValuesOf(e) == [m \in Metrics |-> Reported(e, m)]

\* Mutant: the newest value is put in front.
SlideFront(w, e) == [m \in Metrics |-> LastOf(Reported(e, m) \o w[m])]

\* update_sliding_window on the lists that metadata holds.
Slide(w, e) == [m \in Metrics |-> LastOf(w[m] \o Reported(e, m))]

Loaded == IF metadata = Absent THEN NoWindows ELSE metadata

\* The reference: the values of each metric that were reported last.
Newest(e) ==
  [m \in Metrics |->
     LET s == recent[m] \o Reported(e, m)
     IN IF Len(s) > Window THEN Tail(s) ELSE s]

\* What the flush leaves in the column metadata.
StoredMetadata(w) == IF metadata = Absent THEN w ELSE metadata

-----------------------------------------------------------------------------
(* The counts. *)

Unseen == [completed |-> 0, total |-> 0, is_final |-> FALSE]

\* Mutant: the activity is counted in the chapter's total as well.
BumpTotal(e) ==
  LET p == [c \in DOMAIN progress \cup {e.chapter} |->
              IF c \in DOMAIN progress THEN progress[c] ELSE Unseen]
  IN IF e.rules.type = "activity_completed" /\ e.chapter # None
       THEN [p EXCEPT ![e.chapter].completed = @ + 1, ![e.chapter].total = @ + 1]
       ELSE progress

\* _update_chapter_progress, in memory.
Bump(e) ==
  LET p == [c \in DOMAIN progress \cup {e.chapter} |->
              IF c \in DOMAIN progress THEN progress[c] ELSE Unseen]
  IN IF e.rules.type = "activity_completed" /\ e.chapter # None
       THEN [p EXCEPT ![e.chapter].completed = @ + 1]
       ELSE progress

\* What the flush leaves in the column chapter_progress.
StoredProgress(p) == IF progress = <<>> THEN p ELSE progress

-----------------------------------------------------------------------------
(* The signals. *)

SumOf(s) == FoldLeft(LAMBDA a, b : a + b, 0, s)

IsStruggling(w) ==
  \/ SumOf(w.retry) > RetryLimit
  \/ SumOf(w.score) > 0 /\ SumOf(w.score) < ScoreLimit * Len(w.score)

\* Without any total the completion rate is 0.
HasItems(p) == \E c \in DOMAIN p : p[c].total > 0

CompletionRateAbove(p) ==
  100 * MapThenSumSet(LAMBDA c : p[c].completed, DOMAIN p)
    > BoredPct * MapThenSumSet(LAMBDA c : p[c].total, DOMAIN p)

IsBored(w, p) ==
  /\ SumOf(w.speed) > 0 /\ SumOf(w.speed) < SpeedLimit * Len(w.speed)
  /\ HasItems(p) /\ CompletionRateAbove(p)

\* The chapter whose key sorts last, whichever chapter the learner is in.
IsNearCompletion(p) ==
  \E c \in DOMAIN p :
    /\ \A d \in DOMAIN p : d <= c
    /\ p[c].is_final /\ p[c].total > 0
    /\ 100 * p[c].completed >= NearPct * p[c].total

EvaluateSignals(w, p) ==
  { s \in Signals :
      \/ s = "struggling" /\ IsStruggling(w)
      \/ s = "bored" /\ IsBored(w, p)
      \/ s = "near_completion" /\ IsNearCompletion(p) }

-----------------------------------------------------------------------------

\* Mutant: the decision is assigned without testing that there is one.
NextStateUnguarded(e, sig) == ApplyTransitions(state, e.rules, sig)

\* Mutant: the rules are asked before the signals are evaluated.
NextStateStale(e, sig) ==
  LET next == ApplyTransitions(state, e.rules, signals)
  IN IF next = "none" THEN state ELSE next

NextState(e, sig) ==
  LET next == ApplyTransitions(state, e.rules, sig)
  IN IF next = "none" THEN state ELSE next

ProcessEvent(e) ==
  LET w == Slide(Loaded, e)
      p == Bump(e)
      sig == EvaluateSignals(w, p)
  IN /\ state' = NextState(e, sig)
     /\ metadata' = StoredMetadata(w)
     /\ progress' = StoredProgress(p)
     /\ used' = w
     /\ signals' = sig
     /\ IF first = Absent
          THEN first' = ValuesOf(e) /\ UNCHANGED latest
          ELSE latest' = ValuesOf(e) /\ UNCHANGED first
     /\ recent' = Newest(e)

\* The dormancy scan, whenever it comes (JourneyEngine says when).
ScanMoves(t) ==
  /\ t \in DormantStates /\ <<state, t>> \in Edges
  /\ state' = t
  /\ UNCHANGED <<metadata, progress, used, signals, first, latest, recent>>

Next ==
  \/ \E e \in Updates : ProcessEvent(e)
  \/ \E t \in DormantStates : ScanMoves(t)

Spec == Init /\ [][Next]_vars

-----------------------------------------------------------------------------
(* Properties. *)

\* What the columns are really computed from, after any number of events: the
\* values of the learner's first event and those of the latest one.  In-place
\* changes of metadata are never stored, so the windows do not slide.
WindowsAreFirstAndLatest ==
  first # Absent => \A m \in Metrics : used[m] = first[m] \o latest[m]

\* Chapter totals stay 0 and is_final stays FALSE, so of the three signals only
\* "struggling" is ever given, and no sequence of events and dormancy scans takes
\* a learner who starts afresh to bored_skimming, completing or completed.
FreshLearnersNeverFinish ==
  state \in {"new_unstarted", "onboarding", "progressing_active", "struggling"}
            \cup DormantStates

\* A learner is kept in struggling only by an evaluation that says so: the order
\* of the rules in _apply_transitions leaves no way to stay in it without.
StrugglingIsSignalled == state = "struggling" => "struggling" \in signals

\* What evaluator.py says of update_sliding_window: it maintains fixed-size
\* windows of the scores, retry counts and completion speeds.
WindowsHoldLatestValues == used = recent

=============================================================================
