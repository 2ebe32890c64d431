----------------------- MODULE BehaviorWindowsProofs -----------------------
(***************************************************************************)
(* Proofs about BehaviorWindows.  The inductive invariant says that the    *)
(* columns metadata and chapter_progress hold what the first event put     *)
(* there, and that no chapter ever gets a total.                           *)
(***************************************************************************)
EXTENDS BehaviorWindows, TLAPS

\* The column metadata is what the first event reported.
MetadataIsFirst ==
  /\ metadata = first
  /\ first = Absent => latest = NoWindows

NoTotals ==
  \A c \in DOMAIN progress : progress[c].total = 0 /\ progress[c].is_final = FALSE

Inv ==
  /\ TypeOK
  /\ MetadataIsFirst
  /\ NoTotals
  /\ signals \subseteq {"struggling"}
  /\ FreshLearnersNeverFinish
  /\ StrugglingIsSignalled
  /\ WindowsAreFirstAndLatest

-----------------------------------------------------------------------------

\* Cutting off the oldest values leaves at most a window.
LEMMA LastOfType ==
  ASSUME NEW s \in Seq(Values)
  PROVE  /\ LastOf(s) \in UpTo(Window)
         /\ Len(s) <= Window => LastOf(s) = s
  BY Parameters DEF LastOf, UpTo

\* An event reports at most one value of a metric.
LEMMA ReportedType ==
  ASSUME NEW e \in Updates, NEW m \in Metrics
  PROVE  Reported(e, m) \in Seq(Values) /\ Len(Reported(e, m)) <= 1
<1>1. e.value[m] \in Values \cup {None}
  BY Parameters DEF AllUpdates
<1> QED BY <1>1 DEF Reported

LEMMA SlideType ==
  ASSUME NEW w, NEW e \in Updates,
         \A m \in Metrics : w[m] \in UpTo(Window)
  PROVE  Slide(w, e) \in Windows
<1>1. ASSUME NEW m \in Metrics PROVE LastOf(w[m] \o Reported(e, m)) \in UpTo(Window)
  <2>1. w[m] \o Reported(e, m) \in Seq(Values)
    BY ReportedType DEF UpTo
  <2> QED BY <2>1, LastOfType
<1> QED BY <1>1 DEF Slide, Windows

LEMMA ValuesType ==
  ASSUME NEW e \in Updates
  PROVE  ValuesOf(e) \in [Metrics -> UpTo(1)]
  BY ReportedType DEF ValuesOf, UpTo

LEMMA NewestType ==
  ASSUME NEW e \in Updates, recent \in Windows
  PROVE  Newest(e) \in Windows
<1>1. ASSUME NEW m \in Metrics, NEW s, s = recent[m] \o Reported(e, m)
      PROVE  (IF Len(s) > Window THEN Tail(s) ELSE s) \in UpTo(Window)
  <2>1. recent[m] \in Seq(Values) /\ Len(recent[m]) <= Window
    BY DEF Windows, UpTo
  <2>2. s \in Seq(Values) /\ Len(s) <= Window + 1
    BY <1>1, <2>1, ReportedType, Parameters
  <2>3. CASE Len(s) > Window
    BY <2>2, <2>3, Parameters DEF UpTo
  <2>4. CASE ~(Len(s) > Window)
    BY <2>2, <2>4, Parameters DEF UpTo
  <2> QED BY <2>3, <2>4
<1> QED BY <1>1 DEF Newest, Windows

\* A window of at most one value takes another one without losing it.
LEMMA SlideAppends ==
  ASSUME NEW w \in [Metrics -> UpTo(1)], NEW e \in Updates, NEW m \in Metrics
  PROVE  Slide(w, e)[m] = w[m] \o ValuesOf(e)[m]
<1>1. /\ w[m] \in Seq(Values) /\ Len(w[m]) <= 1
      /\ Reported(e, m) \in Seq(Values) /\ Len(Reported(e, m)) <= 1
  BY ReportedType DEF UpTo
<1>2. w[m] \o Reported(e, m) \in Seq(Values) /\ Len(w[m] \o Reported(e, m)) <= Window
  BY <1>1, Parameters
<1>3. LastOf(w[m] \o Reported(e, m)) = w[m] \o Reported(e, m)
  BY <1>2, LastOfType
<1> QED BY <1>3 DEF Slide, ValuesOf

LEMMA CountsAfterBump ==
  ASSUME NEW d \in Counts
  PROVE  LET n == [d EXCEPT !.completed = @ + 1]
         IN n \in Counts /\ n.total = d.total /\ n.is_final = d.is_final
  BY DEF Counts

\* Counting an activity gives no chapter a total.
LEMMA BumpSound ==
  ASSUME NEW e \in Updates, TypeOK, NoTotals
  PROVE  /\ DOMAIN Bump(e) \subseteq Chapters
         /\ \A c \in DOMAIN Bump(e) :
              Bump(e)[c] \in Counts /\ Bump(e)[c].total = 0 /\ Bump(e)[c].is_final = FALSE
<1> DEFINE p == [c \in DOMAIN progress \cup {e.chapter} |->
                   IF c \in DOMAIN progress THEN progress[c] ELSE Unseen]
           counted == e.rules.type = "activity_completed" /\ e.chapter # None
<1>1. e.chapter \in Chapters \cup {None}
  BY Parameters DEF AllUpdates
<1>2. \A c \in DOMAIN p : p[c] \in Counts /\ p[c].total = 0 /\ p[c].is_final = FALSE
  BY DEF TypeOK, NoTotals, Counts, Unseen
<1>3. CASE counted
  <2>1. Bump(e) = [p EXCEPT ![e.chapter].completed = @ + 1]
    BY <1>3 DEF Bump
  <2>2. DOMAIN Bump(e) = DOMAIN progress \cup {e.chapter}
    BY <2>1
  <2>3. DOMAIN Bump(e) \subseteq Chapters
    BY <2>2, <1>1, <1>3 DEF TypeOK
  <2>4. ASSUME NEW c \in DOMAIN Bump(e)
        PROVE  Bump(e)[c] \in Counts /\ Bump(e)[c].total = 0 /\ Bump(e)[c].is_final = FALSE
    <3>1. c \in DOMAIN p /\ e.chapter \in DOMAIN p
      BY <2>2, <2>4
    <3>2. CASE c = e.chapter
      <4>1. Bump(e)[c] = [p[c] EXCEPT !.completed = @ + 1]
        BY <2>1, <3>1, <3>2
      <4>2. p[c] \in Counts /\ p[c].total = 0 /\ p[c].is_final = FALSE
        BY <1>2, <3>1
      <4> HIDE DEF p
      <4> QED BY <4>1, <4>2, CountsAfterBump
    <3>3. CASE c # e.chapter
      <4>1. Bump(e)[c] = p[c]
        BY <2>1, <3>1, <3>3
      <4> QED BY <4>1, <1>2, <3>1
    <3> QED BY <3>2, <3>3
  <2> QED BY <2>3, <2>4
<1>4. CASE ~counted
  BY <1>4 DEF Bump, TypeOK, NoTotals
<1> QED BY <1>3, <1>4

\* Without totals only "struggling" is signalled.
LEMMA OnlyStruggling ==
  ASSUME NEW w, NEW p,
         \A c \in DOMAIN p : p[c].total = 0
  PROVE  EvaluateSignals(w, p) \subseteq {"struggling"}
<1>1. ~HasItems(p)
  BY DEF HasItems
<1>2. ~IsBored(w, p)
  BY <1>1 DEF IsBored
<1>3. ~IsNearCompletion(p)
  BY DEF IsNearCompletion
<1> QED BY <1>2, <1>3 DEF EvaluateSignals

\* The decision of the machine, given at most "struggling".
LEMMA NextStateSound ==
  ASSUME NEW e \in Updates, NEW sig \in SUBSET {"struggling"},
         FreshLearnersNeverFinish, StrugglingIsSignalled
  PROVE  /\ NextState(e, sig) \in {"new_unstarted", "onboarding", "progressing_active",
                                   "struggling"} \cup DormantStates
         /\ NextState(e, sig) = "struggling" => "struggling" \in sig
  BY DEF NextState, ApplyTransitions, Send, Machine, FreshLearnersNeverFinish,
         StrugglingIsSignalled, DormantStates, ActiveStates

-----------------------------------------------------------------------------

LEMMA InvInit == Init => Inv
  BY Parameters DEF Init, Inv, TypeOK, MetadataIsFirst, NoTotals, FreshLearnersNeverFinish,
     StrugglingIsSignalled, WindowsAreFirstAndLatest, AllStates, NoWindows, Windows, UpTo,
     Signals

LEMMA InvEvent ==
  ASSUME Inv, NEW e \in Updates, ProcessEvent(e)
  PROVE  Inv'
<1> DEFINE w == Slide(Loaded, e)
           p == Bump(e)
           sig == EvaluateSignals(w, p)
<1> USE DEF Inv
<1>1. /\ state' = NextState(e, sig) /\ metadata' = StoredMetadata(w)
      /\ progress' = StoredProgress(p) /\ used' = w /\ signals' = sig
      /\ recent' = Newest(e)
  BY DEF ProcessEvent
<1>2. Loaded \in [Metrics -> UpTo(1)]
  BY Parameters DEF Loaded, TypeOK, MetadataIsFirst, NoWindows, UpTo
<1>3. w \in Windows
  <2>1. \A m \in Metrics : Loaded[m] \in UpTo(Window)
    BY <1>2, Parameters DEF UpTo
  <2> QED BY <2>1, SlideType
<1>4. \A m \in Metrics : w[m] = Loaded[m] \o ValuesOf(e)[m]
  BY <1>2, SlideAppends
<1>5. sig \subseteq {"struggling"}
  BY BumpSound, OnlyStruggling
<1>6. FreshLearnersNeverFinish' /\ StrugglingIsSignalled'
  BY <1>1, <1>5, NextStateSound DEF FreshLearnersNeverFinish, StrugglingIsSignalled
<1>7. /\ NoTotals'
      /\ DOMAIN progress' \subseteq Chapters
      /\ \A c \in DOMAIN progress' : progress'[c] \in Counts
  BY <1>1, BumpSound DEF StoredProgress, NoTotals, TypeOK
<1>8. /\ MetadataIsFirst' /\ WindowsAreFirstAndLatest'
      /\ metadata' \in Windows \cup {Absent}
      /\ first' \in [Metrics -> UpTo(1)] \cup {Absent} /\ latest' \in [Metrics -> UpTo(1)]
  <2>1. CASE first = Absent
    <3>1. first' = ValuesOf(e) /\ latest' = latest /\ metadata' = w
      BY <2>1, <1>1 DEF ProcessEvent, MetadataIsFirst, StoredMetadata
    <3>2. Loaded = NoWindows
      BY <2>1 DEF Loaded, MetadataIsFirst
    <3>3. ValuesOf(e) \in [Metrics -> UpTo(1)] /\ w \in [Metrics -> UpTo(Window)]
      BY <1>3, ValuesType DEF Windows
    <3>4. ASSUME NEW m \in Metrics PROVE w[m] = ValuesOf(e)[m]
      <4>1. ValuesOf(e)[m] \in Seq(Values)
        BY <3>3 DEF UpTo
      <4> QED BY <4>1, <1>4, <3>2 DEF NoWindows
    <3>5. w = ValuesOf(e)
      BY <3>3, <3>4
    <3>6. \A m \in Metrics : w[m] = ValuesOf(e)[m] \o NoWindows[m]
      <4>1. \A m \in Metrics : ValuesOf(e)[m] \in Seq(Values)
        BY <3>3 DEF UpTo
      <4> QED BY <4>1, <3>4 DEF NoWindows
    <3>7. latest = NoWindows /\ ValuesOf(e) # Absent
      BY <2>1, <3>3 DEF MetadataIsFirst, Absent, Metrics
    <3>8. MetadataIsFirst'
      BY <3>1, <3>5, <3>7 DEF MetadataIsFirst
    <3>9. WindowsAreFirstAndLatest'
      BY <3>1, <3>4, <3>6, <3>7, <1>1 DEF WindowsAreFirstAndLatest
    <3>10. metadata' \in Windows /\ first' \in [Metrics -> UpTo(1)]
      BY <3>1, <3>3, <1>3
    <3>11. latest' \in [Metrics -> UpTo(1)]
      BY <3>1 DEF TypeOK
    <3> QED BY <3>8, <3>9, <3>10, <3>11
  <2>2. CASE first # Absent
    <3>1. first' = first /\ latest' = ValuesOf(e) /\ metadata' = metadata /\ Loaded = first
      BY <2>2, <1>1 DEF ProcessEvent, MetadataIsFirst, StoredMetadata, Loaded
    <3>2. MetadataIsFirst' /\ WindowsAreFirstAndLatest'
      BY <2>2, <3>1, <1>1, <1>4 DEF MetadataIsFirst, WindowsAreFirstAndLatest
    <3> QED BY <3>1, <3>2, ValuesType DEF TypeOK
  <2> QED BY <2>1, <2>2
<1>9. TypeOK'
  <2>1. state' \in AllStates
    BY <1>6 DEF FreshLearnersNeverFinish, AllStates, ActiveStates
  <2>2. recent' \in Windows
    BY <1>1, NewestType DEF TypeOK
  <2>3. signals' \subseteq Signals
    BY <1>1, <1>5 DEF Signals
  <2> QED BY <2>1, <2>2, <2>3, <1>1, <1>3, <1>7, <1>8 DEF TypeOK
<1> QED BY <1>1, <1>5, <1>6, <1>7, <1>8, <1>9

\* The dormancy scan leaves everything but the state alone.
LEMMA InvScan ==
  ASSUME Inv, NEW t \in DormantStates, ScanMoves(t)
  PROVE  Inv'
<1>1. state' \in DormantStates /\ state' # "struggling" /\ state' \in AllStates
  BY DEF ScanMoves, DormantStates, AllStates
<1>2. UNCHANGED <<metadata, progress, used, signals, first, latest, recent>>
  BY DEF ScanMoves
<1> QED BY <1>1, <1>2 DEF Inv, TypeOK, MetadataIsFirst, NoTotals, FreshLearnersNeverFinish,
          StrugglingIsSignalled, WindowsAreFirstAndLatest

LEMMA InvNext == Inv /\ [Next]_vars => Inv'
<1> SUFFICES ASSUME Inv, [Next]_vars PROVE Inv'
  OBVIOUS
<1>1. ASSUME NEW e \in Updates, ProcessEvent(e) PROVE Inv'
  BY <1>1, InvEvent
<1>2. ASSUME NEW t \in DormantStates, ScanMoves(t) PROVE Inv'
  BY <1>2, InvScan
<1>3. CASE UNCHANGED vars
  BY <1>3 DEF vars, Inv, TypeOK, MetadataIsFirst, NoTotals, FreshLearnersNeverFinish,
     StrugglingIsSignalled, WindowsAreFirstAndLatest
<1> QED BY <1>1, <1>2, <1>3 DEF Next

\* Every column and history variable keeps its type.
THEOREM TypeCorrect == Spec => []TypeOK
<1>1. Inv => TypeOK
  BY DEF Inv
<1> QED BY <1>1, InvInit, InvNext, PTL DEF Spec

\* For windows of any size from two on: the aggregates are computed from the
\* first and the latest event, whatever came between.
THEOREM WindowsNeverSlide == Spec => []WindowsAreFirstAndLatest
<1>1. Inv => WindowsAreFirstAndLatest
  BY DEF Inv
<1> QED BY <1>1, InvInit, InvNext, PTL DEF Spec

\* For any events and thresholds: without totals in chapter_progress, a fresh
\* learner gets to none of the states behind the signals bored and near_completion.
THEOREM FreshLearnersStayBelow == Spec => []FreshLearnersNeverFinish
<1>1. Inv => FreshLearnersNeverFinish
  BY DEF Inv
<1> QED BY <1>1, InvInit, InvNext, PTL DEF Spec

\* A learner is in struggling only as long as the last evaluation says so.
THEOREM StrugglingSignalled == Spec => []StrugglingIsSignalled
<1>1. Inv => StrugglingIsSignalled
  BY DEF Inv
<1> QED BY <1>1, InvInit, InvNext, PTL DEF Spec

=============================================================================
